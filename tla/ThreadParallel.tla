--------------------------- MODULE ThreadParallel ---------------------------
(* ThreadParallelStrategy of core/pipeline/strategies.py, the execution mode
   the server configures: one generation of its threads, from start_threads to
   the last thread's exit. An input thread numbers the chunks it reads and puts
   them in a bounded chunk queue, worker threads process them concurrently and
   put them in a bounded output queue, an output thread reorders them and
   writes them to the sink, skipping a chunk that stays missing for
   lost_chunk_timeout, and a monitor thread moves the concurrency target.

   A chunk is its number. The data of a chunk is abstracted to the outcome of
   its processing; time is abstracted to which branch of a timed wait is taken.
   Timings, backpressure sleeps and the strategy's own counters, which are only
   reported, are left out; the chunk duration the output thread adapts is in
   PlayerFeedback, with what else writes it. *)
EXTENDS Integers, Sequences, FiniteSets

CONSTANTS
    Workers,       \* the worker threads
    NChunks,       \* chunks the input source yields (bound)
    BufferSize,    \* maxsize of chunk_queue and of output_queue
    MinConc,       \* adaptive.min_concurrent
    MaxConc,       \* adaptive.max_concurrent
    MaxExpected,   \* largest value of next_expected (bound)
    NoChunk        \* a worker holds no chunk

ASSUME BoundsAssumption ==
    /\ NChunks \in Nat \ {0}
    /\ BufferSize \in Nat \ {0}
    /\ MinConc \in Nat \ {0}
    /\ MaxConc \in Nat \ {0}
    /\ MaxExpected \in Nat
    /\ NChunks <= MaxExpected
ASSUME WorkersAssumption == IsFiniteSet(Workers) /\ Workers # {}
ASSUME NoChunkAssumption == NoChunk \notin Nat

VARIABLES
    stop_event,          \* ctx.stop_event
    in_pc,               \* the input thread: "top", "read", "put", "exited"
    chunk_index,         \* its local counter
    results,             \* keys of ctx.results
    chunk_queue,         \* ctx.chunk_queue
    w_pc,                \* each worker: "top", "get", "process", "put", "exited"
    w_chunk,             \* the processor a worker holds
    active_chunks,       \* self._active_chunks
    mon_pc,              \* the monitor: "top", "adapt", "exited"
    concurrency_target,  \* self._concurrency_target
    output_queue,        \* ctx.output_queue
    unfinished,          \* its unfinished_tasks counter: puts minus task_done
    out_pc,              \* the output thread: "top", "get", "drain", "idle", "exited"
    pending,             \* its local dict of chunks received out of order
    next_expected,       \* its local sequence number
    chunks_processed,    \* ctx.metrics.chunks_processed
    chunks_failed,       \* ctx.metrics.chunks_failed
    outcome,             \* history: what processing made of each chunk
    fate,                \* history: where each chunk ended
    written              \* history: the chunks handed to the sink, in order

input_vars   == <<in_pc, chunk_index>>
worker_vars  == <<w_pc, w_chunk, active_chunks>>
monitor_vars == <<mon_pc, concurrency_target>>
output_vars  == <<out_pc, pending, next_expected, chunks_processed,
                  chunks_failed, written>>
queue_vars   == <<chunk_queue, output_queue, unfinished>>
vars == <<stop_event, input_vars, results, worker_vars, monitor_vars,
          output_vars, queue_vars, outcome, fate>>

Chunks == 0 .. NChunks - 1

(* ok: every enabled module ran. partial: stop_event made it skip modules.
   failed: a critical module raised. degraded: a non-critical one raised. *)
Outcomes == {"ok", "partial", "failed", "degraded"}
HasError(c) == outcome[c] \in {"failed", "degraded"}

Fates == {"none", "dropped", "written", "write_failed", "discarded", "abandoned"}

(* start_threads: the target starts at the number of workers. *)
Init ==
    /\ stop_event = FALSE
    /\ in_pc = "top" /\ chunk_index = 0
    /\ results = {} /\ chunk_queue = <<>>
    /\ w_pc = [w \in Workers |-> "top"]
    /\ w_chunk = [w \in Workers |-> NoChunk]
    /\ active_chunks = 0
    /\ mon_pc = "top" /\ concurrency_target = Cardinality(Workers)
    /\ output_queue = <<>> /\ unfinished = 0
    /\ out_pc = "top" /\ pending = {} /\ next_expected = 0
    /\ chunks_processed = 0 /\ chunks_failed = 0
    /\ outcome = [c \in Chunks |-> "none"]
    /\ fate = [c \in Chunks |-> "none"]
    /\ written = <<>>

(* UnifiedPipeline.stop sets the event the threads poll. *)
Stop ==
    /\ ~stop_event
    /\ stop_event' = TRUE
    /\ UNCHANGED <<input_vars, results, worker_vars, monitor_vars,
                   output_vars, queue_vars, outcome, fate>>

-----------------------------------------------------------------------------
(* The input thread. *)

InputTop ==
    /\ in_pc = "top"
    /\ in_pc' = IF stop_event THEN "exited" ELSE "read"
    /\ UNCHANGED <<stop_event, chunk_index, results, worker_vars, monitor_vars,
                   output_vars, queue_vars, outcome, fate>>

(* get_next_chunk has nothing yet. *)
InputIdle ==
    /\ in_pc = "read"
    /\ in_pc' = "top"
    /\ UNCHANGED <<stop_event, chunk_index, results, worker_vars, monitor_vars,
                   output_vars, queue_vars, outcome, fate>>

InputRead ==
    /\ in_pc = "read" /\ chunk_index < NChunks
    /\ results' = results \cup {chunk_index}
    /\ in_pc' = "put"
    /\ UNCHANGED <<stop_event, chunk_index, worker_vars, monitor_vars,
                   output_vars, queue_vars, outcome, fate>>

(* get_next_chunk raises: the thread logs and ends, the pipeline does not. *)
InputCrash ==
    /\ in_pc = "read"
    /\ in_pc' = "exited"
    /\ UNCHANGED <<stop_event, chunk_index, results, worker_vars, monitor_vars,
                   output_vars, queue_vars, outcome, fate>>

(* chunk_queue.put waits one second for room, then raises queue.Full. Mutated
   form: it waits for ever. *)
PutTimesOut_Never == FALSE
PutTimesOut == Len(chunk_queue) = BufferSize

(* chunk_index += 1, queued or not. Mutated form: only when queued. *)
NextNumber_WhenQueued ==
    chunk_index' = IF PutTimesOut THEN chunk_index ELSE chunk_index + 1
NextNumber == chunk_index' = chunk_index + 1

InputPut ==
    /\ in_pc = "put" /\ Len(chunk_queue) < BufferSize
    /\ chunk_queue' = Append(chunk_queue, chunk_index)
    /\ NextNumber
    /\ in_pc' = "top"
    /\ UNCHANGED <<stop_event, results, worker_vars, monitor_vars, output_vars,
                   output_queue, unfinished, outcome, fate>>

InputDrop ==
    /\ in_pc = "put" /\ PutTimesOut
    /\ fate' = [fate EXCEPT ![chunk_index] = "dropped"]
    /\ NextNumber
    /\ in_pc' = "top"
    /\ UNCHANGED <<stop_event, results, worker_vars, monitor_vars, output_vars,
                   queue_vars, outcome>>

Input == InputTop \/ InputIdle \/ InputRead \/ InputCrash \/ InputPut \/ InputDrop
-----------------------------------------------------------------------------
(* A worker thread. *)

(* The stop check and the capacity check. The worker increments active_chunks
   only after its get, so two workers can pass this check on one free slot. *)
WorkerTop(w) ==
    /\ w_pc[w] = "top"
    /\ \/ stop_event /\ w_pc' = [w_pc EXCEPT ![w] = "exited"]
       \/ /\ ~stop_event /\ active_chunks < concurrency_target
          /\ w_pc' = [w_pc EXCEPT ![w] = "get"]
    /\ UNCHANGED <<stop_event, input_vars, results, w_chunk, active_chunks,
                   monitor_vars, output_vars, queue_vars, outcome, fate>>

WorkerEmpty(w) ==
    /\ w_pc[w] = "get" /\ chunk_queue = <<>>
    /\ w_pc' = [w_pc EXCEPT ![w] = "top"]
    /\ UNCHANGED <<stop_event, input_vars, results, w_chunk, active_chunks,
                   monitor_vars, output_vars, queue_vars, outcome, fate>>

WorkerGet(w) ==
    /\ w_pc[w] = "get" /\ chunk_queue # <<>>
    /\ w_chunk' = [w_chunk EXCEPT ![w] = Head(chunk_queue)]
    /\ chunk_queue' = Tail(chunk_queue)
    /\ active_chunks' = active_chunks + 1
    /\ w_pc' = [w_pc EXCEPT ![w] = "process"]
    /\ UNCHANGED <<stop_event, input_vars, results, monitor_vars, output_vars,
                   output_queue, unfinished, outcome, fate>>

(* _process_modules_with_tracking: modules are skipped once stop_event is set. *)
WorkerProcess(w) ==
    /\ w_pc[w] = "process"
    /\ \E o \in Outcomes :
          /\ o = "partial" => stop_event
          /\ outcome' = [outcome EXCEPT ![w_chunk[w]] = o]
    /\ w_pc' = [w_pc EXCEPT ![w] = "put"]
    /\ UNCHANGED <<stop_event, input_vars, results, w_chunk, active_chunks,
                   monitor_vars, output_vars, queue_vars, fate>>

(* Mutated form: a worker passes on only what was processed, so the output
   thread never learns of a failed chunk. *)
HandOver_OnlyProcessed(w) ==
    IF outcome[w_chunk[w]] = "failed"
      THEN UNCHANGED <<output_queue, unfinished>>
      ELSE /\ output_queue' = Append(output_queue, w_chunk[w])
           /\ unfinished' = unfinished + 1
HandOver(w) ==
    /\ output_queue' = Append(output_queue, w_chunk[w])
    /\ unfinished' = unfinished + 1

ReleaseSlot(w) == active_chunks' = active_chunks - 1

(* The finally of the worker: a failed chunk is handed over like any other.
   output_queue.put has no timeout, so a full queue blocks the worker. *)
WorkerPut(w) ==
    /\ w_pc[w] = "put" /\ Len(output_queue) < BufferSize
    /\ HandOver(w)
    /\ ReleaseSlot(w)
    /\ w_chunk' = [w_chunk EXCEPT ![w] = NoChunk]
    /\ w_pc' = [w_pc EXCEPT ![w] = "top"]
    /\ UNCHANGED <<stop_event, input_vars, results, monitor_vars, output_vars,
                   chunk_queue, outcome, fate>>

Worker(w) == WorkerTop(w) \/ WorkerEmpty(w) \/ WorkerGet(w)
                \/ WorkerProcess(w) \/ WorkerPut(w)

-----------------------------------------------------------------------------
(* The adaptive monitor thread. *)

MonitorTop ==
    /\ mon_pc = "top"
    /\ mon_pc' = IF stop_event THEN "exited" ELSE "adapt"
    /\ UNCHANGED <<stop_event, input_vars, results, worker_vars,
                   concurrency_target, output_vars, queue_vars, outcome, fate>>

Larger(a, b) == IF a > b THEN a ELSE b
Smaller(a, b) == IF a < b THEN a ELSE b

(* High load lowers the target, low load raises it. *)
NewTargets == {Larger(MinConc, concurrency_target - 1),
               Smaller(MaxConc, concurrency_target + 1)}

MonitorAdapt ==
    /\ mon_pc = "adapt"
    /\ concurrency_target' \in {concurrency_target} \cup NewTargets
    /\ mon_pc' = "top"
    /\ UNCHANGED <<stop_event, input_vars, results, worker_vars, output_vars,
                   queue_vars, outcome, fate>>

Monitor == MonitorTop \/ MonitorAdapt

-----------------------------------------------------------------------------
(* The output thread. *)

(* The finally of the output thread calls task_done for each pending chunk.
   Mutated form: it is missing. *)
TaskDoneForPending_Missing == UNCHANGED unfinished
TaskDoneForPending == unfinished' = unfinished - Cardinality(pending)

OutputExit ==
    /\ out_pc = "top" /\ stop_event
    /\ TaskDoneForPending
    /\ pending' = {}
    /\ fate' = [c \in Chunks |-> IF c \in pending THEN "abandoned" ELSE fate[c]]
    /\ out_pc' = "exited"
    /\ UNCHANGED <<stop_event, input_vars, results, worker_vars, monitor_vars,
                   next_expected, chunks_processed, chunks_failed, written,
                   chunk_queue, output_queue, outcome>>

OutputTop ==
    /\ out_pc = "top" /\ ~stop_event
    /\ out_pc' = "get"
    /\ UNCHANGED <<stop_event, input_vars, results, worker_vars, monitor_vars,
                   pending, next_expected, chunks_processed, chunks_failed,
                   written, queue_vars, outcome, fate>>

OutputGet ==
    /\ out_pc = "get" /\ output_queue # <<>>
    /\ pending' = pending \cup {Head(output_queue)}
    /\ output_queue' = Tail(output_queue)
    /\ out_pc' = "drain"
    /\ UNCHANGED <<stop_event, input_vars, results, worker_vars, monitor_vars,
                   next_expected, chunks_processed, chunks_failed, written,
                   chunk_queue, unfinished, outcome, fate>>

OutputEmpty ==
    /\ out_pc = "get" /\ output_queue = <<>>
    /\ out_pc' = "idle"
    /\ UNCHANGED <<stop_event, input_vars, results, worker_vars, monitor_vars,
                   pending, next_expected, chunks_processed, chunks_failed,
                   written, queue_vars, outcome, fate>>

(* The chunk goes to the sink unless its processor has an error; a raising sink
   is logged and the chunk counts as processed all the same. *)
WriteToSink(c) ==
    \/ /\ HasError(c)
       /\ fate' = [fate EXCEPT ![c] = "discarded"]
       /\ UNCHANGED written
    \/ /\ ~HasError(c)
       /\ fate' = [fate EXCEPT ![c] = "written"]
       /\ written' = Append(written, c)
    \/ /\ ~HasError(c)
       /\ fate' = [fate EXCEPT ![c] = "write_failed"]
       /\ UNCHANGED written

PopResult(c) == results' = results \ {c}

CountFailed == chunks_failed' = chunks_failed + 1 /\ UNCHANGED chunks_processed
CountProcessed == chunks_processed' = chunks_processed + 1 /\ UNCHANGED chunks_failed

(* while next_expected in pending. *)
Due(c) == c \in pending /\ c = next_expected

(* One turn of the inner loop. *)
OutputDeliver ==
    /\ out_pc \in {"drain", "idle"}
    /\ \E c \in Chunks :
          /\ Due(c)
          /\ pending' = pending \ {c}
          /\ WriteToSink(c)
          /\ PopResult(c)
          /\ IF HasError(c) THEN CountFailed ELSE CountProcessed
    /\ unfinished' = unfinished - 1
    /\ next_expected' = next_expected + 1
    /\ out_pc' = "drain"
    /\ UNCHANGED <<stop_event, input_vars, worker_vars, monitor_vars,
                   chunk_queue, output_queue, outcome>>

OutputLoop ==
    /\ out_pc \in {"drain", "idle"} /\ next_expected \notin pending
    /\ out_pc' = "top"
    /\ UNCHANGED <<stop_event, input_vars, results, worker_vars, monitor_vars,
                   pending, next_expected, chunks_processed, chunks_failed,
                   written, queue_vars, outcome, fate>>

(* time.time() - _last_pending_time > lost_timeout with chunks waiting. The clock
   was just reset unless this turn's get timed out and nothing was drained; how
   long ago it was reset is left open. *)
LostTimeoutElapsed == out_pc = "idle" /\ pending # {}

(* A lost chunk costs one number. Mutated form: the loop resumes after a chunk
   that has arrived. *)
SkipTo_AfterArrived == \E c \in pending : c > next_expected /\ next_expected' = c + 1
SkipTo == next_expected' = next_expected + 1

(* The expected number is given up, whatever became of its chunk. *)
OutputSkip ==
    /\ LostTimeoutElapsed
    /\ next_expected \notin pending
    /\ next_expected < MaxExpected
    /\ PopResult(next_expected)
    /\ CountFailed
    /\ SkipTo
    /\ out_pc' = "top"
    /\ UNCHANGED <<stop_event, input_vars, worker_vars, monitor_vars, pending,
                   written, queue_vars, outcome, fate>>

Output == OutputTop \/ OutputExit \/ OutputGet \/ OutputEmpty
             \/ OutputDeliver \/ OutputLoop \/ OutputSkip

-----------------------------------------------------------------------------
Next == \/ Stop \/ Input \/ Monitor \/ Output
        \/ \E w \in Workers : Worker(w)

Spec == Init /\ [][Next]_vars

(* Every thread keeps being scheduled and every wait of the loops but the
   workers' put has a timeout. Nothing is assumed of OutputSkip: each chunk that
   arrives restarts its clock, so while chunks arrive more often than
   lost_chunk_timeout it is never due, and the input decides how often that is. *)
Fairness ==
    /\ WF_vars(Input) /\ WF_vars(Monitor) /\ WF_vars(Output)
    /\ \A w \in Workers : WF_vars(Worker(w))

FairSpec == Spec /\ Fairness
-----------------------------------------------------------------------------
(* Type invariant of the strategy's state. *)
TypeOK ==
    /\ stop_event \in BOOLEAN
    /\ in_pc \in {"top", "read", "put", "exited"}
    /\ chunk_index \in 0 .. NChunks
    /\ in_pc = "put" => chunk_index < NChunks
    /\ results \subseteq Chunks
    /\ chunk_queue \in Seq(Chunks)
    /\ w_pc \in [Workers -> {"top", "get", "process", "put", "exited"}]
    /\ w_chunk \in [Workers -> Chunks \cup {NoChunk}]
    /\ active_chunks \in Int
    /\ mon_pc \in {"top", "adapt", "exited"}
    /\ concurrency_target \in Nat \ {0}
    /\ output_queue \in Seq(Chunks)
    /\ unfinished \in Int
    /\ out_pc \in {"top", "get", "drain", "idle", "exited"}
    /\ pending \subseteq Chunks
    /\ next_expected \in 0 .. MaxExpected
    /\ chunks_processed \in Nat
    /\ chunks_failed \in Nat
    /\ outcome \in [Chunks -> Outcomes \cup {"none"}]
    /\ fate \in [Chunks -> Fates]
    /\ written \in Seq(Chunks)

(* The output thread restores the input's order whatever the workers do: the
   sink gets each chunk at most once, in strictly increasing order, and never
   one at or beyond the number the thread still waits for. *)
OrderedOutput ==
    /\ \A i \in 1 .. Len(written) : written[i] < next_expected
    /\ \A i, j \in 1 .. Len(written) : i < j => written[i] < written[j]

(* Where a chunk is: every thread hands it over, none copies or forgets it. *)
Places(c) ==
    {<<"input", 0>> : x \in {y \in {chunk_index} : in_pc = "put" /\ y = c}}
    \cup {<<"chunk_queue", i>> : i \in {j \in DOMAIN chunk_queue : chunk_queue[j] = c}}
    \cup {<<"worker", w>> : w \in {v \in Workers : w_chunk[v] = c}}
    \cup {<<"output_queue", i>> : i \in {j \in DOMAIN output_queue : output_queue[j] = c}}
    \cup {<<"pending", 0>> : x \in pending \cap {c}}
    \cup {<<fate[c], 0>> : x \in {y \in {c} : fate[y] # "none"}}

Read(c) == c < chunk_index \/ (c = chunk_index /\ in_pc = "put")

(* A chunk the input thread has read is in exactly one place from then on, the
   last being its fate; one it has not read is nowhere. *)
ChunkInOnePlace ==
    \A c \in Chunks :
        Cardinality(Places(c)) = IF Read(c) THEN 1 ELSE 0

(* Every number the output thread has passed was counted once, as processed or
   as failed (skips included). *)
MetricsCoverFrontier == chunks_processed + chunks_failed = next_expected

(* ROB-03: task_done is called once for every get that has left pending, also
   when the loop ends early, so what is unfinished is what is still queued or
   waiting for an earlier chunk. *)
TaskDoneBalance == unfinished = Len(output_queue) + Cardinality(pending)

(* active_chunks, which the capacity check reads, counts the workers that hold
   a chunk: no path of the loop leaks or frees a slot twice. *)
ActiveCountsHolders ==
    active_chunks = Cardinality({w \in Workers : w_chunk[w] # NoChunk})

(* The counters the threads keep on the way agree with what they count, on every
   path a chunk can take: success, failure, skip, drop and early exit. *)
CountersAgree == MetricsCoverFrontier /\ TaskDoneBalance /\ ActiveCountsHolders

(* The output side implements OrderedDelivery. *)
OD == INSTANCE OrderedDelivery WITH frontier <- next_expected, delivered <- written
ODSpec == OD!Spec

(* A chunk that was queued is passed, unless the pipeline is stopped first or a
   number the output still waits for before it was dropped at a full queue:
   neither a slow worker, a failed predecessor nor a lowered concurrency target
   blocks the output. Past a dropped
   number only the time-out leads, which a steady stream keeps from elapsing. *)
EveryChunkPassed ==
    \A c \in Chunks :
        (c < chunk_index /\ \A d \in Chunks : (next_expected <= d /\ d <= c) => fate[d] # "dropped")
            ~> (c < next_expected \/ stop_event)

(* stop() ends every thread, except workers caught in the put on an output
   queue that is full and that nobody reads any more. *)
ThreadsEnd ==
    stop_event ~>
        /\ in_pc = "exited" /\ mon_pc = "exited" /\ out_pc = "exited"
        /\ \A w \in Workers :
              \/ w_pc[w] = "exited"
              \/ w_pc[w] = "put" /\ Len(output_queue) = BufferSize
=============================================================================
