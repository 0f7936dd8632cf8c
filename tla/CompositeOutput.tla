-------------------------- MODULE CompositeOutput --------------------------
(* modules/outputs/composite_output.py: the sink that writes every chunk to all
   the outputs, and the worker thread that restarts the outputs that failed.

   Four parties use it: the pipeline, which starts and stops it; the thread that
   writes chunks; the reconnection worker of each start; and the HTTP handlers
   that add, remove and reconfigure outputs at any time, one handler at a time on
   the event loop. _lock is held for short pieces only, never around an output's
   own start, stop or write, except by start and remove_output; configure_outputs
   does not take it at all. *)
EXTENDS Naturals, Sequences, FiniteSets

CONSTANTS
    Outputs,                \* the output sinks; one that was removed is not
                            \* added again (its name would get another object)
    Configured,             \* those that are there from the beginning
    MaxReconnectAttempts,   \* self._max_reconnect_attempts
    MaxStarts,              \* calls of start (bound)
    MaxStops,               \* calls of stop (bound)
    MaxFailures,            \* writes that raise (bound)
    MaxReconfigures,        \* calls of configure_outputs (bound)
    Disturbances            \* what may go wrong, a subset of AllDisturbances

AllDisturbances ==
    {"start_fails",     \* an output's start raises
     "init_fails",      \* a module or the input raises before the composite is
                        \* started
     "stop_unstarted",  \* stop without a start: a stop during initialization
     "writer_lingers",  \* the writing thread outlives the join of stop_threads
     "worker_lingers",  \* a worker that restarts an output outlives the 2 s
                        \* join of stop
     "add_start_fails", \* the start of an output being added raises
     "configure_fails"} \* an output's configure raises

ASSUME DisturbancesAssumption == Disturbances \subseteq AllDisturbances
ASSUME OutputsAssumption == Configured \subseteq Outputs /\ "none" \notin Outputs
ASSUME AttemptsAssumption == MaxReconnectAttempts \in Nat \ {0}
ASSUME BoundsAssumption ==
    /\ MaxStarts \in Nat /\ MaxStops \in Nat
    /\ MaxFailures \in Nat /\ MaxReconfigures \in Nat

Workers == 1 .. MaxStarts
Attempts == 1 .. MaxReconnectAttempts
Task(o, k) == [output |-> o, attempt |-> k]
Tasks == [output : Outputs, attempt : Attempts]
Sentinel == Task("none", 0)  \* the None that stop puts in the queue

VARIABLES
    present,       \* the keys of self._outputs
    known,         \* history: outputs that are or were present
    up,            \* per output, whether it is started
    errors,        \* per output, whether self._errors holds a message
    attempts,      \* self._reconnect_attempts, 0 when there is no entry
    stopped,       \* self._stopped
    stop_event,    \* self._stop_event.is_set()
    queue,         \* self._reconnect_queue
    worker,        \* self._reconnect_worker_thread, or 0
    worker_pc,     \* per worker: "none", "poll", "check", "stop", "start",
                   \* "mark", "failed", "exited"
    worker_task,   \* per worker, the task it took last
    life,          \* where the pipeline is: "down"; "starting", before it starts
                   \* the composite; "failed", when it did not come to that;
                   \* "spawn", "up"; "flag", "join", "halt" in its stop
    starts, stops, failures,   \* calls and failed writes so far
    joining,       \* the worker that stop waits for, or 0
    to_stop,       \* the outputs of stop's snapshot it has still to stop
    write_pc,      \* the writing thread: "none", "next", "write", "schedule",
                   \* "enqueue"
    to_write,      \* the outputs of write's snapshot it has still to look at
    writing,       \* the output it is writing to, as a task with attempt 0
                   \* until the attempt is counted; Sentinel between two
    adding,        \* the output a handler has added and may start, or "none"
    reconfigures,  \* calls of configure_outputs so far
    to_configure,  \* the outputs configure_outputs has still to come to
    overwritten    \* history: outputs whose message configure_outputs cleared

output_vars == <<present, known, up, errors, attempts>>
worker_vars == <<worker_pc, worker_task>>
life_vars   == <<stopped, stop_event, worker, life, starts, stops, joining, to_stop>>
write_vars  == <<write_pc, to_write, writing, failures>>
handler_vars == <<adding, reconfigures, to_configure, overwritten>>
vars == <<output_vars, queue, worker_vars, life_vars, write_vars, handler_vars>>

Init ==
    /\ present = Configured /\ known = Configured
    /\ up = [o \in Outputs |-> FALSE] /\ errors = [o \in Outputs |-> FALSE]
    /\ attempts = [o \in Outputs |-> 0]
    /\ stopped = FALSE /\ stop_event = FALSE
    /\ queue = <<>> /\ worker = 0 /\ joining = 0 /\ to_stop = {}
    /\ worker_pc = [w \in Workers |-> "none"]
    /\ worker_task = [w \in Workers |-> Sentinel]
    /\ life = "down" /\ starts = 0 /\ stops = 0 /\ failures = 0
    /\ write_pc = "none" /\ to_write = {} /\ writing = Sentinel
    /\ adding = "none" /\ reconfigures = 0 /\ to_configure = {} /\ overwritten = {}

WorkerGoto(w, pc) == worker_pc' = [worker_pc EXCEPT ![w] = pc]
Live(w) == w \in Workers /\ worker_pc[w] \notin {"none", "exited"}
Restarting(w) == w \in Workers /\ worker_pc[w] \in {"stop", "start"}

-----------------------------------------------------------------------------
(* start, called by UnifiedPipeline.initialize. *)

(* The pipeline is STARTING, and starts its modules and its input first. *)
PipelineStarts ==
    /\ life \in {"down", "failed"} /\ starts < MaxStarts
    /\ life' = "starting"
    /\ UNCHANGED <<output_vars, queue, worker_vars, stopped, stop_event, worker,
                   starts, stops, joining, to_stop, write_vars, handler_vars>>

(* The pipeline is in ERROR, where a stop does nothing. *)
InitializeFails ==
    /\ life = "starting" /\ "init_fails" \in Disturbances
    /\ life' = "failed"
    /\ UNCHANGED <<output_vars, queue, worker_vars, stopped, stop_event, worker,
                   starts, stops, joining, to_stop, write_vars, handler_vars>>

(* The messages start leaves. Mutated form: it clears them whatever happens. *)
StartErrors_Cleared(failing) == [o \in Outputs |-> errors[o] /\ o \notin present]
StartErrors(failing) ==
    [o \in Outputs |-> o \in failing \/ (errors[o] /\ o \notin present)]

(* The lock is held while every output is started; one that raises keeps its
   message and no reconnection is scheduled for it. *)
StartOutputs ==
    /\ life = "starting" /\ starts < MaxStarts
    /\ starts' = starts + 1
    /\ stopped' = FALSE /\ stop_event' = FALSE
    /\ \E failing \in IF "start_fails" \in Disturbances THEN SUBSET present ELSE {{}} :
          /\ up' = [o \in Outputs |->
                      IF o \in present THEN o \notin failing ELSE up[o]]
          /\ errors' = StartErrors(failing)
          /\ attempts' = [o \in Outputs |->
                            IF o \in present \ failing THEN 0 ELSE attempts[o]]
    /\ life' = "spawn"
    /\ UNCHANGED <<present, known, queue, worker_vars, worker, stops, joining,
                   to_stop, write_vars, handler_vars>>

StartWorker ==
    /\ life = "spawn"
    /\ IF ~Live(worker)
         THEN /\ worker' = starts
              /\ WorkerGoto(starts, "poll")
         ELSE UNCHANGED <<worker, worker_pc>>
    /\ life' = "up"
    /\ UNCHANGED <<output_vars, queue, worker_task, stopped, stop_event, starts,
                   stops, joining, to_stop, write_vars, handler_vars>>

-----------------------------------------------------------------------------
(* stop, called by UnifiedPipeline._sync_stop. *)

StopSignals ==
    /\ life = "up" \/ (life = "starting" /\ "stop_unstarted" \in Disturbances)
    /\ stops < MaxStops
    /\ "writer_lingers" \in Disturbances \/ write_pc = "none"
    /\ stops' = stops + 1
    /\ stop_event' = TRUE
    /\ queue' = Append(queue, Sentinel)
    /\ joining' = worker /\ worker' = 0
    /\ life' = "flag"
    /\ UNCHANGED <<output_vars, worker_vars, stopped, starts, to_stop, write_vars, handler_vars>>

StopFlags ==
    /\ life = "flag"
    /\ stopped' = TRUE
    /\ to_stop' = present
    /\ life' = "join"
    /\ UNCHANGED <<output_vars, queue, worker_vars, stop_event, worker, starts,
                   stops, joining, write_vars, handler_vars>>

(* worker.join(timeout=2.0): only an output's stop or start takes longer than
   that, the worker polls every half second. Mutated form: the worker is not joined. *)
WorkerJoined_Not == TRUE
WorkerJoined == \/ ~Live(joining)
                \/ "worker_lingers" \in Disturbances /\ Restarting(joining)

StopJoins ==
    /\ life = "join"
    /\ WorkerJoined
    /\ joining' = 0
    /\ life' = "halt"
    /\ UNCHANGED <<output_vars, queue, worker_vars, stopped, stop_event, worker,
                   starts, stops, to_stop, write_vars, handler_vars>>

StopOutput ==
    /\ life = "halt"
    /\ \E o \in to_stop : /\ up' = [up EXCEPT ![o] = FALSE]
                          /\ to_stop' = to_stop \ {o}
    /\ UNCHANGED <<present, known, errors, attempts, queue, worker_vars, stopped,
                   stop_event, worker, life, starts, stops, joining, write_vars, handler_vars>>

StopEnds ==
    /\ life = "halt" /\ to_stop = {}
    /\ life' = "down"
    /\ UNCHANGED <<output_vars, queue, worker_vars, stopped, stop_event, worker,
                   starts, stops, joining, to_stop, write_vars, handler_vars>>

Lifecycle == \/ PipelineStarts \/ InitializeFails \/ StartOutputs \/ StartWorker
             \/ StopSignals \/ StopFlags \/ StopJoins \/ StopOutput \/ StopEnds

-----------------------------------------------------------------------------
(* write, called by the pipeline's writing thread. *)

WriteBegins ==
    /\ write_pc = "none" /\ life = "up"
    /\ write_pc' = "next" /\ to_write' = present
    /\ UNCHANGED <<output_vars, queue, worker_vars, life_vars, writing, failures, handler_vars>>

WriteEnds ==
    /\ write_pc = "next" /\ to_write = {}
    /\ write_pc' = "none"
    /\ UNCHANGED <<output_vars, queue, worker_vars, life_vars, to_write, writing,
                   failures, handler_vars>>

(* The check of an output of the snapshot: one with an error is skipped.
   Mutated form: it is written to. *)
Skipped_Never(o) == FALSE
Skipped(o) == errors[o]

(* The snapshot has the order of the dictionary; here any order. *)
WriteChecks ==
    /\ write_pc = "next"
    /\ \E o \in to_write :
          /\ to_write' = to_write \ {o}
          /\ IF Skipped(o) THEN UNCHANGED <<write_pc, writing>>
                           ELSE write_pc' = "write" /\ writing' = Task(o, 0)
    /\ UNCHANGED <<output_vars, queue, worker_vars, life_vars, failures, handler_vars>>

WriteSucceeds ==
    /\ write_pc = "write"
    /\ write_pc' = "next" /\ writing' = Sentinel
    /\ UNCHANGED <<output_vars, queue, worker_vars, life_vars, to_write, failures,
                   handler_vars>>

WriteFails ==
    /\ write_pc = "write" /\ failures < MaxFailures
    /\ failures' = failures + 1
    /\ errors' = [errors EXCEPT ![writing.output] = TRUE]
    /\ write_pc' = "schedule"
    /\ UNCHANGED <<present, known, up, attempts, queue, worker_vars, life_vars,
                   to_write, writing, handler_vars>>

MayReconnect(o) == ~stopped /\ attempts[o] < MaxReconnectAttempts

(* _schedule_reconnect: counted under the lock, put in the queue after it. *)
Schedules ==
    LET o == writing.output IN
    /\ write_pc = "schedule"
    /\ IF MayReconnect(o)
         THEN /\ attempts' = [attempts EXCEPT ![o] = @ + 1]
              /\ writing' = Task(o, attempts[o] + 1)
              /\ write_pc' = "enqueue"
         ELSE write_pc' = "next" /\ writing' = Sentinel /\ UNCHANGED attempts
    /\ UNCHANGED <<present, known, up, errors, queue, worker_vars, life_vars,
                   to_write, failures, handler_vars>>

Enqueues ==
    /\ write_pc = "enqueue"
    /\ queue' = Append(queue, writing)
    /\ write_pc' = "next" /\ writing' = Sentinel
    /\ UNCHANGED <<output_vars, worker_vars, life_vars, to_write, failures, handler_vars>>

Write == \/ WriteBegins \/ WriteEnds \/ WriteChecks \/ WriteSucceeds
         \/ WriteFails \/ Schedules \/ Enqueues

-----------------------------------------------------------------------------
(* _reconnect_worker and _reconnect_output. *)

WorkerExits(w) ==
    /\ worker_pc[w] = "poll" /\ stop_event
    /\ WorkerGoto(w, "exited")
    /\ UNCHANGED <<output_vars, queue, worker_task, life_vars, write_vars, handler_vars>>

(* A worker that waits in get takes an item even when the stop event has been
   set since: a sentinel ends it, a task it drops if the event is set. *)
WorkerTakes(w) ==
    /\ worker_pc[w] = "poll" /\ queue # <<>>
    /\ queue' = Tail(queue)
    /\ IF Head(queue) = Sentinel \/ stop_event
         THEN WorkerGoto(w, "exited") /\ UNCHANGED worker_task
         ELSE /\ worker_task' = [worker_task EXCEPT ![w] = Head(queue)]
              /\ WorkerGoto(w, "check")
    /\ UNCHANGED <<output_vars, life_vars, write_vars, handler_vars>>

(* "Pipeline ya se paro, no resucitar outputs." *)
MayRevive(o) == ~stopped /\ o \in present

WorkerChecks(w) ==
    /\ worker_pc[w] = "check"
    /\ WorkerGoto(w, IF MayRevive(worker_task[w].output) THEN "stop" ELSE "poll")
    /\ UNCHANGED <<output_vars, queue, worker_task, life_vars, write_vars, handler_vars>>

(* output.stop() and output.start(), without the lock. *)
WorkerStops(w) ==
    /\ worker_pc[w] = "stop"
    /\ up' = [up EXCEPT ![worker_task[w].output] = FALSE]
    /\ WorkerGoto(w, "start")
    /\ UNCHANGED <<present, known, errors, attempts, queue, worker_task,
                   life_vars, write_vars, handler_vars>>

WorkerStarts(w) ==
    /\ worker_pc[w] = "start"
    /\ up' = [up EXCEPT ![worker_task[w].output] = TRUE]
    /\ WorkerGoto(w, "mark")
    /\ UNCHANGED <<present, known, errors, attempts, queue, worker_task,
                   life_vars, write_vars, handler_vars>>

WorkerStartFails(w) ==
    /\ worker_pc[w] = "start" /\ "start_fails" \in Disturbances
    /\ WorkerGoto(w, "failed")
    /\ UNCHANGED <<output_vars, queue, worker_task, life_vars, write_vars, handler_vars>>

WorkerMarks(w) ==
    LET o == worker_task[w].output IN
    /\ worker_pc[w] = "mark"
    /\ errors' = [errors EXCEPT ![o] = FALSE]
    /\ attempts' = [attempts EXCEPT ![o] = 0]
    /\ WorkerGoto(w, "poll")
    /\ UNCHANGED <<present, known, up, queue, worker_task, life_vars, write_vars,
                   handler_vars>>

AnotherAttempt(k) == k < MaxReconnectAttempts /\ ~stopped

(* The failed attempt is recorded and the next one is queued, all under the lock;
   the worker survives it. *)
WorkerRetries(w) ==
    LET o == worker_task[w].output
        k == worker_task[w].attempt IN
    /\ worker_pc[w] = "failed"
    /\ IF AnotherAttempt(k)
         THEN /\ attempts' = [attempts EXCEPT ![o] = k]
              /\ queue' = Append(queue, Task(o, k + 1))
         ELSE UNCHANGED <<attempts, queue>>
    /\ WorkerGoto(w, "poll")
    /\ UNCHANGED <<present, known, up, errors, worker_task, life_vars, write_vars,
                   handler_vars>>

Reconnects(w) == \/ WorkerExits(w) \/ WorkerTakes(w) \/ WorkerChecks(w)
                 \/ WorkerStops(w) \/ WorkerStarts(w) \/ WorkerStartFails(w)
                 \/ WorkerMarks(w) \/ WorkerRetries(w)

-----------------------------------------------------------------------------
(* The handlers, one at a time: none of them awaits in between. *)
HandlerFree == adding = "none" /\ to_configure = {}

(* POST /outputs: the new output is there for write before it is started. *)
AddOutput ==
    /\ HandlerFree
    /\ \E o \in Outputs \ known :
          /\ present' = present \cup {o} /\ known' = known \cup {o}
          /\ errors' = [errors EXCEPT ![o] = FALSE]
          /\ attempts' = [attempts EXCEPT ![o] = 0]
          /\ up' = [up EXCEPT ![o] = FALSE]
          /\ adding' = o
    /\ UNCHANGED <<queue, worker_vars, life_vars, write_vars, reconfigures,
                   to_configure, overwritten>>

(* is_running is true from STARTING on, before the composite is started, and
   false again for a moment (IDLE) after initialize, in ERROR, and from the
   pipeline's STOPPING on, that is before it comes to the composite. *)
PipelineRuns(running) == running => life \in {"starting", "spawn", "up"}

(* Then its start, outside the lock. One that fails is logged and leaves no
   message. *)
AddedStarts ==
    /\ adding # "none"
    /\ \E running \in BOOLEAN,
          failing \in IF "add_start_fails" \in Disturbances THEN BOOLEAN ELSE {FALSE} :
          /\ PipelineRuns(running)
          /\ up' = [up EXCEPT ![adding] = @ \/ (running /\ ~failing)]
    /\ adding' = "none"
    /\ UNCHANGED <<present, known, errors, attempts, queue, worker_vars, life_vars,
                   write_vars, reconfigures, to_configure, overwritten>>

(* DELETE /outputs: remove_output stops the output and forgets it, under the
   lock; the handler keeps the last one. *)
RemoveOutput ==
    /\ HandlerFree /\ Cardinality(present) > 1
    /\ \E o \in present :
          /\ present' = present \ {o}
          /\ up' = [up EXCEPT ![o] = FALSE]
          /\ errors' = [errors EXCEPT ![o] = FALSE]
          /\ attempts' = [attempts EXCEPT ![o] = 0]
    /\ UNCHANGED <<known, queue, worker_vars, life_vars, write_vars, handler_vars>>

(* configure_outputs, by PUT /config, a preset, the toggle of a module, /restart. *)
Reconfigure ==
    /\ HandlerFree /\ reconfigures < MaxReconfigures
    /\ reconfigures' = reconfigures + 1
    /\ to_configure' = present
    /\ UNCHANGED <<output_vars, queue, worker_vars, life_vars, write_vars, adding,
                   overwritten>>

(* Output by output, without the lock: the message of an earlier failure is
   cleared though nothing was restarted, and a configure that raises leaves one
   of its own, for which no reconnection is scheduled. *)
ConfigureOutput ==
    /\ \E o \in to_configure,
          failing \in IF "configure_fails" \in Disturbances THEN BOOLEAN ELSE {FALSE} :
          /\ to_configure' = to_configure \ {o}
          /\ errors' = [errors EXCEPT ![o] = failing]
          /\ overwritten' = IF errors[o] /\ ~failing THEN overwritten \cup {o}
                                                     ELSE overwritten
    /\ UNCHANGED <<present, known, up, attempts, queue, worker_vars, life_vars,
                   write_vars, adding, reconfigures>>

Handlers == \/ AddOutput \/ AddedStarts \/ RemoveOutput \/ Reconfigure \/ ConfigureOutput

-----------------------------------------------------------------------------
Next == Lifecycle \/ Write \/ (\E w \in Workers : Reconnects(w)) \/ Handlers

Spec == Init /\ [][Next]_vars

(* The worker's thread is scheduled; an output's start and stop return. *)
FairSpec == Spec /\ \A w \in Workers : WF_vars(Reconnects(w))

-----------------------------------------------------------------------------
(* Type invariant. No attempt is ever numbered above the maximum. *)
TypeOK ==
    /\ present \subseteq known /\ known \subseteq Outputs
    /\ up \in [Outputs -> BOOLEAN] /\ errors \in [Outputs -> BOOLEAN]
    /\ attempts \in [Outputs -> 0 .. MaxReconnectAttempts]
    /\ stopped \in BOOLEAN /\ stop_event \in BOOLEAN
    /\ queue \in Seq(Tasks \cup {Sentinel})
    /\ worker \in Workers \cup {0} /\ joining \in Workers \cup {0}
    /\ worker_pc \in [Workers -> {"none", "poll", "check", "stop", "start",
                                   "mark", "failed", "exited"}]
    /\ worker_task \in [Workers -> Tasks \cup {Sentinel}]
    /\ \A w \in Workers : worker_pc[w] \notin {"none", "poll", "exited"}
                              => worker_task[w] \in Tasks
    /\ life \in {"down", "starting", "failed", "spawn", "up", "flag", "join", "halt"}
    /\ starts \in 0 .. MaxStarts /\ stops \in 0 .. MaxStops
    /\ failures \in 0 .. MaxFailures
    /\ to_stop \subseteq Outputs /\ to_write \subseteq Outputs
    /\ write_pc \in {"none", "next", "write", "schedule", "enqueue"}
    /\ writing \in [output : Outputs, attempt : 0 .. MaxReconnectAttempts]
                     \cup {Sentinel}
    /\ write_pc \in {"write", "schedule"} => writing # Sentinel
    /\ write_pc = "enqueue" => writing \in Tasks
    /\ adding \in Outputs \cup {"none"} /\ reconfigures \in 0 .. MaxReconfigures
    /\ to_configure \subseteq Outputs /\ overwritten \subseteq Outputs

(* "Pipeline ya se paro, no resucitar outputs": once stop has returned, no
   output of the composite is started, whatever the worker was doing and
   whenever a handler added one, while the pipeline was starting too. (One added
   so before an initialization that fails is up, and no stop comes for it: there
   life is "failed".) *)
StoppedIsDown == life = "down" => \A o \in present : ~up[o]

(* "El worker es el unico que ejecuta reconexiones": never two threads in a
   reconnection, over any number of restarts. *)
OneReconnector == \A v, w \in Workers : Live(v) /\ Live(w) => v = w

Outstanding(o) ==
    Cardinality({i \in 1 .. Len(queue) : queue[i].output = o})
    + Cardinality({w \in Workers : worker_pc[w] \in {"check", "stop", "start", "mark", "failed"}
                                     /\ worker_task[w].output = o})
    + (IF write_pc \in {"schedule", "enqueue"} /\ writing.output = o THEN 1 ELSE 0)

(* The first life of the composite, before anything is left over from another. *)
FirstLife == starts <= 1

(* An output never has two reconnections outstanding: whatever write, the worker
   and its retries schedule for it, and however they interleave. Only
   configure_outputs breaks it, by clearing a message whose reconnection is under
   way. *)
OneTaskPerOutput ==
    FirstLife => \A o \in present \ overwritten : Outstanding(o) <= 1

(* An output of the configuration that has no error is started, so that write does
   not hand chunks to one that is down: neither a failing start nor a restart
   under way hides it. Again only configure_outputs does. *)
HealthyIsUp ==
    FirstLife /\ life = "up" =>
        \A o \in (present \cap Configured) \ overwritten : ~errors[o] => up[o]

(* "Tras start, una nueva write con error debe re-disparar el timer": while the
   composite is up, the reconnection of an output that failed is carried out. *)
Waiting(o) == o \in present /\ \E i \in 1 .. Len(queue) : queue[i].output = o
ReconnectsHappen == \A o \in Outputs : Waiting(o) /\ life = "up"
                                           ~> ~Waiting(o) \/ life # "up"
=============================================================================
