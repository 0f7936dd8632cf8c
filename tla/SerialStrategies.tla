-------------------------- MODULE SerialStrategies --------------------------
(* SequentialStrategy and AsyncIOStrategy of core/pipeline/strategies.py: one *)
(* thread each, from start_threads to its end.  The sequential loop takes a  *)
(* chunk through the modules to the sink and reads the next one.  The        *)
(* asyncio loop makes a task of every chunk, but nothing in a task ever      *)
(* suspends it - modules, sink and the uncontended semaphore of its own are   *)
(* all synchronous - so the tasks run one after the other, and only while    *)
(* the loop sleeps because the input had nothing, or once it has returned:    *)
(* the first step of each is then queued before the end of asyncio.run, and   *)
(* with its first step a task is done, so there is none left to cancel.       *)
EXTENDS Naturals, Sequences

CONSTANTS
    SerialModules,  \* the number of enabled modules
    Critical,       \* the positions of the critical ones
    MaxSerial       \* chunks read (bound)

ASSUME SerialAssumption == SerialModules \in Nat /\ MaxSerial \in Nat

VARIABLES
    serial_mode,    \* "sequential" or "asyncio"
    serial_loop,    \* "read", "work" (a chunk is in hand), "tasks" (it is the turn of
                    \* the tasks), "ended" or "error"
    serial_over,    \* how the asyncio loop has returned, or "no"
    serial_stop,    \* the stop event
    chunk_index,    \* the number the next chunk gets
    async_tasks,    \* created and not started, oldest first
    in_hand,        \* the chunk being processed and the modules it is through;
                    \* None between chunks
    metrics,        \* chunks processed and failed
    written         \* the chunks the sink took, in order

ssvars == <<serial_mode, serial_loop, serial_over, serial_stop, chunk_index, async_tasks,
            in_hand, metrics, written>>

None       == [chunk |-> MaxSerial, pos |-> 0]
NoMetrics  == [processed |-> 0, failed |-> 0]
Begun(c)   == [chunk |-> c, pos |-> 0]
Sequential == serial_mode = "sequential"

SSInit ==
    /\ serial_mode \in {"sequential", "asyncio"}
    /\ serial_loop = "read" /\ serial_over = "no" /\ serial_stop = FALSE
    /\ chunk_index = 0 /\ async_tasks = <<>> /\ in_hand = None
    /\ metrics = NoMetrics /\ written = <<>>

(* pipeline.stop(); the event stays set until the thread has been joined.    *)
SerialStop ==
    /\ ~serial_stop /\ serial_stop' = TRUE
    /\ UNCHANGED <<serial_mode, serial_loop, serial_over, chunk_index, async_tasks,
                   in_hand, metrics, written>>

----------------------------------------------------------------------------
(* The loops.                                                               *)

(* The thread of the sequential loop ends with it.  When the asyncio loop       *)
(* returns, the tasks that are left run before asyncio.run does.              *)
Over(how) == /\ serial_loop' = IF Sequential THEN how ELSE "tasks"
             /\ serial_over' = how

LoopReads ==
    /\ serial_loop = "read" /\ ~serial_stop /\ chunk_index < MaxSerial
    /\ chunk_index' = chunk_index + 1
    /\ IF Sequential
       THEN /\ serial_loop' = "work" /\ in_hand' = Begun(chunk_index)
            /\ async_tasks' = async_tasks
       ELSE /\ async_tasks' = Append(async_tasks, chunk_index)
            /\ UNCHANGED <<serial_loop, in_hand>>
    /\ UNCHANGED <<serial_mode, serial_over, serial_stop, metrics, written>>

(* The input has nothing, and the loop sleeps 10 ms.                         *)
LoopSleeps ==
    /\ serial_loop = "read" /\ ~serial_stop /\ ~Sequential
    /\ serial_loop' = "tasks"
    /\ UNCHANGED <<serial_mode, serial_over, serial_stop, chunk_index, async_tasks,
                   in_hand, metrics, written>>

(* The tasks were scheduled before the timer, or before the end of the loop   *)
(* was noticed, so they run before it.                                       *)
TasksDone ==
    /\ serial_loop = "tasks" /\ async_tasks = <<>>
    /\ serial_loop' = IF serial_over = "no" THEN "read" ELSE serial_over
    /\ UNCHANGED <<serial_mode, serial_over, serial_stop, chunk_index, async_tasks,
                   in_hand, metrics, written>>

LoopEnds ==
    /\ serial_loop = "read" /\ serial_stop
    /\ Over("ended")
    /\ UNCHANGED <<serial_mode, serial_stop, chunk_index, async_tasks, in_hand,
                   metrics, written>>

(* get_next_chunk raises: the error state, and the thread ends.              *)
InputRaises ==
    /\ serial_loop = "read" /\ ~serial_stop
    /\ Over("error")
    /\ UNCHANGED <<serial_mode, serial_stop, chunk_index, async_tasks, in_hand,
                   metrics, written>>

----------------------------------------------------------------------------
(* One chunk: _process_modules_with_tracking and the write of the sequential *)
(* loop; _process_chunk_unlocked of a task.                                  *)

TaskAt_Newest == Len(async_tasks)
TaskAt == 1

TaskBegins ==
    /\ serial_loop = "tasks" /\ async_tasks # <<>>
    /\ serial_loop' = "work"
    /\ in_hand' = Begun(async_tasks[TaskAt])
    /\ async_tasks' = SubSeq(async_tasks, 1, TaskAt - 1)
                          \o SubSeq(async_tasks, TaskAt + 1, Len(async_tasks))
    /\ UNCHANGED <<serial_mode, serial_over, serial_stop, chunk_index, metrics, written>>

Processing == serial_loop = "work" /\ in_hand.pos < SerialModules

(* A module passes the chunk on; a non-critical one may raise, too; and once *)
(* a stop was requested the rest are left out.                               *)
ModuleDone ==
    /\ Processing
    /\ in_hand' = [in_hand EXCEPT !.pos = IF serial_stop THEN SerialModules ELSE @ + 1]
    /\ UNCHANGED <<serial_mode, serial_loop, serial_over, serial_stop, chunk_index,
                   async_tasks, metrics, written>>

(* The next chunk, or the next task.                                         *)
Resumed == IF Sequential THEN "read" ELSE "tasks"

(* A critical module raises: the sequential loop is over, with the chunk     *)
(* counted nowhere; a task counts its chunk as failed.                       *)
ModuleRaises ==
    /\ Processing /\ ~serial_stop /\ in_hand.pos + 1 \in Critical
    /\ in_hand' = None
    /\ serial_loop' = IF Sequential THEN "error" ELSE Resumed
    /\ metrics' = [metrics EXCEPT !.failed = IF Sequential THEN @ ELSE @ + 1]
    /\ UNCHANGED <<serial_mode, serial_over, serial_stop, chunk_index, async_tasks,
                   written>>

(* The sink takes the chunk, or raises: the sequential loop logs that and    *)
(* counts the chunk as processed, a task counts it as failed.                *)
Counted(raised) ==
    IF raised /\ ~Sequential THEN [metrics EXCEPT !.failed = @ + 1]
                             ELSE [metrics EXCEPT !.processed = @ + 1]

SinkWrites ==
    /\ serial_loop = "work" /\ in_hand.pos = SerialModules
    /\ \E raised \in BOOLEAN :
          /\ written' = IF raised THEN written ELSE Append(written, in_hand.chunk)
          /\ metrics' = Counted(raised)
    /\ in_hand' = None
    /\ serial_loop' = Resumed
    /\ UNCHANGED <<serial_mode, serial_over, serial_stop, chunk_index, async_tasks>>

----------------------------------------------------------------------------
SSNext ==
    \/ SerialStop
    \/ LoopReads \/ LoopSleeps \/ LoopEnds \/ InputRaises
    \/ TaskBegins \/ TasksDone
    \/ ModuleDone \/ ModuleRaises \/ SinkWrites

SSSpec == SSInit /\ [][SSNext]_ssvars

SSTypeOK ==
    /\ serial_mode \in {"sequential", "asyncio"}
    /\ serial_loop \in {"read", "work", "tasks", "ended", "error"}
    /\ serial_over \in {"no", "ended", "error"}
    /\ serial_stop \in BOOLEAN
    /\ chunk_index \in 0 .. MaxSerial
    /\ \A i \in 1 .. Len(async_tasks) : async_tasks[i] \in 0 .. MaxSerial - 1
    /\ in_hand.chunk \in 0 .. MaxSerial /\ in_hand.pos \in 0 .. SerialModules
    /\ metrics \in [{"processed", "failed"} -> 0 .. MaxSerial]

(* Both strategies implement what the parallel one does (OrderedDelivery):   *)
(* chunk by chunk, in the order they were read, each chunk is handed to the   *)
(* sink or given up for good, also those whose tasks are left when the loop   *)
(* returns; and the metrics are exactly the chunks that are through.          *)
SOD == INSTANCE OrderedDelivery WITH
           frontier  <- metrics.processed + metrics.failed,
           delivered <- written
SerialIsOrdered == SOD!Spec
=============================================================================
