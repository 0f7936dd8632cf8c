-------------------------- MODULE UnifiedPipeline --------------------------
(* The life cycle of core/unified_pipeline.py as the server drives it: /start
   runs UnifiedPipeline.start in a thread of its own, start runs initialize in
   a second thread and joins it with a timeout, /stop runs the stop coroutine
   on the event loop, whose blocking half (_sync_stop) runs in an executor
   thread under a 30 second limit. Only stop's first block and each _set_state
   hold the pipeline's lock.

   The loops a strategy starts are one generation; a generation keeps the stop
   event that was current when its context was made. *)
EXTENDS Naturals, FiniteSets

CONSTANTS
    Starters,      \* threads that serve /start
    Stoppers,      \* tasks that serve /stop
    MaxStarts,     \* calls of start in all (bound); a starter whose earlier
                   \* initialization thread is alive, or a stopper whose
                   \* earlier executor job is, makes no further call (bounds)
    Disturbances   \* what may go wrong, a subset of AllDisturbances

AllDisturbances ==
    {"init_fails",            \* a module, the input or the output fails to start
     "init_times_out",        \* initialize outlives SRT2WEB_PIPELINE_INIT_TIMEOUT
     "join_times_out",        \* a loop outlives the 5 s joins of stop_threads
     "stop_times_out",        \* _sync_stop outlives the 30 s of stop
     "loop_fails",            \* a sequential or asyncio loop raises
     "stop_while_starting"}   \* /stop is called before /start has returned

ASSUME DisturbancesAssumption == Disturbances \subseteq AllDisturbances
ASSUME MaxStartsAssumption == MaxStarts \in Nat
ASSUME StartersAssumption == IsFiniteSet(Starters)

States == {"idle", "starting", "running", "stopping", "error"}
Events == 0 .. MaxStarts
Generations == 1 .. MaxStarts

VARIABLES
    state,             \* self._state
    initialized,       \* self._initialized
    stop_event,        \* self._stop_event: which event object
    is_set,            \* for each event object, whether it is set
    events,            \* event objects made by initialize so far
    stop_in_progress,  \* self._stop_in_progress
    init_error,        \* self._init_error is not None
    init_thread,       \* whose thread self._init_thread is, or "none"
    init_pc,           \* per starter, its initialization thread
    start_pc,          \* per starter, its call of start
    starts,            \* calls of start so far
    stop_pc,           \* per stopper, its call of stop
    job_pc,            \* per stopper, its _sync_stop job in the executor
    given_up,          \* history: the stoppers whose job stop gave up at its
                       \* time-out and which runs on
    modules_up,        \* the modules are started
    io_up,             \* the input source and the output sink are started
    loop,              \* per generation: "none", "running", "exited"
    loop_event,        \* the stop event of its context
    tracked,           \* the generation the strategy's thread fields hold, or 0
    stop_seen,         \* history: a stop was accepted while this start was
                       \* initializing
    orderly            \* history: no disturbance has happened yet, and nobody has
                       \* called /start or /stop while a start was under way

init_vars  == <<init_error, init_thread, init_pc, events>>
start_vars == <<start_pc, starts, stop_seen>>
stop_vars  == <<stop_pc, job_pc, stop_in_progress, given_up>>
event_vars == <<stop_event, is_set>>
loop_vars  == <<loop, loop_event, tracked>>
up_vars    == <<modules_up, io_up>>
vars == <<state, initialized, init_vars, start_vars, stop_vars, event_vars,
          loop_vars, up_vars, orderly>>

Init ==
    /\ state = "idle" /\ initialized = FALSE
    /\ stop_event = 0 /\ is_set = [e \in Events |-> FALSE] /\ events = 0
    /\ stop_in_progress = FALSE
    /\ init_error = FALSE /\ init_thread = "none"
    /\ init_pc = [s \in Starters |-> "none"]
    /\ start_pc = [s \in Starters |-> "none"] /\ starts = 0
    /\ stop_pc = [p \in Stoppers |-> "none"]
    /\ job_pc = [p \in Stoppers |-> "none"] /\ given_up = {}
    /\ modules_up = FALSE /\ io_up = FALSE
    /\ loop = [g \in Generations |-> "none"]
    /\ loop_event = [g \in Generations |-> 0]
    /\ tracked = 0
    /\ stop_seen = [s \in Starters |-> FALSE]
    /\ orderly = TRUE

(* _set_state: an unexpected transition is logged and made all the same. *)
SetState(new) == state' = new

StartGoto(s, pc) == start_pc' = [start_pc EXCEPT ![s] = pc]
InitGoto(s, pc) == init_pc' = [init_pc EXCEPT ![s] = pc]
StopGoto(p, pc) == stop_pc' = [stop_pc EXCEPT ![p] = pc]
JobGoto(p, pc) == job_pc' = [job_pc EXCEPT ![p] = pc]

Alive(s) == init_pc[s] # "none"
is_running == state \in {"running", "starting"}
Starting == \E s \in Starters : start_pc[s] # "none"
reset_error_state ==
    SetState(IF state \in {"error", "stopping"} THEN "idle" ELSE state)

(* The event loop runs one handler at a time; stop's finally does not await. *)
EventLoopFree == \A p \in Stoppers : stop_pc[p] # "release"

-----------------------------------------------------------------------------
(* POST /start and UnifiedPipeline.start. *)

(* The handler refuses a second start and resets an error or stopping state. *)
StartRoute(s) ==
    /\ start_pc[s] = "none" /\ ~Alive(s) /\ starts < MaxStarts /\ EventLoopFree
    /\ ~is_running
    /\ reset_error_state
    /\ starts' = starts + 1
    /\ StartGoto(s, "check")
    /\ orderly' = (orderly /\ ~Starting)
    /\ UNCHANGED <<initialized, init_vars, stop_vars, event_vars, loop_vars,
                   up_vars, stop_seen>>

(* The two checks at the top of start, made without the lock. Mutated form:
   the second one is missing. *)
MayStart_AnyTime == state = "idle"
MayStart == state = "idle" /\ ~stop_in_progress

StartCheck(s) ==
    /\ start_pc[s] = "check"
    /\ StartGoto(s, IF MayStart THEN "accept" ELSE "none")
    /\ UNCHANGED <<state, initialized, init_vars, stop_vars, event_vars,
                   loop_vars, up_vars, starts, stop_seen, orderly>>

StartAccept(s) ==
    /\ start_pc[s] = "accept"
    /\ SetState("starting")
    /\ StartGoto(s, IF initialized THEN "launch" ELSE "init")
    /\ stop_seen' = [stop_seen EXCEPT ![s] = FALSE]
    /\ UNCHANGED <<initialized, init_vars, stop_vars, event_vars, loop_vars,
                   up_vars, starts, orderly>>

(* F107: an initialization that outlived an earlier start is still running. *)
StartRefusedByInit(s) ==
    /\ start_pc[s] = "init" /\ init_thread # "none" /\ Alive(init_thread)
    /\ SetState("error")
    /\ StartGoto(s, "none")
    /\ UNCHANGED <<initialized, init_vars, stop_vars, event_vars, loop_vars,
                   up_vars, starts, stop_seen, orderly>>

StartSpawnInit(s) ==
    /\ start_pc[s] = "init" /\ ~(init_thread # "none" /\ Alive(init_thread))
    /\ init_error' = FALSE
    /\ init_thread' = s
    /\ InitGoto(s, "begin")
    /\ StartGoto(s, "join")
    /\ UNCHANGED <<state, initialized, events, stop_vars, event_vars, loop_vars,
                   up_vars, starts, stop_seen, orderly>>

(* init_thread.join(timeout). *)
StartJoinTimeout(s) ==
    /\ start_pc[s] = "join" /\ Alive(s)
    /\ "init_times_out" \in Disturbances
    /\ SetState("error")
    /\ StartGoto(s, "none")
    /\ orderly' = FALSE
    /\ UNCHANGED <<initialized, init_vars, stop_vars, event_vars, loop_vars,
                   up_vars, starts, stop_seen>>

(* The initialization thread ended: with an error, without having set
   _initialized, or well. *)
StartJoined(s) ==
    /\ start_pc[s] = "join" /\ ~Alive(s)
    /\ init_error' = FALSE
    /\ IF init_error \/ ~initialized
         THEN SetState("error") /\ StartGoto(s, "none")
         ELSE UNCHANGED state /\ StartGoto(s, "launch")
    /\ UNCHANGED <<initialized, init_thread, init_pc, events, stop_vars,
                   event_vars, loop_vars, up_vars, starts, stop_seen, orderly>>

(* F172: a stop during the initialization aborts the start. *)
StartAborts(s) ==
    /\ start_pc[s] = "launch" /\ is_set[stop_event]
    /\ SetState("idle")
    /\ StartGoto(s, "none")
    /\ UNCHANGED <<initialized, init_vars, stop_vars, event_vars, loop_vars,
                   up_vars, starts, stop_seen, orderly>>

StartSeesNoStop(s) ==
    /\ start_pc[s] = "launch" /\ ~is_set[stop_event]
    /\ StartGoto(s, "clear")
    /\ UNCHANGED <<state, initialized, init_vars, stop_vars, event_vars,
                   loop_vars, up_vars, starts, stop_seen, orderly>>

(* initialize has set the idle state. *)
BackToStarting == SetState(IF state = "idle" THEN "starting" ELSE state)

StartClears(s) ==
    /\ start_pc[s] = "clear"
    /\ BackToStarting
    /\ is_set' = [is_set EXCEPT ![stop_event] = FALSE]
    /\ StartGoto(s, "threads")
    /\ UNCHANGED <<initialized, init_vars, stop_vars, stop_event, loop_vars,
                   up_vars, starts, stop_seen, orderly>>

(* _make_context captures the stop event. Mutated form: the event the pipeline
   was constructed with. *)
ContextEvent_First == 0
ContextEvent == stop_event

(* start_threads starts the loops with that context. *)
StartThreads(s) ==
    /\ start_pc[s] = "threads"
    /\ \E g \in Generations :
          /\ loop[g] = "none" /\ \A h \in Generations : h < g => loop[h] # "none"
          /\ loop' = [loop EXCEPT ![g] = "running"]
          /\ loop_event' = [loop_event EXCEPT ![g] = ContextEvent]
          /\ tracked' = g
    /\ StartGoto(s, "run")
    /\ UNCHANGED <<state, initialized, init_vars, stop_vars, event_vars,
                   up_vars, starts, stop_seen, orderly>>

StartRuns(s) ==
    /\ start_pc[s] = "run"
    /\ SetState("running")
    /\ StartGoto(s, "none")
    /\ UNCHANGED <<initialized, init_vars, stop_vars, event_vars, loop_vars,
                   up_vars, starts, stop_seen, orderly>>

Start(s) ==
    \/ StartCheck(s) \/ StartAccept(s) \/ StartRefusedByInit(s)
    \/ StartSpawnInit(s) \/ StartJoinTimeout(s) \/ StartJoined(s)
    \/ StartAborts(s) \/ StartSeesNoStop(s) \/ StartClears(s)
    \/ StartThreads(s) \/ StartRuns(s)
-----------------------------------------------------------------------------
(* The initialization thread: run_init and initialize. *)

InitBegin(s) ==
    /\ init_pc[s] = "begin"
    /\ SetState("starting")
    /\ InitGoto(s, "replace")
    /\ UNCHANGED <<initialized, init_error, init_thread, events, start_vars,
                   stop_vars, event_vars, loop_vars, up_vars, orderly>>

NewEvent == events' = events + 1 /\ stop_event' = events'

(* New queues and a new stop event. *)
InitReplaces(s) ==
    /\ init_pc[s] = "replace"
    /\ NewEvent
    /\ InitGoto(s, "modules")
    /\ UNCHANGED <<state, initialized, init_error, init_thread, start_vars,
                   stop_vars, is_set, loop_vars, up_vars, orderly>>

(* A stop seen before a module or before the input makes initialize return
   early, without an exception: run_init sets _initialized. *)
InitAborts(s) ==
    /\ init_pc[s] \in {"modules", "io"} /\ is_set[stop_event]
    /\ initialized' = TRUE
    /\ InitGoto(s, "none")
    /\ UNCHANGED <<state, init_error, init_thread, events, start_vars, stop_vars,
                   event_vars, loop_vars, up_vars, orderly>>

InitModules(s) ==
    /\ init_pc[s] = "modules" /\ ~is_set[stop_event]
    /\ modules_up' = TRUE
    /\ InitGoto(s, "io")
    /\ UNCHANGED <<state, initialized, init_error, init_thread, events,
                   start_vars, stop_vars, event_vars, loop_vars, io_up, orderly>>

InitIO(s) ==
    /\ init_pc[s] = "io" /\ ~is_set[stop_event]
    /\ io_up' = TRUE
    /\ InitGoto(s, "finish")
    /\ UNCHANGED <<state, initialized, init_error, init_thread, events,
                   start_vars, stop_vars, event_vars, loop_vars, modules_up, orderly>>

(* A start method raises; what was started before it stays started. *)
InitFails(s) ==
    /\ init_pc[s] \in {"modules", "io"} /\ ~is_set[stop_event]
    /\ "init_fails" \in Disturbances
    /\ SetState("error")
    /\ init_error' = TRUE
    /\ modules_up' \in {modules_up, TRUE}
    /\ InitGoto(s, "none")
    /\ orderly' = FALSE
    /\ UNCHANGED <<initialized, init_thread, events, start_vars, stop_vars,
                   event_vars, loop_vars, io_up>>

InitFinishes(s) ==
    /\ init_pc[s] = "finish"
    /\ SetState("idle")
    /\ InitGoto(s, "return")
    /\ UNCHANGED <<initialized, init_error, init_thread, events, start_vars,
                   stop_vars, event_vars, loop_vars, up_vars, orderly>>

InitReturns(s) ==
    /\ init_pc[s] = "return"
    /\ initialized' = TRUE
    /\ InitGoto(s, "none")
    /\ UNCHANGED <<state, init_error, init_thread, events, start_vars, stop_vars,
                   event_vars, loop_vars, up_vars, orderly>>

Initialize(s) ==
    \/ InitBegin(s) \/ InitReplaces(s) \/ InitAborts(s) \/ InitModules(s)
    \/ InitIO(s) \/ InitFails(s) \/ InitFinishes(s) \/ InitReturns(s)

-----------------------------------------------------------------------------
(* POST /stop and UnifiedPipeline.stop. *)

OperatorMayStop == "stop_while_starting" \in Disturbances \/ ~Starting

(* Guard and transition hold the lock together (ROB-01). Mutated form: the
   duplicate request is not ignored. *)
MayStop_Duplicate == is_running
MayStop == is_running /\ ~stop_in_progress

StopAccept(p) ==
    /\ stop_pc[p] = "none" /\ job_pc[p] = "none" /\ EventLoopFree
    /\ OperatorMayStop
    /\ MayStop
    /\ stop_in_progress' = TRUE
    /\ SetState("stopping")
    /\ is_set' = [is_set EXCEPT ![stop_event] = TRUE]
    /\ StopGoto(p, "wait")
    /\ JobGoto(p, "join")
    /\ stop_seen' = [s \in Starters |->
                       stop_seen[s] \/ start_pc[s] \in {"init", "join"}]
    /\ orderly' = (orderly /\ ~Starting)
    /\ UNCHANGED <<given_up, initialized, init_vars, start_pc, starts, stop_event,
                   loop_vars, up_vars>>

(* stop returns at once; the handler then forces a reset. *)
StopReturns(p) ==
    /\ stop_pc[p] = "none" /\ EventLoopFree
    /\ OperatorMayStop
    /\ ~MayStop
    /\ reset_error_state
    /\ orderly' = (orderly /\ ~Starting)
    /\ UNCHANGED <<initialized, init_vars, start_vars, stop_vars, event_vars,
                   loop_vars, up_vars>>

StopJobDone(p) ==
    /\ stop_pc[p] = "wait" /\ job_pc[p] = "none"
    /\ StopGoto(p, "clear")
    /\ UNCHANGED <<given_up, state, initialized, init_vars, start_vars, job_pc,
                   stop_in_progress, event_vars, loop_vars, up_vars, orderly>>

(* After 30 seconds the coroutine goes on; the job does too. Mutated form: the
   coroutine waits for the job however long it takes. *)
WaitTimesOut_Never == FALSE
WaitTimesOut == "stop_times_out" \in Disturbances

StopTimeout(p) ==
    /\ stop_pc[p] = "wait" /\ job_pc[p] # "none"
    /\ WaitTimesOut
    /\ SetState("error")
    /\ StopGoto(p, "clear")
    /\ given_up' = given_up \cup {p}
    /\ orderly' = FALSE
    /\ UNCHANGED <<initialized, init_vars, start_vars, job_pc, stop_in_progress,
                   event_vars, loop_vars, up_vars>>

StopClears(p) ==
    /\ stop_pc[p] = "clear"
    /\ is_set' = [is_set EXCEPT ![stop_event] = FALSE]
    /\ StopGoto(p, "release")
    /\ UNCHANGED <<given_up, state, initialized, init_vars, start_vars, job_pc,
                   stop_in_progress, stop_event, loop_vars, up_vars, orderly>>

(* The end of stop, and the handler's check of the final state. *)
StopReleases(p) ==
    /\ stop_pc[p] = "release"
    /\ stop_in_progress' = FALSE
    /\ reset_error_state
    /\ StopGoto(p, "none")
    /\ UNCHANGED <<given_up, initialized, init_vars, start_vars, job_pc, event_vars,
                   loop_vars, up_vars, orderly>>

Stop(p) == StopJobDone(p) \/ StopTimeout(p) \/ StopClears(p) \/ StopReleases(p)

-----------------------------------------------------------------------------
(* _sync_stop in the executor. *)

(* stop_threads waits for the loops, at most 5 seconds per thread, and then
   forgets them. *)
JobJoins(p) ==
    /\ job_pc[p] = "join"
    /\ \/ tracked = 0
       \/ tracked # 0 /\ loop[tracked] = "exited"
       \/ "join_times_out" \in Disturbances
    /\ tracked' = 0
    /\ JobGoto(p, "modules")
    /\ orderly' = (orderly /\ (tracked = 0 \/ loop[tracked] = "exited"))
    /\ UNCHANGED <<given_up, state, initialized, init_vars, start_vars, stop_pc,
                   stop_in_progress, event_vars, loop, loop_event, up_vars>>

JobStopsModules(p) ==
    /\ job_pc[p] = "modules"
    /\ modules_up' = FALSE
    /\ JobGoto(p, "io")
    /\ UNCHANGED <<given_up, state, initialized, init_vars, start_vars, stop_pc,
                   stop_in_progress, event_vars, loop_vars, io_up, orderly>>

(* The input source, then the sink; an exception of either is logged. *)
JobStopsIO(p) ==
    /\ job_pc[p] = "io"
    /\ io_up' = FALSE
    /\ JobGoto(p, "idle")
    /\ UNCHANGED <<given_up, state, initialized, init_vars, start_vars, stop_pc,
                   stop_in_progress, event_vars, loop_vars, modules_up, orderly>>

JobSetsIdle(p) ==
    /\ job_pc[p] = "idle"
    /\ SetState("idle")
    /\ JobGoto(p, "reinit")
    /\ UNCHANGED <<given_up, initialized, init_vars, start_vars, stop_pc,
                   stop_in_progress, event_vars, loop_vars, up_vars, orderly>>

(* "Force re-initialization on next start." Mutated form: it is not forced. *)
ForceReinit_Not == UNCHANGED initialized
ForceReinit == initialized' = FALSE

JobEnds(p) ==
    /\ job_pc[p] = "reinit"
    /\ ForceReinit
    /\ JobGoto(p, "none")
    /\ given_up' = given_up \ {p}
    /\ UNCHANGED <<state, init_vars, start_vars, stop_pc, stop_in_progress,
                   event_vars, loop_vars, up_vars, orderly>>

SyncStop(p) == JobJoins(p) \/ JobStopsModules(p) \/ JobStopsIO(p)
                  \/ JobSetsIdle(p) \/ JobEnds(p)

-----------------------------------------------------------------------------
(* The loops of a strategy. *)

(* The loops poll the event of their own context. *)
LoopExits(g) ==
    /\ loop[g] = "running" /\ is_set[loop_event[g]]
    /\ loop' = [loop EXCEPT ![g] = "exited"]
    /\ UNCHANGED <<state, initialized, init_vars, start_vars, stop_vars,
                   event_vars, loop_event, tracked, up_vars, orderly>>

(* The sequential and the asyncio loop set the error state and end. *)
LoopFails(g) ==
    /\ loop[g] = "running" /\ "loop_fails" \in Disturbances
    /\ loop' = [loop EXCEPT ![g] = "exited"]
    /\ SetState("error")
    /\ orderly' = FALSE
    /\ UNCHANGED <<initialized, init_vars, start_vars, stop_vars, event_vars,
                   loop_event, tracked, up_vars>>

-----------------------------------------------------------------------------
Next ==
    \/ \E s \in Starters : StartRoute(s) \/ Start(s) \/ Initialize(s)
    \/ \E p \in Stoppers : StopAccept(p) \/ StopReturns(p) \/ Stop(p) \/ SyncStop(p)
    \/ \E g \in Generations : LoopExits(g) \/ LoopFails(g)

Spec == Init /\ [][Next]_vars

(* Threads and tasks keep being scheduled and a join returns when its thread
   ends or at its timeout. What a timeout is there for need not end at all: a
   model download, a stop method. Nothing obliges a user to call /start or
   /stop. *)
Fairness ==
    /\ \A s \in Starters :
          /\ WF_vars(Start(s))
          /\ "init_times_out" \in Disturbances \/ WF_vars(Initialize(s))
    /\ \A p \in Stoppers :
          /\ WF_vars(Stop(p))
          /\ "stop_times_out" \in Disturbances \/ WF_vars(SyncStop(p))
    /\ \A g \in Generations : WF_vars(LoopExits(g))

FairSpec == Spec /\ Fairness

-----------------------------------------------------------------------------
(* Type invariant. *)
TypeOK ==
    /\ state \in States
    /\ initialized \in BOOLEAN /\ init_error \in BOOLEAN
    /\ stop_event \in Events /\ events \in Events /\ is_set \in [Events -> BOOLEAN]
    /\ stop_in_progress \in BOOLEAN
    /\ init_thread \in Starters \cup {"none"}
    /\ init_pc \in [Starters -> {"none", "begin", "replace", "modules", "io",
                                 "finish", "return"}]
    /\ start_pc \in [Starters -> {"none", "check", "accept", "init", "join",
                                  "launch", "clear", "threads", "run"}]
    /\ starts \in 0 .. MaxStarts
    /\ stop_pc \in [Stoppers -> {"none", "wait", "clear", "release"}]
    /\ job_pc \in [Stoppers -> {"none", "join", "modules", "io", "idle", "reinit"}]
    /\ given_up \subseteq Stoppers
    /\ modules_up \in BOOLEAN /\ io_up \in BOOLEAN
    /\ loop \in [Generations -> {"none", "running", "exited"}]
    /\ loop_event \in [Generations -> Events]
    /\ tracked \in Generations \cup {0}
    /\ stop_seen \in [Starters -> BOOLEAN] /\ orderly \in BOOLEAN

(* ROB-01: whatever the interleaving of starts, stops and time-outs, one stop
   at a time is between its guard and the end of its finally, and
   stop_in_progress is up exactly then. *)
OneStopAtATime ==
    /\ \A p, q \in Stoppers : stop_pc[p] # "none" /\ stop_pc[q] # "none" => p = q
    /\ stop_in_progress <=> \E p \in Stoppers : stop_pc[p] # "none"

Running == {g \in Generations : loop[g] = "running"}
Quiet == /\ ~Starting /\ \A s \in Starters : ~Alive(s)
         /\ \A p \in Stoppers : stop_pc[p] = "none" /\ job_pc[p] = "none"

(* When the dashboard shows "running" and nothing is in progress, the modules,
   the input and the outputs are started, and one generation of loops runs
   whose stop event is the one stop() would set and is clear: over any number
   of lives, as long as they are orderly. *)
RunningIsBacked ==
    orderly /\ Quiet /\ state = "running" =>
        /\ initialized /\ modules_up /\ io_up
        /\ \E g \in Running : /\ Running = {g} /\ tracked = g
                              /\ loop_event[g] = stop_event
                              /\ ~is_set[stop_event]

Released == /\ ~initialized /\ ~modules_up /\ ~io_up
            /\ Running = {} /\ ~is_set[stop_event]

(* "Stop the processing pipeline and clean up": when the dashboard shows "idle"
   and nothing is in progress, everything is stopped and released, and the next
   start initializes again. *)
IdleIsReleased == Quiet /\ state = "idle" => Released

(* It is, as long as the lives are orderly. *)
OrderlyIdleIsReleased == orderly => IdleIsReleased

(* "Has a 30-second overall timeout to prevent hanging the frontend": /stop
   returns even if a module's stop never does, and /start even if the
   initialization never ends. *)
RequestsReturn ==
    /\ stop_in_progress ~> ~stop_in_progress
    /\ \A s \in Starters : start_pc[s] # "none" ~> start_pc[s] = "none"

(* F172, "If stop() was called concurrently during init, abort": a start during
   whose initialization a stop was accepted does not end in the running state. *)
StopAbortsStart ==
    [][\A s \in Starters : start_pc[s] = "run" /\ start_pc'[s] = "none"
            => ~stop_seen[s]]_vars

(* "ROB: flag to prevent start() while stop() is still executing": whatever
   overlaps, fails or times out, the only executor job beside which a start is
   accepted is one that the 30 seconds of its stop gave up. *)
NoStartDuringStop ==
    [][\A s \in Starters : start_pc[s] = "check" /\ start_pc'[s] = "accept"
            => \A p \in Stoppers : job_pc[p] # "none" => p \in given_up]_vars
=============================================================================
