----------------------- MODULE UnifiedPipeline_proofs -----------------------
(* Theorems about UnifiedPipeline for every number of clients, of starts and
   every combination of disturbances. *)
EXTENDS UnifiedPipeline, FiniteSetTheorems, TLAPS

USE MaxStartsAssumption

(* The starters whose call will still make an event object, or is making it. *)
Owed == {s \in Starters : \/ start_pc[s] \in {"check", "accept", "init"}
                          \/ init_pc[s] \in {"begin", "replace"}}

(* initialize makes one event object per call of start, so the objects made and
   the objects owed never outnumber the calls. A starter that has not spawned
   its thread yet has none. *)
EventsCounted ==
    /\ events + Cardinality(Owed) <= starts
    /\ stop_event <= events
    /\ \A s \in Starters : start_pc[s] \in {"check", "accept", "init"} => ~Alive(s)

TypeInv == TypeOK /\ EventsCounted

LEMMA OwedFinite ==
    /\ IsFiniteSet(Owed) /\ Cardinality(Owed) \in Nat
    /\ \A s \in Starters : /\ IsFiniteSet(Owed \cup {s}) /\ IsFiniteSet(Owed \ {s})
                           /\ s \in Owed => /\ Cardinality(Owed) >= 1
                                            /\ Cardinality(Owed \ {s}) = Cardinality(Owed) - 1
                           /\ s \notin Owed =>
                                Cardinality(Owed \cup {s}) = Cardinality(Owed) + 1
<1>1. IsFiniteSet(Owed) /\ Cardinality(Owed) \in Nat
  BY StartersAssumption, FS_Subset, FS_CardinalityType DEF Owed
<1>2. ASSUME NEW s \in Starters
      PROVE  /\ IsFiniteSet(Owed \cup {s}) /\ IsFiniteSet(Owed \ {s})
             /\ s \in Owed => /\ Cardinality(Owed) >= 1
                              /\ Cardinality(Owed \ {s}) = Cardinality(Owed) - 1
             /\ s \notin Owed => Cardinality(Owed \cup {s}) = Cardinality(Owed) + 1
  <2>1. /\ IsFiniteSet(Owed \ {s})
        /\ Cardinality(Owed \ {s}) = IF s \in Owed THEN Cardinality(Owed) - 1
                                                   ELSE Cardinality(Owed)
    BY <1>1, FS_RemoveElement
  <2>2. /\ IsFiniteSet(Owed \cup {s})
        /\ Cardinality(Owed \cup {s}) = IF s \in Owed THEN Cardinality(Owed)
                                                      ELSE Cardinality(Owed) + 1
    BY <1>1, FS_AddElement
  <2>3. Cardinality(Owed \ {s}) \in Nat
    BY <2>1, FS_CardinalityType
  <2>. QED  BY <1>1, <2>1, <2>2, <2>3
<1>. QED  BY <1>1, <1>2

(* A set of owing starters that does not grow keeps the count. *)
LEMMA OwedShrinks ==
    ASSUME EventsCounted, TypeOK, Owed' \subseteq Owed,
           events' = events, starts' = starts
    PROVE  events' + Cardinality(Owed') <= starts'
<1>1. Cardinality(Owed') <= Cardinality(Owed) /\ Cardinality(Owed') \in Nat
  BY OwedFinite, FS_Subset, FS_CardinalityType
<1>. QED  BY <1>1, OwedFinite DEF EventsCounted, TypeOK, Events

LEMMA InitTypeInv == Init => TypeInv
<1> SUFFICES ASSUME Init PROVE TypeInv
  OBVIOUS
<1>1. Owed = {}
  BY DEF Init, Owed
<1>2. TypeOK
  <2>1. /\ state \in States /\ initialized \in BOOLEAN /\ init_error \in BOOLEAN
        /\ stop_in_progress \in BOOLEAN /\ modules_up \in BOOLEAN /\ io_up \in BOOLEAN
        /\ init_thread \in Starters \cup {"none"}
        /\ stop_seen \in [Starters -> BOOLEAN] /\ orderly \in BOOLEAN
    BY DEF Init, States
  <2>2. /\ stop_event \in Events /\ events \in Events /\ is_set \in [Events -> BOOLEAN]
        /\ starts \in 0 .. MaxStarts /\ tracked \in Generations \cup {0}
        /\ loop_event \in [Generations -> Events]
    BY DEF Init, Events, Generations
  <2>3. /\ loop \in [Generations -> {"none", "running", "exited"}]
        /\ stop_pc \in [Stoppers -> {"none", "wait", "clear", "release"}]
        /\ job_pc \in [Stoppers -> {"none", "join", "modules", "io", "idle", "reinit"}]
        /\ given_up \subseteq Stoppers
    BY DEF Init
  <2>4. /\ init_pc \in [Starters -> {"none", "begin", "replace", "modules", "io",
                                    "finish", "return"}]
        /\ start_pc \in [Starters -> {"none", "check", "accept", "init", "join",
                                     "launch", "clear", "threads", "run"}]
    BY DEF Init
  <2>. QED  BY <2>1, <2>2, <2>3, <2>4 DEF TypeOK
<1>3. EventsCounted
  BY <1>1, FS_EmptySet DEF Init, EventsCounted
<1>. QED  BY <1>2, <1>3 DEF TypeInv

(* Type correctness of each actor's steps. *)
LEMMA StartTypes ==
    ASSUME TypeOK, NEW s \in Starters, Start(s)
    PROVE  TypeOK'
<1> USE DEF TypeOK, States, Events, Generations, SetState, reset_error_state,
            StartGoto, InitGoto, StopGoto, JobGoto, init_vars, start_vars,
            stop_vars, event_vars, loop_vars, up_vars
<1>1. CASE StartCheck(s)
  BY <1>1 DEF StartCheck
<1>2. CASE StartAccept(s)
  BY <1>2 DEF StartAccept
<1>3. CASE StartRefusedByInit(s)
  BY <1>3 DEF StartRefusedByInit
<1>4. CASE StartSpawnInit(s)
  BY <1>4 DEF StartSpawnInit
<1>5. CASE StartJoinTimeout(s)
  BY <1>5 DEF StartJoinTimeout
<1>6. CASE StartJoined(s)
  BY <1>6 DEF StartJoined
<1>7. CASE StartAborts(s)
  BY <1>7 DEF StartAborts
<1>8. CASE StartSeesNoStop(s)
  BY <1>8 DEF StartSeesNoStop
<1>9. CASE StartClears(s)
  BY <1>9 DEF StartClears, BackToStarting
<1>10. CASE StartThreads(s)
  BY <1>10 DEF StartThreads, ContextEvent
<1>11. CASE StartRuns(s)
  BY <1>11 DEF StartRuns
<1>. QED  BY <1>1, <1>2, <1>3, <1>4, <1>5, <1>6, <1>7, <1>8, <1>9, <1>10, <1>11 DEF Start

LEMMA InitializeTypes ==
    ASSUME TypeOK, NEW s \in Starters, Initialize(s), ~InitReplaces(s)
    PROVE  TypeOK'
<1> USE DEF TypeOK, States, Events, Generations, SetState, reset_error_state,
            StartGoto, InitGoto, StopGoto, JobGoto, init_vars, start_vars,
            stop_vars, event_vars, loop_vars, up_vars
<1>1. CASE InitBegin(s)
  BY <1>1 DEF InitBegin
<1>2. CASE InitAborts(s)
  BY <1>2 DEF InitAborts
<1>3. CASE InitModules(s)
  BY <1>3 DEF InitModules
<1>4. CASE InitIO(s)
  BY <1>4 DEF InitIO
<1>5. CASE InitFails(s)
  BY <1>5 DEF InitFails
<1>6. CASE InitFinishes(s)
  BY <1>6 DEF InitFinishes
<1>7. CASE InitReturns(s)
  BY <1>7 DEF InitReturns
<1>. QED  BY <1>1, <1>2, <1>3, <1>4, <1>5, <1>6, <1>7 DEF Initialize

(* No step of start or of initialize adds to what is owed, or gives a thread to
   a starter that has not asked for one. *)
NothingOwedAdded ==
    /\ Owed' \subseteq Owed
    /\ \A t \in Starters : start_pc'[t] \in {"check", "accept", "init"} => ~Alive(t)'

LEMMA StartOwesNoMore ==
    ASSUME TypeOK, EventsCounted, NEW s \in Starters, Start(s)
    PROVE  NothingOwedAdded
<1> USE DEF NothingOwedAdded, TypeOK, EventsCounted, Owed, Alive, StartGoto,
            InitGoto, init_vars
<1>1. CASE StartCheck(s)
  BY <1>1 DEF StartCheck
<1>2. CASE StartAccept(s)
  BY <1>2 DEF StartAccept
<1>3. CASE StartRefusedByInit(s)
  BY <1>3 DEF StartRefusedByInit
<1>4. CASE StartSpawnInit(s)
  BY <1>4 DEF StartSpawnInit
<1>5. CASE StartJoinTimeout(s)
  BY <1>5 DEF StartJoinTimeout
<1>6. CASE StartJoined(s)
  BY <1>6 DEF StartJoined
<1>7. CASE StartAborts(s)
  BY <1>7 DEF StartAborts
<1>8. CASE StartSeesNoStop(s)
  BY <1>8 DEF StartSeesNoStop
<1>9. CASE StartClears(s)
  BY <1>9 DEF StartClears
<1>10. CASE StartThreads(s)
  BY <1>10 DEF StartThreads
<1>11. CASE StartRuns(s)
  BY <1>11 DEF StartRuns
<1>. QED  BY <1>1, <1>2, <1>3, <1>4, <1>5, <1>6, <1>7, <1>8, <1>9, <1>10, <1>11 DEF Start

LEMMA InitializeOwesNoMore ==
    ASSUME TypeOK, EventsCounted, NEW s \in Starters, Initialize(s), ~InitReplaces(s)
    PROVE  NothingOwedAdded
<1> USE DEF NothingOwedAdded, TypeOK, EventsCounted, Owed, Alive, InitGoto, start_vars
<1>1. CASE InitBegin(s)
  BY <1>1 DEF InitBegin
<1>2. CASE InitAborts(s)
  BY <1>2 DEF InitAborts
<1>3. CASE InitModules(s)
  BY <1>3 DEF InitModules
<1>4. CASE InitIO(s)
  BY <1>4 DEF InitIO
<1>5. CASE InitFails(s)
  BY <1>5 DEF InitFails
<1>6. CASE InitFinishes(s)
  BY <1>6 DEF InitFinishes
<1>7. CASE InitReturns(s)
  BY <1>7 DEF InitReturns
<1>. QED  BY <1>1, <1>2, <1>3, <1>4, <1>5, <1>6, <1>7 DEF Initialize

LEMMA StepTypeInv == TypeInv /\ [Next]_vars => TypeInv'
<1> SUFFICES ASSUME TypeInv, [Next]_vars PROVE TypeInv'
  OBVIOUS
<1> USE DEF TypeInv, TypeOK, States, Events, Generations, SetState,
            reset_error_state, StartGoto, InitGoto, StopGoto, JobGoto,
            init_vars, start_vars, stop_vars, event_vars, loop_vars, up_vars
<1>1. CASE UNCHANGED vars
  BY <1>1 DEF vars, EventsCounted, Owed, Alive
<1>2. ASSUME NEW s \in Starters, StartRoute(s) PROVE TypeInv'
  <2>1. s \notin Owed /\ Owed' = Owed \cup {s}
    BY <1>2 DEF StartRoute, Owed, Alive
  <2>2. Cardinality(Owed') = Cardinality(Owed) + 1
    BY <2>1, OwedFinite
  <2>3. \A t \in Starters : start_pc'[t] \in {"check", "accept", "init"} => ~Alive(t)'
    BY <1>2 DEF StartRoute, EventsCounted, Alive
  <2>4. EventsCounted'
    BY <1>2, <2>2, <2>3, OwedFinite DEF StartRoute, EventsCounted
  <2>. QED  BY <1>2, <2>4 DEF StartRoute
<1>3. ASSUME NEW s \in Starters, Start(s) PROVE TypeInv'
  <2>1. NothingOwedAdded
    BY <1>3, StartOwesNoMore
  <2>2. events' = events /\ starts' = starts /\ stop_event' = stop_event
    BY <1>3 DEF Start, StartCheck, StartAccept, StartRefusedByInit, StartSpawnInit,
                StartJoinTimeout, StartJoined, StartAborts, StartSeesNoStop,
                StartClears, StartThreads, StartRuns
  <2>3. EventsCounted'
    <3>1. events' + Cardinality(Owed') <= starts'
      BY <2>1, <2>2, OwedShrinks DEF NothingOwedAdded
    <3>. QED  BY <2>1, <2>2, <3>1 DEF EventsCounted, NothingOwedAdded
  <2>4. TypeOK'
    BY <1>3, StartTypes
  <2>. QED  BY <2>3, <2>4
<1>4. ASSUME NEW s \in Starters, Initialize(s) PROVE TypeInv'
  <2>1. CASE InitReplaces(s)
    <3>1. s \in Owed /\ Owed' = Owed \ {s}
      BY <2>1 DEF InitReplaces, Owed, EventsCounted, Alive
    <3>2. Cardinality(Owed) >= 1 /\ Cardinality(Owed') = Cardinality(Owed) - 1
      BY <3>1, OwedFinite
    <3>3. events + 1 <= MaxStarts /\ events' = events + 1 /\ stop_event' = events'
      BY <2>1, <3>2, OwedFinite DEF InitReplaces, NewEvent, EventsCounted
    <3>4. \A t \in Starters : start_pc'[t] \in {"check", "accept", "init"} => ~Alive(t)'
      BY <2>1 DEF InitReplaces, EventsCounted, Alive
    <3>5. EventsCounted'
      BY <2>1, <3>2, <3>3, <3>4, OwedFinite DEF InitReplaces, EventsCounted
    <3>6. TypeOK'
      BY <2>1, <3>3 DEF InitReplaces
    <3>. QED  BY <3>5, <3>6
  <2>2. CASE ~InitReplaces(s)
    <3>1. NothingOwedAdded
      BY <1>4, <2>2, InitializeOwesNoMore
    <3>2. events' = events /\ starts' = starts /\ stop_event' = stop_event
      BY <1>4, <2>2 DEF Initialize, InitBegin, InitAborts, InitModules, InitIO,
                        InitFails, InitFinishes, InitReturns
    <3>3. EventsCounted'
      <4>1. events' + Cardinality(Owed') <= starts'
        BY <3>1, <3>2, OwedShrinks DEF NothingOwedAdded
      <4>. QED  BY <3>1, <3>2, <4>1 DEF EventsCounted, NothingOwedAdded
    <3>4. TypeOK'
      BY <1>4, <2>2, InitializeTypes
    <3>. QED  BY <3>3, <3>4
  <2>. QED  BY <2>1, <2>2
<1>5. ASSUME NEW p \in Stoppers,
             StopAccept(p) \/ StopReturns(p) \/ Stop(p) \/ SyncStop(p)
      PROVE  TypeInv'
  <2>1. EventsCounted'
    BY <1>5 DEF StopAccept, StopReturns, Stop, StopJobDone, StopTimeout,
                StopClears, StopReleases, SyncStop, JobJoins, JobStopsModules,
                JobStopsIO, JobSetsIdle, JobEnds, EventsCounted, Owed, Alive
  <2>2. CASE StopAccept(p)
    <3>1. stop_seen' \in [Starters -> BOOLEAN]
      BY <2>2 DEF StopAccept
    <3>2. is_set' \in [0 .. MaxStarts -> BOOLEAN]
      BY <2>2 DEF StopAccept
    <3>. QED  BY <2>1, <2>2, <3>1, <3>2 DEF StopAccept
  <2>5. CASE StopReturns(p)
    BY <2>1, <2>5 DEF StopReturns
  <2>3. CASE Stop(p)
    BY <2>1, <2>3 DEF Stop, StopJobDone, StopTimeout, StopClears, StopReleases
  <2>4. CASE SyncStop(p)
    BY <2>1, <2>4 DEF SyncStop, JobJoins, JobStopsModules, JobStopsIO,
                      JobSetsIdle, JobEnds, ForceReinit
  <2>. QED  BY <1>5, <2>2, <2>3, <2>4, <2>5
<1>6. ASSUME NEW g \in Generations, LoopExits(g) \/ LoopFails(g) PROVE TypeInv'
  <2>1. EventsCounted'
    BY <1>6 DEF LoopExits, LoopFails, EventsCounted, Owed, Alive
  <2>2. CASE LoopExits(g)
    BY <2>1, <2>2 DEF LoopExits
  <2>3. CASE LoopFails(g)
    BY <2>1, <2>3 DEF LoopFails
  <2>. QED  BY <1>6, <2>2, <2>3
<1>. QED  BY <1>1, <1>2, <1>3, <1>4, <1>5, <1>6 DEF Next

(* Every reachable state of the life cycle is well typed; in particular the
   bound on event objects is never met before the bound on starts. *)
THEOREM TypeCorrect == Spec => []TypeOK
<1>1. Spec => []TypeInv
  BY InitTypeInv, StepTypeInv, PTL DEF Spec
<1>2. TypeInv => TypeOK
  BY DEF TypeInv
<1>. QED  BY <1>1, <1>2, PTL

(* stop_in_progress is up exactly while a stop is between its guard and the
   end of its finally. *)
LEMMA StepOneStop == OneStopAtATime /\ TypeOK /\ [Next]_vars => OneStopAtATime'
<1> SUFFICES ASSUME OneStopAtATime, TypeOK, [Next]_vars PROVE OneStopAtATime'
  OBVIOUS
<1> USE DEF OneStopAtATime, TypeOK, StopGoto
<1>1. CASE UNCHANGED stop_vars
  BY <1>1 DEF stop_vars
<1>2. ASSUME NEW p \in Stoppers, StopAccept(p) PROVE OneStopAtATime'
  BY <1>2 DEF StopAccept, MayStop
<1>3. ASSUME NEW p \in Stoppers, Stop(p) PROVE OneStopAtATime'
  <2>1. CASE StopJobDone(p)
    BY <2>1 DEF StopJobDone
  <2>2. CASE StopTimeout(p)
    BY <2>2 DEF StopTimeout
  <2>3. CASE StopClears(p)
    BY <2>3 DEF StopClears
  <2>4. CASE StopReleases(p)
    BY <2>4 DEF StopReleases
  <2>. QED  BY <1>3, <2>1, <2>2, <2>3, <2>4 DEF Stop
<1>4. ASSUME NEW p \in Stoppers, StopReturns(p) \/ SyncStop(p) PROVE OneStopAtATime'
  BY <1>4 DEF StopReturns, stop_vars, SyncStop, JobJoins, JobStopsModules,
              JobStopsIO, JobSetsIdle, JobEnds
<1>5. ASSUME NEW s \in Starters, StartRoute(s) \/ Start(s) PROVE UNCHANGED stop_vars
  BY <1>5 DEF StartRoute, Start, StartCheck, StartAccept, StartRefusedByInit,
              StartSpawnInit, StartJoinTimeout, StartJoined, StartAborts,
              StartSeesNoStop, StartClears, StartThreads, StartRuns
<1>6. ASSUME NEW s \in Starters, Initialize(s) PROVE UNCHANGED stop_vars
  BY <1>6 DEF Initialize, InitBegin, InitReplaces, InitAborts, InitModules,
              InitIO, InitFails, InitFinishes, InitReturns
<1>7. ASSUME NEW g \in Generations, LoopExits(g) \/ LoopFails(g) PROVE UNCHANGED stop_vars
  BY <1>7 DEF LoopExits, LoopFails
<1>8. CASE UNCHANGED vars
  BY <1>8 DEF vars, stop_vars
<1>. QED  BY <1>1, <1>2, <1>3, <1>4, <1>5, <1>6, <1>7, <1>8 DEF Next
(* At most one stop at a time is in its critical section, for any number of
   clients and whatever times out. *)
THEOREM StopIsExclusive == Spec => []OneStopAtATime
<1>1. Init => OneStopAtATime
  BY DEF Init, OneStopAtATime
<1>. QED  BY <1>1, TypeCorrect, StepOneStop, PTL DEF Spec

-----------------------------------------------------------------------------
(* Orderly lives. *)

(* What the state "running" stands for. *)
Backed ==
    /\ initialized /\ modules_up /\ io_up
    /\ \E g \in Running : /\ Running = {g} /\ tracked = g
                          /\ loop_event[g] = stop_event
                          /\ ~is_set[stop_event]

Stopping == \E p \in Stoppers : stop_pc[p] # "none"
StartedUp == modules_up /\ io_up
ReadyToLaunch == Running = {} /\ ~is_set[stop_event] /\ initialized /\ StartedUp

(* How far a start of the pipeline has come. *)
InitProgress(s) ==
    /\ Running = {} /\ ~is_set[stop_event]
    /\ init_pc[s] \in {"begin", "replace", "modules"} => state = "starting" /\ Released
    /\ init_pc[s] = "io" => state = "starting" /\ modules_up /\ ~initialized
    /\ init_pc[s] = "finish" => state = "starting" /\ StartedUp
    /\ init_pc[s] = "return" => state = "idle" /\ StartedUp
    /\ init_pc[s] = "none" => state = "idle" /\ StartedUp /\ initialized

StartProgress(s) ==
    /\ start_pc[s] = "accept" => state = "idle" /\ Released
    /\ start_pc[s] = "init" => state = "starting" /\ Released
    /\ start_pc[s] = "join" => InitProgress(s)
    /\ start_pc[s] \in {"launch", "clear"} => state = "idle" /\ ReadyToLaunch
    /\ start_pc[s] = "threads" => state = "starting" /\ ReadyToLaunch
    /\ start_pc[s] = "run" => state = "starting" /\ Backed

(* And how far a stop: what the job has not stopped yet may still be up. *)
StopProgress(p) ==
    /\ stop_pc[p] = "wait" =>
         /\ state \in {"stopping", "idle"}
         /\ job_pc[p] = "join" => \A g \in Running : g = tracked
         /\ job_pc[p] # "join" => Running = {}
         /\ job_pc[p] \notin {"join", "modules"} => ~modules_up
         /\ job_pc[p] \notin {"join", "modules", "io"} => ~io_up
         /\ job_pc[p] \in {"reinit", "none"} => state = "idle"
         /\ job_pc[p] = "none" => ~initialized
    /\ stop_pc[p] = "clear" => /\ state = "idle" /\ Running = {}
                               /\ ~initialized /\ ~modules_up /\ ~io_up
    /\ stop_pc[p] = "release" => state = "idle" /\ Released

(* One start at a time, whose initialization it waits for; one stop at a time,
   that waits for its job; a start that comes during a stop gets no further than
   its check; and when neither is under way the pipeline is idle and released or
   runs on one generation of loops. *)
Orderly ==
    /\ ~init_error /\ state # "error"
    /\ \A s, t \in Starters : start_pc[s] # "none" /\ start_pc[t] # "none" => s = t
    /\ \A s \in Starters : Alive(s) => start_pc[s] = "join"
    /\ \A p \in Stoppers : job_pc[p] # "none" => stop_pc[p] = "wait"
    /\ Stopping => \A s \in Starters : start_pc[s] \in {"none", "check"}
    /\ \A s \in Starters : StartProgress(s)
    /\ \A p \in Stoppers : StopProgress(p)
    /\ ~Stopping /\ (\A s \in Starters : start_pc[s] \in {"none", "check"}) =>
          \/ state = "idle" /\ Released
          \/ state = "running" /\ Backed /\ ~Starting

(* A stop event that has not been made yet is clear. *)
NewEventsClear == \A e \in Events : e > events => ~is_set[e]

OrderlyInv == NewEventsClear /\ (orderly => Orderly)

(* What is left to show of a step of the one start under way. *)
LEMMA OneStarter ==
    ASSUME TypeOK, Orderly, NEW s \in Starters,
           start_pc[s] \notin {"none", "check"},
           \A t \in Starters \ {s} : start_pc'[t] = start_pc[t] /\ init_pc'[t] = init_pc[t],
           UNCHANGED stop_vars, ~init_error', state' # "error",
           init_pc'[s] # "none" => start_pc'[s] = "join",
           StartProgress(s)',
           start_pc'[s] # "check",
           start_pc'[s] = "none" => \/ state' = "idle" /\ Released'
                                    \/ state' = "running" /\ Backed'
    PROVE  Orderly'
<1>1. \A t \in Starters \ {s} : start_pc[t] = "none" /\ init_pc[t] = "none"
  BY DEF Orderly, Alive
<1>2. \A t \in Starters \ {s} : start_pc'[t] = "none" /\ init_pc'[t] = "none"
  BY <1>1
<1>3. \A p \in Stoppers : stop_pc[p] = "none" /\ job_pc[p] = "none"
  BY DEF Orderly, Stopping
<1>4. \A p \in Stoppers : stop_pc'[p] = "none" /\ job_pc'[p] = "none"
  BY <1>3 DEF stop_vars
<1>5. ~Stopping'
  BY <1>4 DEF Stopping
<1>6. \A t \in Starters : StartProgress(t)'
  <2>1. ASSUME NEW t \in Starters \ {s} PROVE StartProgress(t)'
    BY <1>2 DEF StartProgress
  <2>. QED  BY <2>1
<1>7. \A p \in Stoppers : StopProgress(p)'
  BY <1>4 DEF StopProgress
<1>8. \A t \in Starters : Alive(t)' => start_pc'[t] = "join"
  BY <1>2 DEF Alive
<1>9. (\A t \in Starters : start_pc'[t] \in {"none", "check"}) =>
          \/ state' = "idle" /\ Released'
          \/ state' = "running" /\ Backed' /\ ~Starting'
  <2> SUFFICES ASSUME \A t \in Starters : start_pc'[t] \in {"none", "check"}
               PROVE  \/ state' = "idle" /\ Released'
                      \/ state' = "running" /\ Backed' /\ ~Starting'
    OBVIOUS
  <2>1. start_pc'[s] = "none"
    OBVIOUS
  <2>2. ~Starting'
    BY <1>2, <2>1 DEF Starting
  <2>. QED  BY <2>1, <2>2
<1>10. \A r, t \in Starters : start_pc'[r] # "none" /\ start_pc'[t] # "none" => r = t
  BY <1>2
<1>11. \A p \in Stoppers : job_pc'[p] # "none" => stop_pc'[p] = "wait"
  BY <1>4
<1>. QED  BY <1>5, <1>6, <1>7, <1>8, <1>9, <1>10, <1>11 DEF Orderly

(* And of a step of the one stop under way. *)
LEMMA OneStopper ==
    ASSUME TypeOK, Orderly, OneStopAtATime, NEW p \in Stoppers, stop_pc[p] # "none",
           \A q \in Stoppers \ {p} : stop_pc'[q] = stop_pc[q] /\ job_pc'[q] = job_pc[q],
           UNCHANGED <<init_vars, start_pc>>, state' # "error",
           job_pc'[p] # "none" => stop_pc'[p] = "wait",
           StopProgress(p)',
           stop_pc'[p] = "none" => state' = "idle" /\ Released'
    PROVE  Orderly'
<1>1. \A q \in Stoppers \ {p} : stop_pc'[q] = "none" /\ job_pc'[q] = "none"
  BY DEF Orderly, OneStopAtATime
<1>2. \A t \in Starters : start_pc'[t] \in {"none", "check"} /\ init_pc'[t] = "none"
  BY DEF Orderly, Stopping, Alive, init_vars
<1>3. \A t \in Starters : StartProgress(t)'
  BY <1>2 DEF StartProgress
<1>4. \A q \in Stoppers : StopProgress(q)'
  <2>1. ASSUME NEW q \in Stoppers \ {p} PROVE StopProgress(q)'
    BY <1>1 DEF StopProgress
  <2>. QED  BY <2>1
<1>5. \A q \in Stoppers : job_pc'[q] # "none" => stop_pc'[q] = "wait"
  BY <1>1
<1>6. ~Stopping' => stop_pc'[p] = "none"
  BY DEF Stopping
<1>7. ~init_error' /\ \A r, t \in Starters : start_pc'[r] # "none" /\ start_pc'[t] # "none" => r = t
  BY DEF Orderly, init_vars
<1>8. \A t \in Starters : Alive(t)' => start_pc'[t] = "join"
  BY <1>2 DEF Alive
<1>. QED  BY <1>2, <1>3, <1>4, <1>5, <1>6, <1>7, <1>8 DEF Orderly

LEMMA StartOrderly ==
    ASSUME TypeInv, OrderlyInv, orderly', NEW s \in Starters, Start(s), ~StartCheck(s)
    PROVE  Orderly'
<1> USE DEF TypeInv, TypeOK
<1> DEFINE Others == \A t \in Starters \ {s} :
                        start_pc'[t] = start_pc[t] /\ init_pc'[t] = init_pc[t]
<1>1. orderly /\ Orderly
  BY DEF OrderlyInv, Start, StartCheck, StartAccept, StartRefusedByInit, StartSpawnInit,
         StartJoinTimeout, StartJoined, StartAborts, StartSeesNoStop, StartClears,
         StartThreads, StartRuns
<1>2. StartProgress(s) /\ ~init_error /\ (Alive(s) => start_pc[s] = "join")
  BY <1>1 DEF Orderly
<1>3. CASE StartAccept(s)
  <2>1. /\ start_pc[s] = "accept" /\ state' = "starting"
        /\ UNCHANGED <<initialized, init_vars, stop_vars, event_vars, loop_vars, up_vars>>
    BY <1>3 DEF StartAccept, SetState
  <2>2. Others /\ (start_pc'[s] = "launch" => initialized) /\ start_pc'[s] \in {"launch", "init"}
    BY <1>3 DEF StartAccept, StartGoto, init_vars
  <2>3. state = "idle" /\ Released /\ init_pc[s] = "none"
    BY <1>2, <2>1 DEF StartProgress, Alive
  <2>4. start_pc'[s] = "init" /\ Released'
    BY <2>1, <2>2, <2>3 DEF Released, Running, loop_vars, up_vars, event_vars
  <2>5. StartProgress(s)'
    BY <2>1, <2>4 DEF StartProgress
  <2>6. init_pc'[s] = "none" /\ ~init_error'
    BY <1>2, <2>1, <2>3 DEF init_vars
  <2>. QED  BY <1>1, <2>1, <2>2, <2>4, <2>5, <2>6, OneStarter
<1>4. CASE StartRefusedByInit(s)
  BY <1>1, <1>4 DEF StartRefusedByInit, Orderly
<1>5. CASE StartSpawnInit(s)
  <2>1. /\ start_pc[s] = "init" /\ start_pc'[s] = "join" /\ init_pc'[s] = "begin" /\ ~init_error'
        /\ UNCHANGED <<state, initialized, stop_vars, event_vars, loop_vars, up_vars>>
    BY <1>5 DEF StartSpawnInit, StartGoto, InitGoto
  <2>2. Others
    BY <1>5 DEF StartSpawnInit, StartGoto, InitGoto
  <2>3. state = "starting" /\ Released
    BY <1>2, <2>1 DEF StartProgress
  <2>4. Released'
    BY <2>1, <2>3 DEF Released, Running, loop_vars, up_vars, event_vars
  <2>5. StartProgress(s)'
    BY <2>1, <2>3, <2>4 DEF StartProgress, InitProgress, Released
  <2>. QED  BY <1>1, <2>1, <2>2, <2>3, <2>5, OneStarter
<1>6. CASE StartJoinTimeout(s)
  BY <1>6 DEF StartJoinTimeout
<1>7. CASE StartJoined(s)
  <2>1. /\ start_pc[s] = "join" /\ init_pc[s] = "none" /\ ~init_error'
        /\ UNCHANGED <<initialized, init_pc, stop_vars, event_vars, loop_vars, up_vars>>
    BY <1>7 DEF StartJoined, Alive
  <2>2. /\ state = "idle" /\ StartedUp /\ initialized /\ Running = {} /\ ~is_set[stop_event]
    BY <1>2, <2>1 DEF StartProgress, InitProgress
  <2>3. state' = state /\ start_pc'[s] = "launch" /\ Others
    BY <1>2, <1>7, <2>2 DEF StartJoined, StartGoto
  <2>4. ReadyToLaunch'
    BY <2>1, <2>2 DEF ReadyToLaunch, StartedUp, Running, loop_vars, up_vars, event_vars
  <2>5. StartProgress(s)'
    BY <2>2, <2>3, <2>4 DEF StartProgress
  <2>. QED  BY <1>1, <2>1, <2>2, <2>3, <2>5, OneStarter
<1>8. CASE StartAborts(s)
  BY <1>2, <1>8 DEF StartAborts, StartProgress, ReadyToLaunch
<1>9. CASE StartSeesNoStop(s)
  <2>1. /\ start_pc[s] = "launch" /\ start_pc'[s] = "clear" /\ Others
        /\ UNCHANGED <<state, initialized, init_vars, stop_vars, event_vars, loop_vars, up_vars>>
    BY <1>9 DEF StartSeesNoStop, StartGoto, init_vars
  <2>2. state = "idle" /\ ReadyToLaunch /\ init_pc[s] = "none"
    BY <1>2, <2>1 DEF StartProgress, Alive
  <2>3. ReadyToLaunch'
    BY <2>1, <2>2 DEF ReadyToLaunch, StartedUp, Running, loop_vars, up_vars, event_vars
  <2>4. StartProgress(s)' /\ init_pc'[s] = "none" /\ ~init_error'
    BY <1>2, <2>1, <2>2, <2>3 DEF StartProgress, init_vars
  <2>. QED  BY <1>1, <2>1, <2>2, <2>4, OneStarter
<1>10. CASE StartClears(s)
  <2>1. /\ start_pc[s] = "clear" /\ start_pc'[s] = "threads" /\ Others
        /\ ~is_set'[stop_event] /\ stop_event' = stop_event
        /\ UNCHANGED <<initialized, init_vars, stop_vars, loop_vars, up_vars>>
    BY <1>10 DEF StartClears, StartGoto, init_vars
  <2>2. state = "idle" /\ ReadyToLaunch /\ init_pc[s] = "none"
    BY <1>2, <2>1 DEF StartProgress, Alive
  <2>3. ReadyToLaunch' /\ state' = "starting"
    BY <1>10, <2>1, <2>2 DEF ReadyToLaunch, StartedUp, Running, loop_vars, up_vars,
                             StartClears, BackToStarting, SetState
  <2>4. StartProgress(s)' /\ init_pc'[s] = "none" /\ ~init_error'
    BY <1>2, <2>1, <2>2, <2>3 DEF StartProgress, init_vars
  <2>. QED  BY <1>1, <2>1, <2>3, <2>4, OneStarter
<1>11. CASE StartThreads(s)
  <2>1. /\ start_pc[s] = "threads" /\ start_pc'[s] = "run" /\ Others
        /\ UNCHANGED <<state, initialized, init_vars, stop_vars, event_vars, up_vars>>
    BY <1>11 DEF StartThreads, StartGoto, init_vars
  <2>2. state = "starting" /\ ReadyToLaunch /\ init_pc[s] = "none"
    BY <1>2, <2>1 DEF StartProgress, Alive
  <2>3. PICK g \in Generations : /\ loop' = [loop EXCEPT ![g] = "running"]
                                 /\ loop_event' = [loop_event EXCEPT ![g] = stop_event]
                                 /\ tracked' = g
    BY <1>11 DEF StartThreads, ContextEvent
  <2>4. Running' = {g}
    <3>1. \A h \in Generations : loop'[h] = "running" <=> h = g
      BY <2>2, <2>3 DEF ReadyToLaunch, Running
    <3>. QED  BY <3>1 DEF Running
  <2>5. loop_event'[g] = stop_event
    BY <2>3
  <2>6. Backed'
    BY <2>1, <2>2, <2>3, <2>4, <2>5 DEF Backed, ReadyToLaunch, StartedUp, up_vars, event_vars
  <2>7. StartProgress(s)' /\ init_pc'[s] = "none" /\ ~init_error'
    BY <1>2, <2>1, <2>2, <2>6 DEF StartProgress, init_vars
  <2>. QED  BY <1>1, <2>1, <2>2, <2>7, OneStarter
<1>12. CASE StartRuns(s)
  <2>1. /\ start_pc[s] = "run" /\ start_pc'[s] = "none" /\ Others /\ state' = "running"
        /\ UNCHANGED <<initialized, init_vars, stop_vars, event_vars, loop_vars, up_vars>>
    BY <1>12 DEF StartRuns, StartGoto, init_vars, SetState
  <2>2. Backed /\ init_pc[s] = "none"
    BY <1>2, <2>1 DEF StartProgress, Alive
  <2>3. Backed'
    BY <2>1, <2>2 DEF Backed, Running, loop_vars, up_vars, event_vars
  <2>4. StartProgress(s)' /\ init_pc'[s] = "none" /\ ~init_error'
    BY <1>2, <2>1, <2>2 DEF StartProgress, init_vars
  <2>. QED  BY <1>1, <2>1, <2>3, <2>4, OneStarter
<1>. QED  BY <1>3, <1>4, <1>5, <1>6, <1>7, <1>8, <1>9, <1>10, <1>11, <1>12 DEF Start

LEMMA InitializeOrderly ==
    ASSUME TypeInv, OrderlyInv, orderly', NEW s \in Starters, Initialize(s)
    PROVE  Orderly'
<1> USE DEF TypeInv, TypeOK
<1> DEFINE Others == \A t \in Starters \ {s} :
                        start_pc'[t] = start_pc[t] /\ init_pc'[t] = init_pc[t]
<1>1. orderly /\ Orderly
  BY DEF OrderlyInv, Initialize, InitBegin, InitReplaces, InitAborts, InitModules, InitIO,
         InitFails, InitFinishes, InitReturns
<1>2. init_pc[s] # "none" /\ start_pc[s] = "join" /\ InitProgress(s) /\ ~init_error
  <2>1. init_pc[s] # "none"
    BY DEF Initialize, InitBegin, InitReplaces, InitAborts, InitModules, InitIO,
           InitFails, InitFinishes, InitReturns
  <2>2. start_pc[s] = "join" /\ ~init_error /\ StartProgress(s)
    BY <1>1, <2>1 DEF Orderly, Alive
  <2>. QED  BY <2>1, <2>2 DEF StartProgress
<1>3. ~is_set[stop_event] /\ Running = {}
  BY <1>2 DEF InitProgress
<1>4. start_pc' = start_pc /\ Others /\ UNCHANGED <<stop_vars, loop_vars>>
  BY DEF Initialize, InitBegin, InitReplaces, InitAborts, InitModules, InitIO,
         InitFails, InitFinishes, InitReturns, InitGoto, start_vars
<1>5. Running' = {}
  BY <1>3, <1>4 DEF Running, loop_vars
<1>6. CASE InitBegin(s)
  <2>1. /\ init_pc[s] = "begin" /\ init_pc'[s] = "replace" /\ state' = "starting" /\ ~init_error'
        /\ UNCHANGED <<initialized, event_vars, up_vars>>
    BY <1>2, <1>6 DEF InitBegin, InitGoto, SetState
  <2>2. Released' /\ ~is_set'[stop_event']
    BY <1>2, <1>3, <1>5, <2>1 DEF InitProgress, Released, event_vars, up_vars
  <2>3. StartProgress(s)'
    BY <1>2, <1>4, <1>5, <2>1, <2>2 DEF StartProgress, InitProgress
  <2>. QED  BY <1>1, <1>2, <1>4, <2>1, <2>3, OneStarter
<1>7. CASE InitReplaces(s)
  <2>1. /\ init_pc[s] = "replace" /\ init_pc'[s] = "modules" /\ ~init_error'
        /\ events' = events + 1 /\ stop_event' = events'
        /\ UNCHANGED <<state, initialized, is_set, up_vars>>
    BY <1>2, <1>7 DEF InitReplaces, InitGoto, NewEvent
  <2>2. ~is_set'[stop_event']
    <3>1. s \in Owed /\ Cardinality(Owed) >= 1 /\ Cardinality(Owed) \in Nat
      BY <2>1, OwedFinite DEF Owed
    <3>2. events' \in Events /\ events' > events
      BY <2>1, <3>1 DEF EventsCounted, Events
    <3>. QED  BY <2>1, <3>2 DEF OrderlyInv, NewEventsClear
  <2>3. Released' /\ state' = "starting"
    BY <1>2, <1>5, <2>1, <2>2 DEF InitProgress, Released, up_vars
  <2>4. StartProgress(s)'
    BY <1>2, <1>4, <1>5, <2>1, <2>2, <2>3 DEF StartProgress, InitProgress
  <2>. QED  BY <1>1, <1>2, <1>4, <2>1, <2>3, <2>4, OneStarter
<1>8. CASE InitAborts(s)
  BY <1>3, <1>8 DEF InitAborts
<1>9. CASE InitModules(s)
  <2>1. /\ init_pc[s] = "modules" /\ init_pc'[s] = "io" /\ ~init_error' /\ modules_up'
        /\ UNCHANGED <<state, initialized, event_vars>>
    BY <1>2, <1>9 DEF InitModules, InitGoto
  <2>2. state' = "starting" /\ ~initialized' /\ ~is_set'[stop_event']
    BY <1>2, <1>3, <2>1 DEF InitProgress, Released, event_vars
  <2>3. StartProgress(s)'
    BY <1>2, <1>4, <1>5, <2>1, <2>2 DEF StartProgress, InitProgress
  <2>. QED  BY <1>1, <1>2, <1>4, <2>1, <2>2, <2>3, OneStarter
<1>10. CASE InitIO(s)
  <2>1. /\ init_pc[s] = "io" /\ init_pc'[s] = "finish" /\ ~init_error' /\ io_up'
        /\ UNCHANGED <<state, modules_up, event_vars>>
    BY <1>2, <1>10 DEF InitIO, InitGoto
  <2>2. state' = "starting" /\ StartedUp' /\ ~is_set'[stop_event']
    BY <1>2, <1>3, <2>1 DEF InitProgress, StartedUp, event_vars
  <2>3. StartProgress(s)'
    BY <1>2, <1>4, <1>5, <2>1, <2>2 DEF StartProgress, InitProgress
  <2>. QED  BY <1>1, <1>2, <1>4, <2>1, <2>2, <2>3, OneStarter
<1>11. CASE InitFails(s)
  BY <1>11 DEF InitFails
<1>12. CASE InitFinishes(s)
  <2>1. /\ init_pc[s] = "finish" /\ init_pc'[s] = "return" /\ ~init_error' /\ state' = "idle"
        /\ UNCHANGED <<event_vars, up_vars>>
    BY <1>2, <1>12 DEF InitFinishes, InitGoto, SetState
  <2>2. StartedUp' /\ ~is_set'[stop_event']
    BY <1>2, <1>3, <2>1 DEF InitProgress, StartedUp, event_vars, up_vars
  <2>3. StartProgress(s)'
    BY <1>2, <1>4, <1>5, <2>1, <2>2 DEF StartProgress, InitProgress
  <2>. QED  BY <1>1, <1>2, <1>4, <2>1, <2>3, OneStarter
<1>13. CASE InitReturns(s)
  <2>1. /\ init_pc[s] = "return" /\ init_pc'[s] = "none" /\ ~init_error' /\ initialized'
        /\ UNCHANGED <<state, event_vars, up_vars>>
    BY <1>2, <1>13 DEF InitReturns, InitGoto
  <2>2. state' = "idle" /\ StartedUp' /\ ~is_set'[stop_event']
    BY <1>2, <1>3, <2>1 DEF InitProgress, StartedUp, event_vars, up_vars
  <2>3. StartProgress(s)'
    BY <1>2, <1>4, <1>5, <2>1, <2>2 DEF StartProgress, InitProgress
  <2>. QED  BY <1>1, <1>2, <1>4, <2>1, <2>2, <2>3, OneStarter
<1>. QED  BY <1>6, <1>7, <1>8, <1>9, <1>10, <1>11, <1>12, <1>13 DEF Initialize

(* A call of start that comes while a stop is under way does not disturb it. *)
LEMMA RouteOrderly ==
    ASSUME TypeInv, OrderlyInv, orderly', NEW s \in Starters, StartRoute(s) \/ StartCheck(s),
           OneStopAtATime
    PROVE  Orderly'
<1> USE DEF TypeInv, TypeOK
<1>1. orderly /\ Orderly
  BY DEF OrderlyInv, StartRoute, StartCheck
<1>2. /\ UNCHANGED <<initialized, init_vars, stop_vars, event_vars, loop_vars, up_vars>>
      /\ (Released' <=> Released) /\ (Backed' <=> Backed) /\ (Stopping' <=> Stopping)
      /\ Running' = Running
  <2>1. UNCHANGED <<initialized, init_vars, stop_vars, event_vars, loop_vars, up_vars>>
    BY DEF StartRoute, StartCheck
  <2>2. Running' = Running
    BY <2>1 DEF Running, loop_vars
  <2>3. Released' <=> Released
    BY <2>1, <2>2 DEF Released, event_vars, up_vars
  <2>4. Backed' <=> Backed
    BY <2>1, <2>2 DEF Backed, event_vars, loop_vars, up_vars
  <2>5. Stopping' <=> Stopping
    BY <2>1 DEF Stopping, stop_vars
  <2>. QED  BY <2>1, <2>2, <2>3, <2>4, <2>5
<1>3. ~init_error' /\ init_pc' = init_pc
  BY <1>1, <1>2 DEF Orderly, init_vars
<1>4. \A p \in Stoppers : job_pc'[p] # "none" => stop_pc'[p] = "wait"
  BY <1>1, <1>2 DEF Orderly, stop_vars
<1>5. CASE StartRoute(s)
  <2>1. /\ \A t \in Starters : start_pc[t] = "none" /\ init_pc[t] = "none"
        /\ state' = IF state \in {"error", "stopping"} THEN "idle" ELSE state
        /\ state \notin {"running", "starting"}
    BY <1>1, <1>5 DEF StartRoute, Starting, Orderly, Alive, reset_error_state, SetState, is_running
  <2>2. state' = "idle"
    BY <2>1 DEF States
  <2>3. \A t \in Starters : start_pc'[t] = IF t = s THEN "check" ELSE "none"
    BY <1>5, <2>1 DEF StartRoute, StartGoto
  <2>4. \A t \in Starters : StartProgress(t)'
    BY <2>3 DEF StartProgress
  <2>5. \A p \in Stoppers : StopProgress(p)'
    <3>1. ASSUME NEW p \in Stoppers PROVE StopProgress(p)'
      <4>1. StopProgress(p)
        BY <1>1 DEF Orderly
      <4>. QED  BY <1>2, <2>2, <4>1 DEF StopProgress, stop_vars, loop_vars, up_vars
    <3>. QED  BY <3>1
  <2>6. ~Stopping => state = "idle" /\ Released
    BY <1>1, <2>1 DEF Orderly
  <2>. QED  BY <1>2, <1>3, <1>4, <2>1, <2>2, <2>3, <2>4, <2>5, <2>6 DEF Orderly, Alive
<1>6. CASE StartCheck(s)
  <2>1. /\ start_pc[s] = "check" /\ state' = state
        /\ \A t \in Starters \ {s} : start_pc[t] = "none" /\ start_pc'[t] = "none"
        /\ start_pc'[s] = IF MayStart THEN "accept" ELSE "none"
        /\ \A t \in Starters : init_pc[t] = "none"
    BY <1>1, <1>6 DEF StartCheck, StartGoto, Orderly, Alive
  <2>2. MayStart => ~Stopping /\ Released /\ state = "idle"
    BY <1>1, <2>1 DEF MayStart, OneStopAtATime, Stopping, Orderly
  <2>3. \A t \in Starters : StartProgress(t)'
    BY <1>2, <2>1, <2>2 DEF StartProgress
  <2>4. \A p \in Stoppers : StopProgress(p)'
    <3>1. ASSUME NEW p \in Stoppers PROVE StopProgress(p)'
      <4>1. StopProgress(p)
        BY <1>1 DEF Orderly
      <4>. QED  BY <1>2, <2>1, <4>1 DEF StopProgress, stop_vars, loop_vars, up_vars
    <3>. QED  BY <3>1
  <2>5. ~Stopping => state = "idle" /\ Released
    BY <1>1, <2>1 DEF Orderly, Starting
  <2>6. state' # "error" /\ (\A t \in Starters : start_pc'[t] # "none" => t = s)
    BY <1>1, <2>1 DEF Orderly
  <2>7. Stopping' => start_pc'[s] = "none"
    BY <1>2, <2>1, <2>2
  <2>. QED  BY <1>2, <1>3, <1>4, <2>1, <2>3, <2>4, <2>5, <2>6, <2>7 DEF Orderly, Alive
<1>. QED  BY <1>5, <1>6

LEMMA StopOrderly ==
    ASSUME TypeInv, OrderlyInv, orderly', OneStopAtATime, NEW p \in Stoppers,
           StopAccept(p) \/ StopReturns(p) \/ Stop(p) \/ SyncStop(p)
    PROVE  Orderly'
<1> USE DEF TypeInv, TypeOK
<1> DEFINE Others == \A q \in Stoppers \ {p} :
                        stop_pc'[q] = stop_pc[q] /\ job_pc'[q] = job_pc[q]
<1>1. orderly /\ Orderly
  BY DEF OrderlyInv, StopAccept, StopReturns, Stop, StopJobDone, StopTimeout, StopClears,
         StopReleases, SyncStop, JobJoins, JobStopsModules, JobStopsIO, JobSetsIdle, JobEnds
<1>2. StopProgress(p)
  BY <1>1 DEF Orderly
<1>3. CASE StopAccept(p)
  <2>1. /\ \A t \in Starters : start_pc[t] = "none" /\ init_pc[t] = "none"
        /\ \A q \in Stoppers : stop_pc[q] = "none" /\ job_pc[q] = "none"
        /\ state \in {"running", "starting"}
    BY <1>1, <1>3 DEF StopAccept, Starting, Orderly, Alive, MayStop, is_running,
                      OneStopAtATime, Stopping
  <2>2. Backed
    BY <1>1, <2>1 DEF Orderly, Stopping
  <2>3. /\ state' = "stopping"
        /\ UNCHANGED <<init_vars, start_pc, loop_vars>>
        /\ \A q \in Stoppers : stop_pc'[q] = IF q = p THEN "wait" ELSE "none"
        /\ \A q \in Stoppers : job_pc'[q] = IF q = p THEN "join" ELSE "none"
    BY <1>3, <2>1 DEF StopAccept, StopGoto, JobGoto, SetState
  <2>4. \A g \in Running' : g = tracked'
    BY <2>2, <2>3 DEF Backed, Running, loop_vars
  <2>5. \A q \in Stoppers : StopProgress(q)'
    BY <2>3, <2>4 DEF StopProgress
  <2>6. \A t \in Starters : StartProgress(t)' /\ start_pc'[t] = "none" /\ ~Alive(t)'
    BY <2>1, <2>3 DEF StartProgress, Alive, init_vars
  <2>7. Stopping' /\ ~init_error'
    BY <1>1, <2>3 DEF Stopping, Orderly, init_vars
  <2>. QED  BY <2>3, <2>5, <2>6, <2>7 DEF Orderly
<1>4. CASE StopReturns(p)
  <2>1. /\ UNCHANGED <<initialized, init_vars, start_vars, stop_vars, event_vars, loop_vars, up_vars>>
        /\ \A t \in Starters : start_pc[t] = "none" /\ init_pc[t] = "none"
        /\ state' = IF state \in {"error", "stopping"} THEN "idle" ELSE state
    BY <1>1, <1>4 DEF StopReturns, reset_error_state, SetState, Starting, Orderly, Alive
  <2>2. /\ (Released' <=> Released) /\ (Backed' <=> Backed) /\ (Stopping' <=> Stopping)
        /\ Running' = Running /\ (Starting' <=> Starting)
    BY <2>1 DEF Released, Backed, Running, Stopping, Starting, stop_vars, start_vars,
                event_vars, loop_vars, up_vars
  <2>3. \A q \in Stoppers : StopProgress(q)'
    <3>1. ASSUME NEW q \in Stoppers PROVE StopProgress(q)'
      <4>1. StopProgress(q)
        BY <1>1 DEF Orderly
      <4>. QED  BY <2>1, <2>2, <4>1 DEF StopProgress, stop_vars, loop_vars, up_vars
    <3>. QED  BY <3>1
  <2>4. \A t \in Starters : StartProgress(t)' /\ start_pc'[t] = "none" /\ ~Alive(t)'
    BY <2>1 DEF StartProgress, Alive, init_vars, start_vars
  <2>5. ~Stopping => state' = state
    BY <1>1, <2>1 DEF Orderly
  <2>6. \A q \in Stoppers : job_pc'[q] # "none" => stop_pc'[q] = "wait"
    BY <1>1, <2>1 DEF Orderly, stop_vars
  <2>7. ~init_error' /\ state' # "error"
    BY <1>1, <2>1 DEF Orderly, init_vars
  <2>. QED  BY <1>1, <2>1, <2>2, <2>3, <2>4, <2>5, <2>6, <2>7 DEF Orderly
<1>5. CASE Stop(p)
  <2>1. stop_pc[p] # "none" /\ Others /\ UNCHANGED <<init_vars, start_pc>>
    BY <1>5 DEF Stop, StopJobDone, StopTimeout, StopClears, StopReleases, StopGoto, start_vars
  <2>2. UNCHANGED <<initialized, loop_vars, up_vars, job_pc>>
    BY <1>5 DEF Stop, StopJobDone, StopTimeout, StopClears, StopReleases
  <2>3. Running' = Running /\ (job_pc[p] # "none" => stop_pc[p] = "wait")
    BY <1>1, <2>2 DEF Running, loop_vars, Orderly
  <2>4. CASE StopJobDone(p)
    <3>1. stop_pc[p] = "wait" /\ job_pc[p] = "none" /\ stop_pc'[p] = "clear" /\ state' = state
      BY <2>4 DEF StopJobDone, StopGoto
    <3>2. StopProgress(p)' /\ state = "idle" /\ job_pc'[p] = "none"
      BY <1>2, <2>2, <2>3, <3>1 DEF StopProgress, up_vars
    <3>. QED  BY <1>1, <2>1, <3>1, <3>2, OneStopper
  <2>5. CASE StopTimeout(p)
    BY <2>5 DEF StopTimeout
  <2>6. CASE StopClears(p)
    <3>1. stop_pc[p] = "clear" /\ stop_pc'[p] = "release" /\ state' = state /\ ~is_set'[stop_event']
      BY <2>6 DEF StopClears, StopGoto
    <3>2. job_pc'[p] = "none"
      BY <2>2, <2>3, <3>1
    <3>3. StopProgress(p)' /\ state = "idle"
      BY <1>2, <2>2, <2>3, <3>1 DEF StopProgress, Released, up_vars
    <3>. QED  BY <1>1, <2>1, <3>1, <3>2, <3>3, OneStopper
  <2>7. CASE StopReleases(p)
    <3>1. stop_pc[p] = "release" /\ stop_pc'[p] = "none" /\ UNCHANGED event_vars
      BY <2>7 DEF StopReleases, StopGoto
    <3>2. state = "idle" /\ Released /\ job_pc'[p] = "none"
      BY <1>2, <2>2, <2>3, <3>1 DEF StopProgress
    <3>3. state' = "idle" /\ Released'
      BY <2>2, <2>3, <2>7, <3>1, <3>2 DEF StopReleases, reset_error_state, SetState,
                                          Released, up_vars, event_vars
    <3>4. StopProgress(p)'
      BY <3>1 DEF StopProgress
    <3>. QED  BY <1>1, <2>1, <3>1, <3>2, <3>3, <3>4, OneStopper
  <2>. QED  BY <1>5, <2>4, <2>5, <2>6, <2>7 DEF Stop
<1>6. CASE SyncStop(p)
  <2>1. job_pc[p] # "none" /\ Others /\ UNCHANGED <<init_vars, start_pc, stop_pc>>
    BY <1>6 DEF SyncStop, JobJoins, JobStopsModules, JobStopsIO, JobSetsIdle, JobEnds,
                JobGoto, start_vars
  <2>2. stop_pc[p] = "wait" /\ stop_pc'[p] = "wait" /\ state \in {"stopping", "idle"}
    BY <1>1, <1>2, <2>1 DEF Orderly, StopProgress
  <2>3. CASE JobJoins(p)
    <3>1. /\ job_pc[p] = "join" /\ job_pc'[p] = "modules" /\ state' = state /\ loop' = loop
          /\ tracked = 0 \/ loop[tracked] = "exited"
      BY <2>3 DEF JobJoins, JobGoto
    <3>2. \A g \in Running : g = tracked
      BY <1>2, <2>2, <3>1 DEF StopProgress
    <3>3. Running' = {}
      BY <3>1, <3>2 DEF Running, Generations
    <3>4. StopProgress(p)' /\ state' # "error"
      BY <2>2, <3>1, <3>3 DEF StopProgress
    <3>. QED  BY <1>1, <2>1, <2>2, <3>4, OneStopper
  <2>4. CASE JobStopsModules(p)
    <3>1. /\ job_pc[p] = "modules" /\ job_pc'[p] = "io" /\ ~modules_up'
          /\ UNCHANGED <<state, loop_vars>>
      BY <2>4 DEF JobStopsModules, JobGoto
    <3>2. Running' = Running
      BY <3>1 DEF Running, loop_vars
    <3>3. StopProgress(p)' /\ state' # "error"
      BY <1>2, <2>2, <3>1, <3>2 DEF StopProgress
    <3>. QED  BY <1>1, <2>1, <2>2, <3>3, OneStopper
  <2>5. CASE JobStopsIO(p)
    <3>1. /\ job_pc[p] = "io" /\ job_pc'[p] = "idle" /\ ~io_up' /\ modules_up' = modules_up
          /\ UNCHANGED <<state, loop_vars>>
      BY <2>5 DEF JobStopsIO, JobGoto
    <3>2. Running' = Running
      BY <3>1 DEF Running, loop_vars
    <3>3. StopProgress(p)' /\ state' # "error"
      BY <1>2, <2>2, <3>1, <3>2 DEF StopProgress
    <3>. QED  BY <1>1, <2>1, <2>2, <3>3, OneStopper
  <2>6. CASE JobSetsIdle(p)
    <3>1. /\ job_pc[p] = "idle" /\ job_pc'[p] = "reinit" /\ state' = "idle"
          /\ UNCHANGED <<up_vars, loop_vars>>
      BY <2>6 DEF JobSetsIdle, JobGoto, SetState
    <3>2. Running' = Running
      BY <3>1 DEF Running, loop_vars
    <3>3. StopProgress(p)'
      BY <1>2, <2>2, <3>1, <3>2 DEF StopProgress, up_vars
    <3>. QED  BY <1>1, <2>1, <2>2, <3>1, <3>3, OneStopper
  <2>7. CASE JobEnds(p)
    <3>1. /\ job_pc[p] = "reinit" /\ job_pc'[p] = "none" /\ state' = state /\ ~initialized'
          /\ UNCHANGED <<up_vars, loop_vars>>
      BY <2>7 DEF JobEnds, JobGoto, ForceReinit
    <3>2. Running' = Running
      BY <3>1 DEF Running, loop_vars
    <3>3. StopProgress(p)' /\ state' # "error"
      BY <1>2, <2>2, <3>1, <3>2 DEF StopProgress, up_vars
    <3>. QED  BY <1>1, <2>1, <2>2, <3>1, <3>3, OneStopper
  <2>. QED  BY <1>6, <2>3, <2>4, <2>5, <2>6, <2>7 DEF SyncStop
<1>. QED  BY <1>3, <1>4, <1>5, <1>6

(* While the pipeline runs or starts, no loop's stop event is set; a loop can
   only end while a stop waits for it. *)
LEMMA LoopOrderly ==
    ASSUME TypeInv, OrderlyInv, orderly', OneStopAtATime, NEW g \in Generations,
           LoopExits(g) \/ LoopFails(g)
    PROVE  Orderly'
<1> USE DEF TypeInv, TypeOK
<1>1. /\ LoopExits(g) /\ orderly /\ Orderly /\ g \in Running /\ is_set[loop_event[g]]
  BY DEF OrderlyInv, LoopExits, LoopFails, Running
<1>2. /\ UNCHANGED <<state, initialized, init_vars, start_vars, stop_vars, event_vars,
                     tracked, up_vars>>
      /\ Running' \subseteq Running
  BY <1>1 DEF LoopExits, Running
<1>3. ~Backed /\ ~Released
  BY <1>1 DEF Backed, Released
<1>4. \A s \in Starters : start_pc[s] \in {"none", "check"}
  <2>1. ASSUME NEW s \in Starters, start_pc[s] \notin {"none", "check"} PROVE FALSE
    <3>1. StartProgress(s)
      BY <1>1 DEF Orderly
    <3>2. Running = {}
      BY <1>3, <2>1, <3>1 DEF StartProgress, InitProgress, ReadyToLaunch, Released
    <3>. QED  BY <1>1, <3>2
  <2>. QED  BY <2>1
<1>5. Stopping
  BY <1>1, <1>3, <1>4 DEF Orderly
<1>6. PICK p \in Stoppers : stop_pc[p] # "none"
  BY <1>5 DEF Stopping
<1>7. StopProgress(p) /\ (job_pc[p] # "none" => stop_pc[p] = "wait")
  BY <1>1 DEF Orderly
<1>8. stop_pc[p] = "wait" /\ job_pc[p] = "join"
  BY <1>1, <1>6, <1>7 DEF StopProgress, Released
<1>9. StopProgress(p)' /\ state' # "error"
  BY <1>2, <1>7, <1>8 DEF StopProgress, stop_vars, up_vars
<1>10. /\ \A q \in Stoppers \ {p} : stop_pc'[q] = stop_pc[q] /\ job_pc'[q] = job_pc[q]
       /\ UNCHANGED <<init_vars, start_pc>> /\ stop_pc'[p] = "wait"
  BY <1>2, <1>8 DEF stop_vars, start_vars
<1>. QED  BY <1>1, <1>6, <1>9, <1>10, OneStopper

LEMMA StepNewEvents == TypeInv /\ NewEventsClear /\ [Next]_vars => NewEventsClear'
<1> SUFFICES ASSUME TypeInv, NewEventsClear, [Next]_vars PROVE NewEventsClear'
  OBVIOUS
<1> USE DEF NewEventsClear, TypeInv, TypeOK
<1>1. stop_event <= events /\ events \in Nat
  BY DEF EventsCounted, Events
<1>2. CASE UNCHANGED <<is_set, events>>
  BY <1>2
<1>3. ASSUME NEW s \in Starters, InitReplaces(s) PROVE NewEventsClear'
  BY <1>1, <1>3 DEF InitReplaces, NewEvent, Events
<1>4. ASSUME NEW s \in Starters, StartClears(s) PROVE NewEventsClear'
  BY <1>1, <1>4 DEF StartClears, init_vars, Events
<1>5. ASSUME NEW p \in Stoppers, StopAccept(p) \/ StopClears(p) PROVE NewEventsClear'
  BY <1>1, <1>5 DEF StopAccept, StopClears, init_vars, Events
<1>6. ASSUME NEW s \in Starters, Start(s), ~StartClears(s) PROVE UNCHANGED <<is_set, events>>
  BY <1>6 DEF Start, StartCheck, StartAccept, StartRefusedByInit, StartSpawnInit,
              StartJoinTimeout, StartJoined, StartAborts, StartSeesNoStop, StartThreads,
              StartRuns, init_vars, event_vars
<1>7. ASSUME NEW s \in Starters, Initialize(s), ~InitReplaces(s) PROVE UNCHANGED <<is_set, events>>
  BY <1>7 DEF Initialize, InitBegin, InitAborts, InitModules, InitIO, InitFails,
              InitFinishes, InitReturns, event_vars
<1>8. ASSUME NEW p \in Stoppers, Stop(p), ~StopClears(p) PROVE UNCHANGED <<is_set, events>>
  BY <1>8 DEF Stop, StopJobDone, StopTimeout, StopReleases, init_vars, event_vars
<1>9. ASSUME NEW p \in Stoppers, StopReturns(p) \/ SyncStop(p) PROVE UNCHANGED <<is_set, events>>
  BY <1>9 DEF StopReturns, SyncStop, JobJoins, JobStopsModules, JobStopsIO, JobSetsIdle,
              JobEnds, init_vars, event_vars
<1>10. ASSUME NEW s \in Starters, StartRoute(s) PROVE UNCHANGED <<is_set, events>>
  BY <1>10 DEF StartRoute, init_vars, event_vars
<1>11. ASSUME NEW g \in Generations, LoopExits(g) \/ LoopFails(g) PROVE UNCHANGED <<is_set, events>>
  BY <1>11 DEF LoopExits, LoopFails, init_vars, event_vars
<1>12. CASE UNCHANGED vars
  BY <1>12 DEF vars, init_vars, event_vars
<1>. QED  BY <1>2, <1>3, <1>4, <1>5, <1>6, <1>7, <1>8, <1>9, <1>10, <1>11, <1>12 DEF Next

LEMMA StepOrderly ==
    TypeInv /\ OneStopAtATime /\ OrderlyInv /\ [Next]_vars => OrderlyInv'
<1> SUFFICES ASSUME TypeInv, OneStopAtATime, OrderlyInv, [Next]_vars, orderly'
             PROVE  Orderly'
  BY StepNewEvents DEF OrderlyInv
<1>1. CASE UNCHANGED vars
  <2>1. orderly /\ Orderly
    BY <1>1 DEF OrderlyInv, vars
  <2>. QED  BY <1>1, <2>1 DEF Orderly, StartProgress, InitProgress, StopProgress, Released,
                 Backed, ReadyToLaunch, StartedUp, Running, Stopping, Starting, Alive,
                 vars, init_vars, start_vars, stop_vars, event_vars, loop_vars, up_vars
<1>2. ASSUME NEW s \in Starters, StartRoute(s) \/ Start(s) \/ Initialize(s) PROVE Orderly'
  BY <1>2, RouteOrderly, StartOrderly, InitializeOrderly
<1>3. ASSUME NEW p \in Stoppers, StopAccept(p) \/ StopReturns(p) \/ Stop(p) \/ SyncStop(p)
      PROVE  Orderly'
  BY <1>3, StopOrderly
<1>4. ASSUME NEW g \in Generations, LoopExits(g) \/ LoopFails(g) PROVE Orderly'
  BY <1>4, LoopOrderly
<1>. QED  BY <1>1, <1>2, <1>3, <1>4 DEF Next

LEMMA OrderlyHolds == Spec => [](TypeInv /\ OneStopAtATime /\ OrderlyInv)
<1>1. Init => OrderlyInv
  <2> SUFFICES ASSUME Init PROVE OrderlyInv
    OBVIOUS
  <2>1. Released /\ state = "idle" /\ ~init_error
    BY DEF Init, Released, Running, Generations, Events
  <2>2. NewEventsClear
    BY DEF Init, NewEventsClear
  <2>3. \A s \in Starters : start_pc[s] = "none" /\ init_pc[s] = "none"
    BY DEF Init
  <2>4. \A p \in Stoppers : stop_pc[p] = "none" /\ job_pc[p] = "none"
    BY DEF Init
  <2>. QED  BY <2>1, <2>2, <2>3, <2>4 DEF OrderlyInv, Orderly, StartProgress, StopProgress,
                                         Alive, Stopping
<1>2. Init => OneStopAtATime
  BY DEF Init, OneStopAtATime
<1>3. TypeInv /\ OneStopAtATime /\ OrderlyInv /\ [Next]_vars
        => (TypeInv /\ OneStopAtATime /\ OrderlyInv)'
  BY StepTypeInv, StepOneStop, StepOrderly DEF TypeInv
<1>. QED  BY <1>1, <1>2, <1>3, InitTypeInv, PTL DEF Spec

(* Over any number of orderly lives, a pipeline that is running with nothing in
   progress has all it needs, and one generation of loops, whose stop event is
   the one a stop would set. *)
THEOREM RunningPipelineIsBacked == Spec => []RunningIsBacked
<1>1. OrderlyInv => RunningIsBacked
  BY DEF OrderlyInv, Orderly, RunningIsBacked, Backed, Quiet, Starting, Stopping
<1>. QED  BY <1>1, OrderlyHolds, PTL

(* And one that is idle with nothing in progress holds nothing. *)
THEOREM IdlePipelineIsReleased == Spec => []OrderlyIdleIsReleased
<1>1. OrderlyInv => OrderlyIdleIsReleased
  BY DEF OrderlyInv, Orderly, OrderlyIdleIsReleased, IdleIsReleased, Backed, Quiet,
         Starting, Stopping
<1>. QED  BY <1>1, OrderlyHolds, PTL

(* A job that runs is one its stop waits for, or one it gave up. *)
JobsAwaited == \A p \in Stoppers : job_pc[p] # "none" => stop_pc[p] = "wait" \/ p \in given_up

LEMMA StepJobsAwaited == JobsAwaited /\ TypeOK /\ [Next]_vars => JobsAwaited'
<1> SUFFICES ASSUME JobsAwaited, TypeOK, [Next]_vars PROVE JobsAwaited'
  OBVIOUS
<1> USE DEF JobsAwaited, TypeOK, StopGoto, JobGoto
<1>1. CASE UNCHANGED stop_vars
  BY <1>1 DEF stop_vars
<1>2. ASSUME NEW p \in Stoppers, StopAccept(p) PROVE JobsAwaited'
  BY <1>2 DEF StopAccept
<1>3. ASSUME NEW p \in Stoppers, Stop(p) PROVE JobsAwaited'
  <2>1. CASE StopJobDone(p)
    BY <2>1 DEF StopJobDone
  <2>2. CASE StopTimeout(p)
    BY <2>2 DEF StopTimeout
  <2>3. CASE StopClears(p)
    BY <2>3 DEF StopClears
  <2>4. CASE StopReleases(p)
    BY <2>4 DEF StopReleases
  <2>. QED  BY <1>3, <2>1, <2>2, <2>3, <2>4 DEF Stop
<1>4. ASSUME NEW p \in Stoppers, SyncStop(p) PROVE JobsAwaited'
  <2>1. CASE JobEnds(p)
    BY <2>1 DEF JobEnds
  <2>2. CASE ~JobEnds(p)
    BY <1>4, <2>2 DEF SyncStop, JobJoins, JobStopsModules, JobStopsIO, JobSetsIdle
  <2>. QED  BY <2>1, <2>2
<1>5. ASSUME NEW s \in Starters, StartRoute(s) \/ Start(s) PROVE UNCHANGED stop_vars
  BY <1>5 DEF StartRoute, Start, StartCheck, StartAccept, StartRefusedByInit,
              StartSpawnInit, StartJoinTimeout, StartJoined, StartAborts,
              StartSeesNoStop, StartClears, StartThreads, StartRuns
<1>6. ASSUME NEW s \in Starters, Initialize(s) PROVE UNCHANGED stop_vars
  BY <1>6 DEF Initialize, InitBegin, InitReplaces, InitAborts, InitModules,
              InitIO, InitFails, InitFinishes, InitReturns
<1>7. ASSUME NEW g \in Generations, LoopExits(g) \/ LoopFails(g) PROVE UNCHANGED stop_vars
  BY <1>7 DEF LoopExits, LoopFails
<1>8. ASSUME NEW p \in Stoppers, StopReturns(p) PROVE UNCHANGED stop_vars
  BY <1>8 DEF StopReturns
<1>9. CASE UNCHANGED vars
  BY <1>9 DEF vars, stop_vars
<1>. QED  BY <1>1, <1>2, <1>3, <1>4, <1>5, <1>6, <1>7, <1>8, <1>9 DEF Next

(* Whatever the calls overlap with and whatever fails, the only executor job beside
   which a start is accepted is one that its stop gave up after 30 seconds. *)
THEOREM NoStartWhileStopping == Spec => NoStartDuringStop
<1>1. TypeInv /\ OneStopAtATime /\ JobsAwaited /\ [Next]_vars
        => [\A s \in Starters : start_pc[s] = "check" /\ start_pc'[s] = "accept"
               => \A p \in Stoppers : job_pc[p] # "none" => p \in given_up]_vars
  <2> SUFFICES ASSUME TypeInv, OneStopAtATime, JobsAwaited, [Next]_vars,
                      NEW s \in Starters, start_pc[s] = "check", start_pc'[s] = "accept"
               PROVE  \A p \in Stoppers : job_pc[p] # "none" => p \in given_up
    OBVIOUS
  <2>1. ~stop_in_progress
    <3>1. StartCheck(s) => ~stop_in_progress
      BY DEF StartCheck, StartGoto, MayStart, TypeInv, TypeOK
    <3>2. CASE UNCHANGED start_pc
      BY <3>2
    <3>3. ASSUME NEW t \in Starters, StartRoute(t) PROVE FALSE
      BY <3>3 DEF StartRoute, StartGoto, TypeInv, TypeOK
    <3>4. ASSUME NEW t \in Starters, Start(t) PROVE StartCheck(s)
      BY <3>4 DEF Start, StartCheck, StartAccept, StartRefusedByInit, StartSpawnInit,
                  StartJoinTimeout, StartJoined, StartAborts, StartSeesNoStop, StartClears,
                  StartThreads, StartRuns, StartGoto, TypeInv, TypeOK
    <3>5. ASSUME NEW t \in Starters, Initialize(t) PROVE UNCHANGED start_pc
      BY <3>5 DEF Initialize, InitBegin, InitReplaces, InitAborts, InitModules, InitIO,
                  InitFails, InitFinishes, InitReturns, start_vars
    <3>6. ASSUME NEW p \in Stoppers, StopAccept(p) \/ StopReturns(p) \/ Stop(p) \/ SyncStop(p)
          PROVE  UNCHANGED start_pc
      BY <3>6 DEF StopAccept, StopReturns, Stop, StopJobDone, StopTimeout, StopClears,
                  StopReleases, SyncStop, JobJoins, JobStopsModules, JobStopsIO,
                  JobSetsIdle, JobEnds, start_vars
    <3>7. ASSUME NEW g \in Generations, LoopExits(g) \/ LoopFails(g) PROVE UNCHANGED start_pc
      BY <3>7 DEF LoopExits, LoopFails, start_vars
    <3>8. CASE UNCHANGED vars
      BY <3>8 DEF vars, start_vars
    <3>. QED  BY <3>1, <3>2, <3>3, <3>4, <3>5, <3>6, <3>7, <3>8 DEF Next
  <2>. QED  BY <2>1 DEF OneStopAtATime, JobsAwaited
<1>2. Init => JobsAwaited
  BY DEF Init, JobsAwaited
<1>3. Spec => []JobsAwaited
  BY <1>2, TypeCorrect, StepJobsAwaited, PTL DEF Spec
<1>4. Spec => [](TypeInv /\ OneStopAtATime)
  BY OrderlyHolds, PTL
<1>. QED  BY <1>1, <1>3, <1>4, PTL DEF Spec, NoStartDuringStop
=============================================================================
