----------------------- MODULE CompositeOutput_proofs -----------------------
(* Theorems about CompositeOutput for every set of outputs, every number of
   attempts, starts, stops and failures. *)
EXTENDS CompositeOutput, FiniteSetTheorems, TLAPS

USE OutputsAssumption, AttemptsAssumption, BoundsAssumption

(* The composite is only being started after a call of start. *)
TypeInv == TypeOK /\ (life = "spawn" => starts \in Workers)

LEMMA InitTypeInv == Init => TypeInv
<1> SUFFICES ASSUME Init PROVE TypeInv
  OBVIOUS
<1> USE DEF Init
<1>1. /\ present \subseteq known /\ known \subseteq Outputs
      /\ attempts \in [Outputs -> 0 .. MaxReconnectAttempts]
  OBVIOUS
<1>4. /\ up \in [Outputs -> BOOLEAN] /\ errors \in [Outputs -> BOOLEAN]
      /\ stopped \in BOOLEAN /\ stop_event \in BOOLEAN
  OBVIOUS
<1>2. /\ queue \in Seq(Tasks \cup {Sentinel})
      /\ worker \in Workers \cup {0} /\ joining \in Workers \cup {0}
      /\ worker_pc \in [Workers -> {"none", "poll", "check", "stop", "start",
                                     "mark", "failed", "exited"}]
      /\ worker_task \in [Workers -> Tasks \cup {Sentinel}]
      /\ \A w \in Workers : worker_pc[w] \notin {"none", "poll", "exited"}
                                => worker_task[w] \in Tasks
  OBVIOUS
<1>3. /\ starts \in 0 .. MaxStarts /\ stops \in 0 .. MaxStops
      /\ failures \in 0 .. MaxFailures
      /\ to_stop \subseteq Outputs /\ to_write \subseteq Outputs
      /\ writing \in [output : Outputs, attempt : 0 .. MaxReconnectAttempts]
                       \cup {Sentinel}
      /\ adding \in Outputs \cup {"none"} /\ reconfigures \in 0 .. MaxReconfigures
      /\ to_configure \subseteq Outputs /\ overwritten \subseteq Outputs
  OBVIOUS
<1>. QED  BY <1>1, <1>2, <1>3, <1>4 DEF TypeInv, TypeOK

LEMMA LifecycleTypes ==
    ASSUME TypeInv, Lifecycle
    PROVE  TypeInv'
<1> USE DEF TypeInv, TypeOK, Workers, Attempts, Task, Tasks, WorkerGoto,
            output_vars, worker_vars, life_vars, write_vars, handler_vars
<1>1. CASE StartOutputs
  <2>1. PICK failing \in SUBSET Outputs :
           /\ up' = [o \in Outputs |->
                       IF o \in present THEN o \notin failing ELSE up[o]]
           /\ errors' = StartErrors(failing)
           /\ attempts' = [o \in Outputs |->
                             IF o \in present \ failing THEN 0 ELSE attempts[o]]
    BY <1>1 DEF StartOutputs
  <2>2. up' \in [Outputs -> BOOLEAN]
    BY <2>1
  <2>3. errors' \in [Outputs -> BOOLEAN]
    BY <2>1 DEF StartErrors
  <2>4. attempts' \in [Outputs -> 0 .. MaxReconnectAttempts]
    BY <2>1
  <2>5. /\ starts' = starts + 1 /\ starts < MaxStarts /\ life' = "spawn"
        /\ stopped' = FALSE /\ stop_event' = FALSE
    BY <1>1 DEF StartOutputs
  <2>7. starts' \in Workers /\ starts' \in 0 .. MaxStarts
    BY <2>5
  <2>6. UNCHANGED <<present, known, queue, worker_pc, worker_task, worker, stops,
                    joining, to_stop, write_pc, to_write, writing, failures,
                    adding, reconfigures, to_configure, overwritten>>
    BY <1>1 DEF StartOutputs
  <2>. QED  BY <2>2, <2>3, <2>4, <2>5, <2>6, <2>7
<1>2. CASE StartWorker
  <2>1. /\ UNCHANGED <<output_vars, queue, worker_task, stopped, stop_event, starts,
                       stops, joining, to_stop, write_vars, handler_vars>>
        /\ life' = "up" /\ starts \in Workers
    BY <1>2 DEF StartWorker
  <2>2. /\ worker' \in Workers \cup {0}
        /\ worker_pc' = worker_pc \/ worker_pc' = [worker_pc EXCEPT ![starts] = "poll"]
    BY <1>2 DEF StartWorker
  <2>3. worker_pc' \in [Workers -> {"none", "poll", "check", "stop", "start",
                                    "mark", "failed", "exited"}]
    BY <2>1, <2>2
  <2>4. \A w \in Workers : worker_pc'[w] \in {worker_pc[w], "poll"}
    BY <2>1, <2>2
  <2>. QED  BY <2>1, <2>2, <2>3, <2>4
<1>3. CASE StopSignals
  BY <1>3 DEF StopSignals
<1>4. CASE StopFlags
  BY <1>4 DEF StopFlags
<1>5. CASE StopJoins
  BY <1>5 DEF StopJoins, WorkerJoined
<1>6. CASE StopOutput
  BY <1>6 DEF StopOutput
<1>7. CASE StopEnds
  BY <1>7 DEF StopEnds
<1>8. CASE PipelineStarts \/ InitializeFails
  BY <1>8 DEF PipelineStarts, InitializeFails
<1>. QED  BY <1>1, <1>2, <1>3, <1>4, <1>5, <1>6, <1>7, <1>8 DEF Lifecycle

LEMMA WriteTypes ==
    ASSUME TypeInv, Write
    PROVE  TypeInv'
<1> USE DEF TypeInv, TypeOK, Workers, Attempts, Task, Tasks, WorkerGoto,
            output_vars, worker_vars, life_vars, write_vars, handler_vars
<1>1. CASE WriteBegins
  BY <1>1 DEF WriteBegins
<1>2. CASE WriteEnds
  BY <1>2 DEF WriteEnds
<1>3. CASE WriteChecks
  <2>1. PICK o \in to_write :
           /\ to_write' = to_write \ {o}
           /\ IF Skipped(o) THEN UNCHANGED <<write_pc, writing>>
                            ELSE write_pc' = "write" /\ writing' = Task(o, 0)
    BY <1>3 DEF WriteChecks
  <2>2. Task(o, 0) \in [output : Outputs, attempt : 0 .. MaxReconnectAttempts]
        /\ Task(o, 0) # Sentinel
    BY <2>1 DEF Sentinel
  <2>. QED  BY <1>3, <2>1, <2>2 DEF WriteChecks
<1>4. CASE WriteSucceeds
  BY <1>4 DEF WriteSucceeds
<1>5. CASE WriteFails
  BY <1>5 DEF WriteFails
<1>6. CASE Schedules
  <2> DEFINE o == writing.output
  <2>1. o \in Outputs /\ attempts[o] \in 0 .. MaxReconnectAttempts
    BY <1>6 DEF Schedules
  <2>2. CASE MayReconnect(o)
    <3>1. attempts[o] + 1 \in 1 .. MaxReconnectAttempts
      BY <2>1, <2>2 DEF MayReconnect
    <3>2. writing' \in Tasks
      BY <1>6, <2>1, <2>2, <3>1 DEF Schedules
    <3>3. attempts' \in [Outputs -> 0 .. MaxReconnectAttempts]
      BY <1>6, <2>1, <2>2, <3>1 DEF Schedules
    <3>4. writing' \in [output : Outputs, attempt : 0 .. MaxReconnectAttempts]
      BY <3>2
    <3>5. write_pc' = "enqueue"
      BY <1>6, <2>2 DEF Schedules
    <3>. QED  BY <1>6, <3>2, <3>3, <3>4, <3>5 DEF Schedules
  <2>3. CASE ~MayReconnect(o)
    BY <1>6, <2>3 DEF Schedules
  <2>. QED  BY <2>2, <2>3
<1>7. CASE Enqueues
  BY <1>7 DEF Enqueues
<1>. QED  BY <1>1, <1>2, <1>3, <1>4, <1>5, <1>6, <1>7 DEF Write

LEMMA WorkerTypes ==
    ASSUME TypeInv, NEW w \in Workers, Reconnects(w)
    PROVE  TypeInv'
<1> USE DEF TypeInv, TypeOK, Workers, Attempts, Task, Tasks, WorkerGoto,
            output_vars, worker_vars, life_vars, write_vars, handler_vars
<1>1. CASE WorkerExits(w)
  BY <1>1 DEF WorkerExits
<1>2. CASE WorkerTakes(w)
  <2>1. Head(queue) \in Tasks \cup {Sentinel} /\ queue' \in Seq(Tasks \cup {Sentinel})
    BY <1>2 DEF WorkerTakes
  <2>2. UNCHANGED <<output_vars, life_vars, write_vars, handler_vars>>
    BY <1>2 DEF WorkerTakes
  <2>3. CASE Head(queue) = Sentinel \/ stop_event
    <3>1. worker_pc' = [worker_pc EXCEPT ![w] = "exited"] /\ worker_task' = worker_task
      BY <1>2, <2>3 DEF WorkerTakes
    <3>. QED  BY <2>1, <2>2, <3>1
  <2>4. CASE Head(queue) # Sentinel /\ ~stop_event
    <3>1. /\ worker_pc' = [worker_pc EXCEPT ![w] = "check"]
          /\ worker_task' = [worker_task EXCEPT ![w] = Head(queue)]
      BY <1>2, <2>4 DEF WorkerTakes
    <3>2. Head(queue) \in Tasks
      BY <2>1, <2>4
    <3>3. worker_task' \in [Workers -> Tasks \cup {Sentinel}]
      BY <3>1, <3>2
    <3>4. \A v \in Workers : /\ v # w => /\ worker_task'[v] = worker_task[v]
                                          /\ worker_pc'[v] = worker_pc[v]
                             /\ v = w => worker_task'[v] \in Tasks
      BY <3>1, <3>2
    <3>. QED  BY <2>1, <2>2, <3>1, <3>3, <3>4
  <2>. QED  BY <2>3, <2>4
<1>3. CASE WorkerChecks(w)
  <2>1. PICK pc \in {"stop", "poll"} : worker_pc' = [worker_pc EXCEPT ![w] = pc]
    BY <1>3 DEF WorkerChecks
  <2>2. /\ UNCHANGED <<output_vars, queue, worker_task, life_vars, write_vars, handler_vars>>
        /\ worker_task[w] \in Tasks
    BY <1>3 DEF WorkerChecks
  <2>. QED  BY <2>1, <2>2
<1>4. CASE WorkerStops(w)
  <2>1. /\ up' \in [Outputs -> BOOLEAN] /\ worker_task[w] \in Tasks
        /\ \E pc \in {"start", "mark"} : worker_pc' = [worker_pc EXCEPT ![w] = pc]
    BY <1>4 DEF WorkerStops
  <2>2. UNCHANGED <<present, known, errors, attempts, queue, worker_task,
                    life_vars, write_vars, handler_vars>>
    BY <1>4 DEF WorkerStops
  <2>. QED  BY <2>1, <2>2
<1>5. CASE WorkerStarts(w)
  <2>1. /\ up' \in [Outputs -> BOOLEAN] /\ worker_task[w] \in Tasks
        /\ \E pc \in {"start", "mark"} : worker_pc' = [worker_pc EXCEPT ![w] = pc]
    BY <1>5 DEF WorkerStarts
  <2>2. UNCHANGED <<present, known, errors, attempts, queue, worker_task,
                    life_vars, write_vars, handler_vars>>
    BY <1>5 DEF WorkerStarts
  <2>. QED  BY <2>1, <2>2
<1>6. CASE WorkerStartFails(w)
  BY <1>6 DEF WorkerStartFails
<1>7. CASE WorkerMarks(w)
  BY <1>7 DEF WorkerMarks
<1>8. CASE WorkerRetries(w)
  <2> DEFINE o == worker_task[w].output
             k == worker_task[w].attempt
  <2>1. o \in Outputs /\ k \in 1 .. MaxReconnectAttempts
    BY <1>8 DEF WorkerRetries
  <2>2. worker_pc' = [worker_pc EXCEPT ![w] = "poll"]
    BY <1>8 DEF WorkerRetries
  <2>3. CASE AnotherAttempt(k)
    <3>1. k + 1 \in 1 .. MaxReconnectAttempts
      BY <2>1, <2>3 DEF AnotherAttempt
    <3>2. Task(o, k + 1) \in Tasks
      BY <2>1, <3>1
    <3>3. attempts' = [attempts EXCEPT ![o] = k] /\ queue' = Append(queue, Task(o, k + 1))
      BY <1>8, <2>3 DEF WorkerRetries
    <3>4. queue' \in Seq(Tasks \cup {Sentinel})
      BY <3>2, <3>3
    <3>5. attempts' \in [Outputs -> 0 .. MaxReconnectAttempts]
      BY <2>1, <3>3
    <3>6. UNCHANGED <<present, known, up, errors, worker_task, life_vars, write_vars,
                      handler_vars>>
      BY <1>8 DEF WorkerRetries
    <3>. QED  BY <2>2, <3>4, <3>5, <3>6
  <2>4. CASE ~AnotherAttempt(k)
    BY <1>8, <2>2, <2>4 DEF WorkerRetries
  <2>. QED  BY <2>3, <2>4
<1>. QED  BY <1>1, <1>2, <1>3, <1>4, <1>5, <1>6, <1>7, <1>8 DEF Reconnects

LEMMA StepTypeInv == TypeInv /\ [Next]_vars => TypeInv'
<1> SUFFICES ASSUME TypeInv, [Next]_vars PROVE TypeInv'
  OBVIOUS
<1> USE DEF TypeInv, TypeOK, output_vars, worker_vars, life_vars, write_vars, handler_vars
<1>1. CASE AddOutput
  <2>1. PICK o \in Outputs \ known :
           /\ present' = present \cup {o} /\ known' = known \cup {o}
           /\ errors' = [errors EXCEPT ![o] = FALSE]
           /\ attempts' = [attempts EXCEPT ![o] = 0]
           /\ up' = [up EXCEPT ![o] = FALSE]
           /\ adding' = o
    BY <1>1 DEF AddOutput
  <2>2. attempts' \in [Outputs -> 0 .. MaxReconnectAttempts]
    BY <2>1
  <2>. QED  BY <1>1, <2>1, <2>2 DEF AddOutput
<1>5. CASE AddedStarts
  BY <1>5 DEF AddedStarts
<1>2. CASE RemoveOutput
  <2>1. attempts' \in [Outputs -> 0 .. MaxReconnectAttempts]
    BY <1>2 DEF RemoveOutput
  <2>. QED  BY <1>2, <2>1 DEF RemoveOutput
<1>4. CASE Reconfigure
  BY <1>4 DEF Reconfigure
<1>6. CASE ConfigureOutput
  <2>3. PICK o \in to_configure, failing \in BOOLEAN :
           /\ to_configure' = to_configure \ {o}
           /\ errors' = [errors EXCEPT ![o] = failing]
           /\ overwritten' = IF errors[o] /\ ~failing THEN overwritten \cup {o}
                                                      ELSE overwritten
    BY <1>6 DEF ConfigureOutput
  <2>1. /\ errors' \in [Outputs -> BOOLEAN]
        /\ to_configure' \subseteq Outputs /\ overwritten' \subseteq Outputs
    BY <2>3
  <2>2. UNCHANGED <<present, known, up, attempts, queue, worker_vars, life_vars,
                    write_vars, adding, reconfigures>>
    BY <1>6 DEF ConfigureOutput
  <2>. QED  BY <2>1, <2>2
<1>3. CASE UNCHANGED vars
  BY <1>3 DEF vars
<1>. QED  BY <1>1, <1>2, <1>3, <1>4, <1>5, <1>6, LifecycleTypes, WriteTypes, WorkerTypes
          DEF Next, Handlers

(* Every reachable state is well typed; in particular no reconnection is ever
   numbered above the maximum. *)
THEOREM TypeCorrect == Spec => []TypeOK
<1>1. Spec => []TypeInv
  BY InitTypeInv, StepTypeInv, PTL DEF Spec
<1>2. TypeInv => TypeOK
  BY DEF TypeInv
<1>. QED  BY <1>1, <1>2, PTL

-----------------------------------------------------------------------------
(* Without a worker that outlives the join of stop. *)

(* The only worker alive is the one of this start, until stop has joined it. *)
WorkersJoined ==
    \A w \in Workers :
        Live(w) => \/ w = worker /\ life = "up"
                   \/ w = joining /\ life \in {"flag", "join"}

(* From the flag on, a worker in the middle of a restart works on an output that
   stop is still going to stop, or on one that was removed; every other output
   is down. *)
GoingDown ==
    /\ \A w \in Workers : worker_pc[w] \in {"stop", "start"}
                            => worker_task[w].output \in known
    /\ life = "join" =>
         /\ stopped
         /\ \A w \in Workers : worker_pc[w] \in {"stop", "start"}
               => worker_task[w].output \in to_stop \/ worker_task[w].output \notin present
    /\ life \in {"join", "halt"} => \A o \in present : o \in to_stop \/ ~up[o]
    /\ StoppedIsDown

LEMMA StepJoined ==
    ASSUME WorkersJoined, TypeInv, [Next]_vars, "worker_lingers" \notin Disturbances
    PROVE  WorkersJoined'
<1> USE DEF WorkersJoined, TypeInv, TypeOK, Live, WorkerGoto, output_vars,
            worker_vars, life_vars, write_vars, handler_vars
<1>1. CASE Lifecycle
  <2>1. CASE StartOutputs
    BY <1>1, <2>1 DEF StartOutputs
  <2>2. CASE StartWorker
    <3>1. \A w \in Workers : ~Live(w)
      BY <2>2 DEF StartWorker
    <3>2. worker' = starts /\ worker_pc' = [worker_pc EXCEPT ![starts] = "poll"] /\ life' = "up"
      BY <2>2, <3>1 DEF StartWorker
    <3>3. starts \in Workers
      BY <2>2 DEF StartWorker
    <3>4. \A v \in Workers : v # starts => worker_pc'[v] = worker_pc[v]
      BY <3>2, <3>3
    <3>5. \A v \in Workers : Live(v)' => v = worker'
      BY <3>1, <3>2, <3>4
    <3>. QED  BY <3>2, <3>5
  <2>3. CASE StopSignals
    BY <1>1, <2>3 DEF StopSignals
  <2>4. CASE StopFlags
    BY <1>1, <2>4 DEF StopFlags
  <2>5. CASE StopJoins
    BY <1>1, <2>5 DEF StopJoins, WorkerJoined
  <2>6. CASE StopOutput
    BY <1>1, <2>6 DEF StopOutput
  <2>7. CASE StopEnds
    BY <1>1, <2>7 DEF StopEnds
  <2>8. CASE PipelineStarts \/ InitializeFails
    BY <1>1, <2>8 DEF PipelineStarts, InitializeFails
  <2>. QED  BY <1>1, <2>1, <2>2, <2>3, <2>4, <2>5, <2>6, <2>7, <2>8 DEF Lifecycle
<1>2. ASSUME NEW w \in Workers, Reconnects(w) PROVE WorkersJoined'
  <2>1. CASE WorkerExits(w)
    BY <2>1 DEF WorkerExits
  <2>2. CASE WorkerTakes(w)
    BY <2>2 DEF WorkerTakes
  <2>3. CASE WorkerChecks(w)
    BY <2>3 DEF WorkerChecks
  <2>4. CASE WorkerStops(w)
    BY <2>4 DEF WorkerStops
  <2>5. CASE WorkerStarts(w)
    BY <2>5 DEF WorkerStarts
  <2>6. CASE WorkerStartFails(w)
    BY <2>6 DEF WorkerStartFails
  <2>7. CASE WorkerMarks(w)
    BY <2>7 DEF WorkerMarks
  <2>8. CASE WorkerRetries(w)
    BY <2>8 DEF WorkerRetries
  <2>. QED  BY <1>2, <2>1, <2>2, <2>3, <2>4, <2>5, <2>6, <2>7, <2>8 DEF Reconnects
<1>3. CASE Write
  BY <1>3 DEF Write, WriteBegins, WriteEnds, WriteChecks, WriteSucceeds,
              WriteFails, Schedules, Enqueues
<1>4. CASE Handlers
  BY <1>4 DEF Handlers, AddOutput, AddedStarts, RemoveOutput, Reconfigure, ConfigureOutput
<1>5. CASE UNCHANGED vars
  BY <1>5 DEF vars
<1>. QED  BY <1>1, <1>2, <1>3, <1>4, <1>5 DEF Next

LEMMA StepGoingDown ==
    ASSUME WorkersJoined, GoingDown, TypeInv, [Next]_vars,
           "worker_lingers" \notin Disturbances
    PROVE  GoingDown'
<1> USE DEF WorkersJoined, GoingDown, StoppedIsDown, TypeInv, TypeOK, Live,
            WorkerGoto, output_vars, worker_vars, life_vars, write_vars, handler_vars
<1>1. CASE Lifecycle
  <2>1. CASE StartOutputs
    BY <1>1, <2>1 DEF StartOutputs
  <2>2. CASE StartWorker
    BY <1>1, <2>2 DEF StartWorker
  <2>3. CASE StopSignals
    BY <1>1, <2>3 DEF StopSignals
  <2>4. CASE StopFlags
    BY <1>1, <2>4 DEF StopFlags
  <2>5. CASE StopJoins
    BY <1>1, <2>5 DEF StopJoins, WorkerJoined
  <2>6. CASE StopOutput
    BY <1>1, <2>6 DEF StopOutput
  <2>7. CASE StopEnds
    BY <1>1, <2>7 DEF StopEnds
  <2>8. CASE PipelineStarts \/ InitializeFails
    BY <1>1, <2>8 DEF PipelineStarts, InitializeFails
  <2>. QED  BY <1>1, <2>1, <2>2, <2>3, <2>4, <2>5, <2>6, <2>7, <2>8 DEF Lifecycle
<1>2. ASSUME NEW w \in Workers, Reconnects(w) PROVE GoingDown'
  <2>1. CASE WorkerExits(w)
    BY <2>1 DEF WorkerExits
  <2>2. CASE WorkerTakes(w)
    BY <2>2 DEF WorkerTakes
  <2>3. CASE WorkerChecks(w)
    BY <2>3 DEF WorkerChecks, MayRevive
  <2>4. CASE WorkerStops(w)
    BY <2>4 DEF WorkerStops
  <2>5. CASE WorkerStarts(w)
    BY <2>5 DEF WorkerStarts
  <2>6. CASE WorkerStartFails(w)
    BY <2>6 DEF WorkerStartFails
  <2>7. CASE WorkerMarks(w)
    BY <2>7 DEF WorkerMarks
  <2>8. CASE WorkerRetries(w)
    BY <2>8 DEF WorkerRetries
  <2>. QED  BY <1>2, <2>1, <2>2, <2>3, <2>4, <2>5, <2>6, <2>7, <2>8 DEF Reconnects
<1>3. CASE Write
  BY <1>3 DEF Write, WriteBegins, WriteEnds, WriteChecks, WriteSucceeds,
              WriteFails, Schedules, Enqueues
<1>4. CASE AddOutput
  <2>1. PICK o \in Outputs \ known :
           /\ present' = present \cup {o} /\ known' = known \cup {o}
           /\ up' = [up EXCEPT ![o] = FALSE]
    BY <1>4 DEF AddOutput
  <2>2. UNCHANGED <<worker_vars, life_vars>>
    BY <1>4 DEF AddOutput
  <2>3. up'[o] = FALSE /\ \A q \in Outputs \ {o} : up'[q] = up[q]
    BY <2>1
  <2>. QED  BY <2>1, <2>2, <2>3
<1>7. CASE AddedStarts
  <2>1. UNCHANGED <<present, known, worker_vars, life_vars>>
    BY <1>7 DEF AddedStarts
  <2>2. life \in {"starting", "spawn", "up"} \/ up' = up
    <3>1. PICK running \in BOOLEAN, failing \in BOOLEAN :
             PipelineRuns(running) /\ up' = [up EXCEPT ![adding] = @ \/ (running /\ ~failing)]
      BY <1>7 DEF AddedStarts
    <3>2. CASE running
      BY <3>1, <3>2 DEF PipelineRuns
    <3>3. CASE ~running
      BY <3>1, <3>3
    <3>. QED  BY <3>1, <3>2, <3>3
  <2>. QED  BY <2>1, <2>2
<1>5. CASE RemoveOutput
  BY <1>5 DEF RemoveOutput
<1>8. CASE Reconfigure \/ ConfigureOutput
  BY <1>8 DEF Reconfigure, ConfigureOutput
<1>6. CASE UNCHANGED vars
  BY <1>6 DEF vars
<1>. QED  BY <1>1, <1>2, <1>3, <1>4, <1>5, <1>6, <1>7, <1>8 DEF Next, Handlers

LEMMA JoinedStop ==
    ASSUME "worker_lingers" \notin Disturbances
    PROVE  Spec => [](TypeInv /\ WorkersJoined /\ GoingDown)
<1>1. Init => WorkersJoined /\ GoingDown
  BY DEF Init, WorkersJoined, GoingDown, StoppedIsDown, Live
<1>2. TypeInv /\ WorkersJoined /\ GoingDown /\ [Next]_vars
        => (TypeInv /\ WorkersJoined /\ GoingDown)'
  BY StepTypeInv, StepJoined, StepGoingDown
<1>. QED  BY <1>1, <1>2, InitTypeInv, PTL DEF Spec

(* If stop's join does wait for the worker, an output of a stopped composite is
   down, whatever was being reconnected, added, removed or reconfigured, an output
   added and started before the composite itself included. *)
THEOREM StoppedStaysDown ==
    ASSUME "worker_lingers" \notin Disturbances
    PROVE  Spec => []StoppedIsDown
<1>1. GoingDown => StoppedIsDown
  BY DEF GoingDown
<1>. QED  BY <1>1, JoinedStop, PTL

(* And there is one reconnection worker at a time, over all restarts. *)
THEOREM ReconnectorIsUnique ==
    ASSUME "worker_lingers" \notin Disturbances
    PROVE  Spec => []OneReconnector
<1>1. WorkersJoined => OneReconnector
  BY DEF WorkersJoined, OneReconnector, Live
<1>. QED  BY <1>1, JoinedStop, PTL

-----------------------------------------------------------------------------
(* The first life: one reconnection for each output. *)

Queued(o) == \E i \in 1 .. Len(queue) : queue[i].output = o
Busy(w) == worker_pc[w] \in {"check", "stop", "start", "mark", "failed"}
Worked(o) == \E w \in Workers : Busy(w) /\ worker_task[w].output = o
Scheduled(o) == write_pc \in {"schedule", "enqueue"} /\ writing.output = o
Quiet(o) == ~Queued(o) /\ ~Worked(o) /\ ~Scheduled(o)
Single(o) ==
    /\ \A i, j \in 1 .. Len(queue) :
          queue[i].output = o /\ queue[j].output = o => i = j
    /\ ~(Queued(o) /\ Worked(o)) /\ ~(Queued(o) /\ Scheduled(o))
    /\ ~(Worked(o) /\ Scheduled(o))

(* Whatever is queued, taken or written names an output that is or was present. *)
NamesKnown ==
    /\ Configured \subseteq known /\ to_write \subseteq known
    /\ \A i \in 1 .. Len(queue) : queue[i].output \in known \cup {"none"}
    /\ \A w \in Workers : worker_task[w].output \in known \cup {"none"}
    /\ writing.output \in known \cup {"none"}

(* The worker of a start is not there before it, and nothing is written or
   queued before the first one. *)
BeforeStarts ==
    /\ \A w \in Workers : worker_pc[w] # "none" => w <= starts
    /\ starts = 0 => /\ life \notin {"spawn", "up"} /\ write_pc = "none"
                     /\ \A i \in 1 .. Len(queue) : queue[i].output = "none"

(* In the first life an output without an error has no reconnection outstanding,
   nor has the one that is being written to; and the others have one at most. *)
OneEach ==
    FirstLife => \A o \in present \ overwritten :
        /\ Single(o)
        /\ ~errors[o] => Quiet(o)
        /\ write_pc = "write" /\ writing.output = o => Quiet(o)

(* An output that the worker has restarted is up until its error is cleared. *)
HealthyInv ==
    FirstLife /\ life \in {"spawn", "up"} =>
        /\ \A o \in (present \cap Configured) \ overwritten : ~errors[o] => up[o]
        /\ \A w \in Workers :
              worker_pc[w] = "mark" /\ worker_task[w].output \in present
                => up[worker_task[w].output]

FirstInv == NamesKnown /\ BeforeStarts /\ OneEach /\ HealthyInv

LEMMA QueueAppended ==
    ASSUME queue \in Seq(Tasks \cup {Sentinel}), NEW t \in Tasks \cup {Sentinel},
           queue' = Append(queue, t)
    PROVE  /\ Len(queue) \in Nat /\ Len(queue') = Len(queue) + 1
           /\ \A i \in 1 .. Len(queue) : queue'[i] = queue[i]
           /\ queue'[Len(queue) + 1] = t
           /\ \A o : Queued(o)' <=> Queued(o) \/ o = t.output
<1>1. /\ Len(queue) \in Nat /\ Len(queue') = Len(queue) + 1
      /\ \A i \in 1 .. Len(queue) : queue'[i] = queue[i]
      /\ queue'[Len(queue) + 1] = t
  OBVIOUS
<1>2. ASSUME NEW o PROVE Queued(o)' <=> Queued(o) \/ o = t.output
  BY <1>1 DEF Queued
<1>. QED  BY <1>1, <1>2

LEMMA QueueTaken ==
    ASSUME queue \in Seq(Tasks \cup {Sentinel}), queue # <<>>, queue' = Tail(queue)
    PROVE  /\ Len(queue) \in Nat \ {0} /\ Len(queue') = Len(queue) - 1
           /\ \A i \in 1 .. Len(queue) - 1 : queue'[i] = queue[i + 1]
           /\ queue[1] = Head(queue)
           /\ \A o : Queued(o) <=> Queued(o)' \/ o = Head(queue).output
<1>1. /\ Len(queue) \in Nat \ {0} /\ Len(queue') = Len(queue) - 1
      /\ \A i \in 1 .. Len(queue) - 1 : queue'[i] = queue[i + 1]
      /\ queue[1] = Head(queue)
  OBVIOUS
<1>2. ASSUME NEW o PROVE Queued(o) <=> Queued(o)' \/ o = Head(queue).output
  <2>1. ASSUME Queued(o)' PROVE Queued(o)
    BY <1>1, <2>1 DEF Queued
  <2>2. ASSUME o = Head(queue).output PROVE Queued(o)
    BY <1>1, <2>2 DEF Queued
  <2>3. ASSUME Queued(o), o # Head(queue).output PROVE Queued(o)'
    <3>1. PICK i \in 1 .. Len(queue) : queue[i].output = o
      BY <2>3 DEF Queued
    <3>2. i # 1
      BY <1>1, <2>3, <3>1
    <3>3. i - 1 \in 1 .. Len(queue') /\ queue'[i - 1] = queue[i]
      BY <1>1, <3>2
    <3>. QED  BY <3>1, <3>3 DEF Queued
  <2>. QED  BY <2>1, <2>2, <2>3
<1>. QED  BY <1>1, <1>2

LEMMA InitFirst == Init => FirstInv
<1> SUFFICES ASSUME Init PROVE FirstInv
  OBVIOUS
<1> USE DEF Init
<1>1. NamesKnown
  BY DEF NamesKnown, Sentinel, Task
<1>2. BeforeStarts
  BY DEF BeforeStarts, Workers
<1>3. OneEach
  BY DEF OneEach, Single, Quiet, Queued, Worked, Scheduled, Busy
<1>4. HealthyInv
  BY DEF HealthyInv
<1>. QED  BY <1>1, <1>2, <1>3, <1>4 DEF FirstInv

(* The start and the stop of the composite. *)
LEMMA LifecycleFirst ==
    ASSUME TypeInv, FirstInv, Lifecycle
    PROVE  FirstInv'
<1> USE DEF FirstInv, output_vars, worker_vars, life_vars, write_vars, handler_vars
<1>1. CASE StartOutputs
  <2>1. PICK failing \in SUBSET Outputs :
           /\ up' = [o \in Outputs |->
                       IF o \in present THEN o \notin failing ELSE up[o]]
           /\ errors' = StartErrors(failing)
    BY <1>1 DEF StartOutputs, TypeInv, TypeOK
  <2>2. /\ life = "starting" /\ life' = "spawn" /\ starts' = starts + 1 /\ starts \in Nat
        /\ UNCHANGED <<present, known, queue, worker_vars, write_vars, handler_vars>>
    BY <1>1 DEF StartOutputs, TypeInv, TypeOK
  <2>3. NamesKnown'
    BY <2>2 DEF NamesKnown
  <2>4. BeforeStarts'
    BY <2>2 DEF BeforeStarts, Workers
  <2>5. ASSUME FirstLife'
        PROVE  /\ starts = 0 /\ write_pc = "none" /\ \A w \in Workers : worker_pc[w] = "none"
               /\ \A i \in 1 .. Len(queue) : queue[i].output = "none"
    BY <2>2, <2>5 DEF FirstLife, BeforeStarts, Workers, TypeInv, TypeOK
  <2>6. OneEach'
    <3> SUFFICES ASSUME FirstLife' PROVE \A o \in present : Quiet(o)'
      BY <2>2 DEF OneEach, Single, Quiet, Queued
    <3> QED  BY <2>2, <2>5 DEF Quiet, Queued, Worked, Scheduled, Busy, TypeInv, TypeOK
  <2>7. HealthyInv'
    <3> SUFFICES ASSUME FirstLife' PROVE \A o \in present : ~errors'[o] => up'[o]
      BY <2>2, <2>5 DEF HealthyInv
    <3> QED  BY <2>1, <2>2 DEF StartErrors, TypeInv, TypeOK
  <2>. QED  BY <2>3, <2>4, <2>6, <2>7
<1>2. CASE StartWorker
  <2>1. /\ life = "spawn" /\ life' = "up" /\ starts \in Workers
        /\ UNCHANGED <<output_vars, queue, worker_task, starts, write_vars, handler_vars>>
    BY <1>2 DEF StartWorker, TypeInv
  <2>2. worker_pc' = worker_pc \/ worker_pc' = [worker_pc EXCEPT ![starts] = "poll"]
    BY <1>2 DEF StartWorker, WorkerGoto
  <2>3. \A w \in Workers : worker_pc'[w] = worker_pc[w] \/ (w = starts /\ worker_pc'[w] = "poll")
    BY <2>1, <2>2 DEF TypeInv, TypeOK
  <2>4. NamesKnown'
    BY <2>1 DEF NamesKnown
  <2>5. BeforeStarts'
    BY <2>1, <2>3 DEF BeforeStarts, Workers
  <2>6. OneEach'
    BY <2>1, <2>3 DEF OneEach, Single, Quiet, Queued, Worked, Scheduled, Busy, FirstLife
  <2>7. HealthyInv'
    BY <2>1, <2>3 DEF HealthyInv, FirstLife
  <2>. QED  BY <2>4, <2>5, <2>6, <2>7
<1>3. CASE StopSignals
  <2>1. /\ queue' = Append(queue, Sentinel) /\ life' = "flag"
        /\ UNCHANGED <<output_vars, worker_vars, starts, write_vars, handler_vars>>
    BY <1>3 DEF StopSignals
  <2>7. queue \in Seq(Tasks \cup {Sentinel}) /\ Sentinel.output = "none"
    BY DEF TypeInv, TypeOK, Sentinel, Task
  <2>2. /\ Len(queue) \in Nat /\ Len(queue') = Len(queue) + 1
        /\ \A i \in 1 .. Len(queue) : queue'[i] = queue[i]
        /\ queue'[Len(queue) + 1].output = "none"
        /\ \A o \in Outputs : Queued(o)' <=> Queued(o)
    BY <2>1, <2>7, QueueAppended
  <2>3. NamesKnown'
    BY <2>1, <2>2 DEF NamesKnown
  <2>4. BeforeStarts'
    BY <2>1, <2>2 DEF BeforeStarts, TypeInv
  <2>5. OneEach'
    BY <2>1, <2>2 DEF OneEach, Single, Quiet, Worked, Scheduled, Busy, FirstLife, TypeInv, TypeOK
  <2>6. HealthyInv'
    BY <2>1 DEF HealthyInv
  <2>. QED  BY <2>3, <2>4, <2>5, <2>6
<1>4. ASSUME StopFlags \/ StopJoins \/ StopOutput \/ StopEnds \/ PipelineStarts
             \/ InitializeFails
      PROVE  FirstInv'
  <2>1. /\ life' \notin {"spawn", "up"}
        /\ UNCHANGED <<present, known, errors, queue, worker_vars, starts, write_vars,
                       handler_vars>>
    BY <1>4 DEF StopFlags, StopJoins, StopOutput, StopEnds, PipelineStarts, InitializeFails
  <2>3. NamesKnown'
    BY <2>1 DEF NamesKnown
  <2>4. BeforeStarts'
    BY <2>1 DEF BeforeStarts
  <2>5. OneEach'
    BY <2>1 DEF OneEach, Single, Quiet, Queued, Worked, Scheduled, Busy, FirstLife
  <2>6. HealthyInv'
    BY <2>1 DEF HealthyInv
  <2>. QED  BY <2>3, <2>4, <2>5, <2>6
<1>. QED  BY <1>1, <1>2, <1>3, <1>4 DEF Lifecycle

(* The writing thread. *)
LEMMA WriteFirst ==
    ASSUME TypeInv, FirstInv, Write
    PROVE  FirstInv'
<1> USE DEF FirstInv, output_vars, worker_vars, life_vars, write_vars, handler_vars
<1>1. UNCHANGED <<present, known, up, worker_vars, life, starts, handler_vars>>
  BY DEF Write, WriteBegins, WriteEnds, WriteChecks, WriteSucceeds, WriteFails,
         Schedules, Enqueues
<1>2. starts # 0
  <2>1. write_pc # "none" \/ life = "up"
    BY DEF Write, WriteBegins, WriteEnds, WriteChecks, WriteSucceeds, WriteFails,
           Schedules, Enqueues
  <2>. QED  BY <2>1 DEF BeforeStarts
<1>3. BeforeStarts'
  BY <1>1, <1>2 DEF BeforeStarts
<1>4. CASE WriteBegins \/ WriteEnds \/ WriteSucceeds
  <2>1. UNCHANGED <<errors, queue>> /\ to_write' \in {to_write, present}
        /\ writing' \in {writing, Sentinel} /\ Sentinel.output = "none"
        /\ write_pc \notin {"schedule", "enqueue"} /\ write_pc' \in {"next", "none"}
    BY <1>4 DEF WriteBegins, WriteEnds, WriteSucceeds, Sentinel, Task
  <2>2. NamesKnown'
    BY <1>1, <2>1 DEF NamesKnown, TypeInv, TypeOK
  <2>3. OneEach'
    BY <1>1, <2>1 DEF OneEach, Single, Quiet, Queued, Worked, Scheduled, Busy, FirstLife
  <2>4. HealthyInv'
    BY <1>1, <2>1 DEF HealthyInv, FirstLife
  <2>. QED  BY <1>3, <2>2, <2>3, <2>4
<1>5. CASE WriteChecks
  <2>1. PICK o \in to_write :
           /\ to_write' = to_write \ {o}
           /\ IF Skipped(o) THEN UNCHANGED <<write_pc, writing>>
                            ELSE write_pc' = "write" /\ writing' = Task(o, 0)
    BY <1>5 DEF WriteChecks
  <2>2. UNCHANGED <<errors, queue>> /\ write_pc = "next" /\ Task(o, 0).output = o
    BY <1>5 DEF WriteChecks, Task
  <2>3. NamesKnown'
    BY <1>1, <2>1, <2>2 DEF NamesKnown
  <2>4. OneEach'
    BY <1>1, <2>1, <2>2 DEF OneEach, Single, Quiet, Queued, Worked, Scheduled,
                            Busy, FirstLife, Skipped
  <2>5. HealthyInv'
    BY <1>1, <2>2 DEF HealthyInv, FirstLife
  <2>. QED  BY <1>3, <2>3, <2>4, <2>5
<1>6. CASE WriteFails
  <2>1. /\ errors' = [errors EXCEPT ![writing.output] = TRUE]
        /\ UNCHANGED <<queue, to_write, writing>> /\ write_pc = "write" /\ write_pc' = "schedule"
    BY <1>6 DEF WriteFails
  <2>2. NamesKnown'
    BY <1>1, <2>1 DEF NamesKnown
  <2>6. \A o \in Outputs : (errors[o] => errors'[o]) /\ (o # writing.output => errors'[o] = errors[o])
    BY <2>1 DEF TypeInv, TypeOK
  <2>7. \A o \in Outputs : o = writing.output => errors'[o]
    BY <2>1 DEF TypeInv, TypeOK
  <2>3. OneEach'
    <3> SUFFICES ASSUME FirstLife, NEW o \in present \ overwritten
                 PROVE  Single(o)' /\ (~errors'[o] => Quiet(o)')
      BY <1>1, <2>1 DEF OneEach, FirstLife
    <3>1. (Queued(o)' <=> Queued(o)) /\ (Worked(o)' <=> Worked(o))
      BY <1>1, <2>1 DEF Queued, Worked, Busy
    <3>2. Scheduled(o)' <=> writing.output = o
      BY <2>1 DEF Scheduled
    <3>3. ~Scheduled(o) /\ o \in Outputs
      BY <2>1 DEF Scheduled, TypeInv, TypeOK
    <3>4. CASE o = writing.output
      BY <2>1, <2>7, <3>1, <3>2, <3>3, <3>4 DEF OneEach, Single, Quiet
    <3>5. CASE o # writing.output
      BY <2>1, <2>6, <3>1, <3>2, <3>3, <3>5 DEF OneEach, Single, Quiet
    <3>. QED  BY <3>4, <3>5
  <2>4. HealthyInv'
    BY <1>1, <2>1, <2>6 DEF HealthyInv, FirstLife, TypeInv, TypeOK
  <2>. QED  BY <1>3, <2>2, <2>3, <2>4
<1>7. CASE Schedules
  <2>1. /\ UNCHANGED <<errors, queue, to_write>> /\ write_pc = "schedule"
        /\ write_pc' \in {"next", "enqueue"}
        /\ \/ writing'.output = writing.output
           \/ writing'.output = "none" /\ write_pc' = "next"
    BY <1>7 DEF Schedules, Task, Sentinel
  <2>2. NamesKnown'
    BY <1>1, <2>1 DEF NamesKnown
  <2>3. OneEach'
    BY <1>1, <2>1 DEF OneEach, Single, Quiet, Queued, Worked, Scheduled, Busy, FirstLife
  <2>4. HealthyInv'
    BY <1>1, <2>1 DEF HealthyInv, FirstLife
  <2>. QED  BY <1>3, <2>2, <2>3, <2>4
<1>8. CASE Enqueues
  <2>1. /\ UNCHANGED <<errors, to_write>> /\ queue' = Append(queue, writing)
        /\ write_pc = "enqueue" /\ write_pc' = "next"
        /\ writing' = Sentinel /\ Sentinel.output = "none"
    BY <1>8 DEF Enqueues, Sentinel, Task
  <2>5. /\ Len(queue) \in Nat /\ Len(queue') = Len(queue) + 1
        /\ \A i \in 1 .. Len(queue) : queue'[i] = queue[i]
        /\ queue'[Len(queue) + 1] = writing
        /\ \A o \in Outputs : Queued(o)' <=> Queued(o) \/ o = writing.output
    BY <2>1, QueueAppended DEF TypeInv, TypeOK
  <2>2. NamesKnown'
    BY <1>1, <2>1, <2>5 DEF NamesKnown
  <2>3. OneEach'
    <3> SUFFICES ASSUME FirstLife, NEW o \in present \ overwritten
                 PROVE  Single(o)' /\ (~errors[o] => Quiet(o)')
      BY <1>1, <2>1 DEF OneEach, FirstLife
    <3>1. (Worked(o)' <=> Worked(o)) /\ ~Scheduled(o)' /\ (Scheduled(o) <=> writing.output = o)
      BY <1>1, <2>1 DEF Worked, Busy, Scheduled
    <3>2. Queued(o)' <=> Queued(o) \/ Scheduled(o)
      BY <2>5, <3>1 DEF TypeInv, TypeOK
    <3>3. Single(o) /\ (~errors[o] => Quiet(o))
      BY DEF OneEach
    <3>4. ASSUME NEW i \in 1 .. Len(queue'), NEW j \in 1 .. Len(queue'),
                 queue'[i].output = o, queue'[j].output = o
          PROVE  i = j
      <4>1. CASE Scheduled(o)
        BY <2>5, <3>3, <3>4, <4>1 DEF Single, Queued
      <4>2. CASE ~Scheduled(o)
        BY <2>5, <3>1, <3>3, <3>4, <4>2 DEF Single
      <4>. QED  BY <4>1, <4>2
    <3>. QED  BY <3>1, <3>2, <3>3, <3>4 DEF Single, Quiet
  <2>4. HealthyInv'
    BY <1>1, <2>1 DEF HealthyInv, FirstLife
  <2>. QED  BY <1>3, <2>2, <2>3, <2>4
<1>. QED  BY <1>4, <1>5, <1>6, <1>7, <1>8 DEF Write

(* The worker. In the first life there is one, so that what it does to its output
   is not undone by another. *)
LEMMA WorkerFirst ==
    ASSUME TypeInv, FirstInv, NEW w \in Workers, Reconnects(w)
    PROVE  FirstInv'
<1> DEFINE o == worker_task[w].output
<1> USE DEF FirstInv, output_vars, worker_vars, life_vars, write_vars, handler_vars
<1>1. /\ UNCHANGED <<present, known, life, starts, write_vars, handler_vars>>
      /\ worker_pc[w] # "none"
      /\ \E pc : worker_pc' = [worker_pc EXCEPT ![w] = pc]
  BY DEF Reconnects, WorkerExits, WorkerTakes, WorkerChecks, WorkerStops, WorkerStarts,
         WorkerStartFails, WorkerMarks, WorkerRetries, WorkerGoto
<1>2. \A v \in Workers : v # w => worker_pc'[v] = worker_pc[v]
  BY <1>1 DEF TypeInv, TypeOK
<1>3. starts # 0 /\ starts \in Nat
  BY <1>1 DEF BeforeStarts, Workers, TypeInv, TypeOK
<1>4. BeforeStarts'
  BY <1>1, <1>2, <1>3 DEF BeforeStarts
<1>5. ASSUME FirstLife
      PROVE  \A v \in Workers : v # w => worker_pc[v] = "none" /\ worker_pc'[v] = "none"
  BY <1>1, <1>2, <1>3, <1>5 DEF FirstLife, BeforeStarts, Workers
<1>6. ASSUME FirstLife, NEW q PROVE Worked(q) <=> Busy(w) /\ worker_task[w].output = q
  BY <1>5, <1>6 DEF Worked, Busy
<1>7. ASSUME FirstLife, NEW q PROVE Worked(q)' <=> Busy(w)' /\ worker_task'[w].output = q
  BY <1>5, <1>7 DEF Worked, Busy
<1>8. \A q : Scheduled(q)' <=> Scheduled(q)
  BY <1>1 DEF Scheduled
<1>9. \A p \in {"none", "poll", "check", "stop", "start", "mark", "failed", "exited"} :
         worker_pc' = [worker_pc EXCEPT ![w] = p] => worker_pc'[w] = p
  BY DEF TypeInv, TypeOK
<1>10. FirstLife' <=> FirstLife
  BY <1>1 DEF FirstLife
<1>11. CASE WorkerExits(w)
  <2>1. /\ worker_pc[w] = "poll" /\ worker_pc'[w] = "exited"
        /\ UNCHANGED <<up, errors, queue, worker_task>>
    BY <1>9, <1>11 DEF WorkerExits, WorkerGoto
  <2>2. NamesKnown'
    BY <1>1, <2>1 DEF NamesKnown
  <2>3. OneEach'
    BY <1>1, <1>6, <1>7, <1>8, <1>10, <2>1 DEF OneEach, Single, Quiet, Queued, Busy
  <2>4. HealthyInv'
    BY <1>1, <1>2, <1>10, <2>1 DEF HealthyInv
  <2>. QED  BY <1>4, <2>2, <2>3, <2>4
<1>12. CASE WorkerTakes(w)
  <2>1. /\ worker_pc[w] = "poll" /\ queue # <<>> /\ queue' = Tail(queue)
        /\ UNCHANGED <<up, errors>>
    BY <1>12 DEF WorkerTakes
  <2>2. /\ Len(queue) \in Nat \ {0} /\ Len(queue') = Len(queue) - 1
        /\ \A i \in 1 .. Len(queue) - 1 : queue'[i] = queue[i + 1]
        /\ queue[1] = Head(queue)
        /\ \A q : Queued(q) <=> Queued(q)' \/ q = Head(queue).output
    BY <2>1, QueueTaken DEF TypeInv, TypeOK
  <2>3. \/ worker_pc'[w] = "exited" /\ worker_task' = worker_task
        \/ /\ worker_pc'[w] = "check" /\ worker_task'[w] = Head(queue)
           /\ \A v \in Workers : v # w => worker_task'[v] = worker_task[v]
    BY <1>9, <1>12 DEF WorkerTakes, WorkerGoto, TypeInv, TypeOK
  <2>4. NamesKnown'
    <3>1. Head(queue).output \in known \cup {"none"}
      BY <2>2 DEF NamesKnown
    <3>. QED  BY <1>1, <2>2, <2>3, <3>1 DEF NamesKnown
  <2>5. OneEach'
    <3> SUFFICES ASSUME FirstLife, NEW q \in present \ overwritten
                 PROVE  /\ Single(q)' /\ (~errors[q] => Quiet(q)')
                        /\ write_pc = "write" /\ writing.output = q => Quiet(q)'
      BY <1>1, <1>10, <2>1 DEF OneEach
    <3>1. ~Worked(q) /\ (Worked(q)' => q = Head(queue).output)
      BY <1>6, <1>7, <2>1, <2>3 DEF Busy
    <3>2. ASSUME NEW i \in 1 .. Len(queue'), NEW j \in 1 .. Len(queue'),
                 queue'[i].output = q, queue'[j].output = q
          PROVE  i = j
      <4>1. i + 1 \in 1 .. Len(queue) /\ j + 1 \in 1 .. Len(queue) /\ i \in Nat /\ j \in Nat
        BY <2>2
      <4>2. queue[i + 1].output = q /\ queue[j + 1].output = q
        BY <2>2, <3>2
      <4>. QED  BY <4>1, <4>2 DEF OneEach, Single
    <3>3. ASSUME q = Head(queue).output PROVE ~Queued(q)'
      <4>1. ASSUME NEW i \in 1 .. Len(queue'), queue'[i].output = q PROVE FALSE
        <5>1. i + 1 \in 1 .. Len(queue) /\ queue[i + 1].output = q /\ 1 \in 1 .. Len(queue)
              /\ queue[1].output = q /\ i \in Nat \ {0}
          BY <2>2, <3>3, <4>1
        <5>. QED  BY <5>1 DEF OneEach, Single
      <4>. QED  BY <4>1 DEF Queued
    <3>4. Queued(q)' \/ Worked(q)' => Queued(q)
      BY <2>2, <3>1
    <3>5. Single(q) /\ (~errors[q] => Quiet(q))
          /\ (write_pc = "write" /\ writing.output = q => Quiet(q))
      BY DEF OneEach
    <3>. QED  BY <1>8, <3>1, <3>2, <3>3, <3>4, <3>5 DEF Single, Quiet
  <2>6. HealthyInv'
    <3>1. worker_pc'[w] # "mark" /\ (FirstLife => \A v \in Workers : worker_pc'[v] # "mark")
      BY <1>5, <2>3
    <3>. QED  BY <1>1, <1>10, <2>1, <3>1 DEF HealthyInv
  <2>. QED  BY <1>4, <2>4, <2>5, <2>6
<1>13. CASE WorkerChecks(w)
  <2>1. /\ worker_pc[w] = "check" /\ worker_pc'[w] \in {"stop", "poll"}
        /\ UNCHANGED <<up, errors, queue, worker_task>>
    BY <1>9, <1>13 DEF WorkerChecks, WorkerGoto
  <2>2. NamesKnown'
    BY <1>1, <2>1 DEF NamesKnown
  <2>3. OneEach'
    BY <1>1, <1>6, <1>7, <1>8, <1>10, <2>1 DEF OneEach, Single, Quiet, Queued, Busy
  <2>4. HealthyInv'
    BY <1>1, <1>2, <1>10, <2>1 DEF HealthyInv
  <2>. QED  BY <1>4, <2>2, <2>3, <2>4
<1>14. CASE WorkerStops(w) \/ WorkerStarts(w) \/ WorkerStartFails(w)
  <2>1. /\ Busy(w) /\ Busy(w)' /\ worker_pc[w] # "mark"
        /\ UNCHANGED <<errors, queue, worker_task>>
    BY <1>9, <1>14 DEF WorkerStops, WorkerStarts, WorkerStartFails, WorkerGoto, Busy
  <2>2. NamesKnown'
    BY <1>1, <2>1 DEF NamesKnown
  <2>3. OneEach'
    BY <1>1, <1>6, <1>7, <1>8, <1>10, <2>1 DEF OneEach, Single, Quiet, Queued
  <2>5. /\ \A q \in Outputs : q # o => up'[q] = up[q]
        /\ worker_pc'[w] = "mark" /\ o \in Outputs => up'[o]
    BY <1>9, <1>14 DEF WorkerStops, WorkerStarts, WorkerStartFails, WorkerGoto, TypeInv, TypeOK
  <2>4. HealthyInv'
    <3> SUFFICES ASSUME FirstLife, life \in {"spawn", "up"}
                 PROVE  /\ \A q \in (present \cap Configured) \ overwritten : ~errors[q] => up'[q]
                        /\ \A v \in Workers :
                              worker_pc'[v] = "mark" /\ worker_task[v].output \in present
                                => up'[worker_task[v].output]
      BY <1>1, <1>10, <2>1 DEF HealthyInv
    <3>1. ASSUME NEW q \in (present \cap Configured) \ overwritten, ~errors[q] PROVE up'[q]
      <4>1. q # o
        BY <1>6, <2>1, <3>1 DEF OneEach, Quiet
      <4>. QED  BY <2>5, <3>1, <4>1 DEF HealthyInv, TypeInv, TypeOK
    <3>2. ASSUME NEW v \in Workers, worker_pc'[v] = "mark", worker_task[v].output \in present
          PROVE  up'[worker_task[v].output]
      BY <1>5, <2>5, <3>2 DEF TypeInv, TypeOK
    <3>. QED  BY <3>1, <3>2
  <2>. QED  BY <1>4, <2>2, <2>3, <2>4
<1>15. CASE WorkerMarks(w)
  <2>1. /\ worker_pc[w] = "mark" /\ worker_pc'[w] = "poll"
        /\ errors' = [errors EXCEPT ![o] = FALSE]
        /\ UNCHANGED <<up, queue, worker_task>>
    BY <1>9, <1>15 DEF WorkerMarks, WorkerGoto
  <2>2. NamesKnown'
    BY <1>1, <2>1 DEF NamesKnown
  <2>5. \A q \in Outputs : q # o => errors'[q] = errors[q]
    BY <2>1 DEF TypeInv, TypeOK
  <2>3. OneEach'
    <3> SUFFICES ASSUME FirstLife, NEW q \in present \ overwritten
                 PROVE  /\ Single(q)' /\ (~errors'[q] => Quiet(q)')
                        /\ write_pc = "write" /\ writing.output = q => Quiet(q)'
      BY <1>1, <1>10, <2>1 DEF OneEach
    <3>1. Busy(w) /\ ~Busy(w)' /\ (Queued(q)' <=> Queued(q))
      BY <2>1 DEF Busy, Queued
    <3>2. ~Worked(q)' /\ (Worked(q) <=> q = o)
      BY <1>6, <1>7, <3>1
    <3>3. Single(q) /\ (~errors[q] => Quiet(q))
          /\ (write_pc = "write" /\ writing.output = q => Quiet(q))
      BY DEF OneEach
    <3>4. Single(q)'
      BY <1>8, <2>1, <3>1, <3>2, <3>3 DEF Single
    <3>5. q = o => Quiet(q)'
      BY <1>8, <3>1, <3>2, <3>3 DEF Single, Quiet
    <3>6. Quiet(q) => Quiet(q)'
      BY <1>8, <3>1, <3>2 DEF Quiet
    <3>. QED  BY <2>5, <3>3, <3>4, <3>5, <3>6 DEF TypeInv, TypeOK
  <2>4. HealthyInv'
    <3> SUFFICES ASSUME FirstLife, life \in {"spawn", "up"}
                 PROVE  /\ \A q \in (present \cap Configured) \ overwritten : ~errors'[q] => up[q]
                        /\ \A v \in Workers :
                              worker_pc'[v] = "mark" /\ worker_task[v].output \in present
                                => up[worker_task[v].output]
      BY <1>1, <1>10, <2>1 DEF HealthyInv
    <3>1. o \in present => up[o]
      BY <2>1 DEF HealthyInv
    <3>2. \A q \in (present \cap Configured) \ overwritten : ~errors'[q] => up[q]
      BY <2>5, <3>1 DEF HealthyInv, TypeInv, TypeOK
    <3>3. \A v \in Workers : worker_pc'[v] # "mark"
      BY <1>5, <2>1
    <3>. QED  BY <3>2, <3>3
  <2>. QED  BY <1>4, <2>2, <2>3, <2>4
<1>16. CASE WorkerRetries(w)
  <2> DEFINE k == worker_task[w].attempt
  <2>1. /\ worker_pc[w] = "failed" /\ worker_pc'[w] = "poll"
        /\ UNCHANGED <<up, errors, worker_task>>
    BY <1>9, <1>16 DEF WorkerRetries, WorkerGoto
  <2>6. Busy(w) /\ ~Busy(w)'
    BY <2>1 DEF Busy
  <2>4. HealthyInv'
    BY <1>1, <1>2, <1>10, <2>1 DEF HealthyInv
  <2>7. CASE ~AnotherAttempt(k)
    <3>1. queue' = queue
      BY <1>16, <2>7 DEF WorkerRetries
    <3>2. NamesKnown'
      BY <1>1, <2>1, <3>1 DEF NamesKnown
    <3>3. OneEach'
      BY <1>1, <1>6, <1>7, <1>8, <1>10, <2>1, <2>6, <3>1 DEF OneEach, Single, Quiet, Queued
    <3>. QED  BY <1>4, <2>4, <3>2, <3>3
  <2>8. CASE AnotherAttempt(k)
    <3>1. o \in Outputs /\ Task(o, k + 1) \in Tasks /\ Task(o, k + 1).output = o
      <4>1. worker_task[w] \in Tasks
        BY <2>1 DEF TypeInv, TypeOK
      <4>. QED  BY <2>8, <4>1 DEF AnotherAttempt, Tasks, Task, Attempts
    <3>2. queue' = Append(queue, Task(o, k + 1))
      BY <1>16, <2>8 DEF WorkerRetries
    <3> HIDE DEF o, k
    <3>3. /\ Len(queue) \in Nat /\ Len(queue') = Len(queue) + 1
          /\ \A i \in 1 .. Len(queue) : queue'[i] = queue[i]
          /\ queue'[Len(queue) + 1].output = o
          /\ \A q : Queued(q)' <=> Queued(q) \/ q = o
      BY <3>1, <3>2, QueueAppended DEF TypeInv, TypeOK
    <3>4. NamesKnown'
      <4>1. o \in known
        BY <3>1 DEF NamesKnown, o
      <4>. QED  BY <1>1, <2>1, <3>3, <4>1 DEF NamesKnown
    <3>5. OneEach'
      <4> SUFFICES ASSUME FirstLife, NEW q \in present \ overwritten
                   PROVE  /\ Single(q)' /\ (~errors[q] => Quiet(q)')
                          /\ write_pc = "write" /\ writing.output = q => Quiet(q)'
        BY <1>1, <1>10, <2>1 DEF OneEach
      <4>1. ~Worked(q)' /\ (Worked(q) <=> q = o)
        BY <1>6, <1>7, <2>6 DEF o
      <4>2. Queued(q)' <=> Queued(q) \/ Worked(q)
        BY <3>3, <4>1
      <4>3. Single(q) /\ (~errors[q] => Quiet(q))
            /\ (write_pc = "write" /\ writing.output = q => Quiet(q))
        BY DEF OneEach
      <4>4. ASSUME NEW i \in 1 .. Len(queue'), NEW j \in 1 .. Len(queue'),
                   queue'[i].output = q, queue'[j].output = q
            PROVE  i = j
        <5>1. CASE Worked(q)
          BY <3>3, <4>3, <4>4, <5>1 DEF Single, Queued
        <5>2. CASE ~Worked(q)
          BY <3>3, <4>1, <4>3, <4>4, <5>2 DEF Single
        <5>. QED  BY <5>1, <5>2
      <4>. QED  BY <1>8, <4>1, <4>2, <4>3, <4>4 DEF Single, Quiet
    <3>. QED  BY <1>4, <2>4, <3>4, <3>5
  <2>. QED  BY <2>7, <2>8
<1>. QED  BY <1>11, <1>12, <1>13, <1>14, <1>15, <1>16 DEF Reconnects

(* The handlers. *)
LEMMA HandlersFirst ==
    ASSUME TypeInv, FirstInv, Handlers
    PROVE  FirstInv'
<1> USE DEF FirstInv, worker_vars, life_vars, write_vars, handler_vars
<1>1. UNCHANGED <<queue, worker_vars, life, starts, write_vars>>
  BY DEF Handlers, AddOutput, AddedStarts, RemoveOutput, Reconfigure, ConfigureOutput
<1>2. BeforeStarts'
  BY <1>1 DEF BeforeStarts
<1>3. \A q : /\ (Queued(q)' <=> Queued(q)) /\ (Worked(q)' <=> Worked(q))
             /\ (Scheduled(q)' <=> Scheduled(q)) /\ (Single(q)' <=> Single(q))
  BY <1>1 DEF Queued, Worked, Scheduled, Single, Busy
<1>4. FirstLife' <=> FirstLife
  BY <1>1 DEF FirstLife
<1>5. CASE AddOutput
  <2>1. PICK o \in Outputs \ known :
           /\ present' = present \cup {o} /\ known' = known \cup {o}
           /\ errors' = [errors EXCEPT ![o] = FALSE]
           /\ up' = [up EXCEPT ![o] = FALSE]
    BY <1>5 DEF AddOutput
  <2>2. /\ \A q \in Outputs : q # o => errors'[q] = errors[q] /\ up'[q] = up[q]
        /\ present \subseteq known /\ known \subseteq Outputs /\ overwritten' = overwritten
    BY <1>5, <2>1 DEF AddOutput, TypeInv, TypeOK
  <2>3. NamesKnown'
    BY <1>1, <2>1 DEF NamesKnown
  <2>4. Quiet(o) /\ Single(o) /\ writing.output # o /\ \A w \in Workers : worker_task[w].output # o
    BY <2>1 DEF NamesKnown, Quiet, Queued, Worked, Scheduled, Single
  <2>5. OneEach'
    BY <1>1, <1>3, <1>4, <2>1, <2>2, <2>4 DEF OneEach, Quiet
  <2>6. o \notin Configured
    BY <2>1 DEF NamesKnown
  <2>7. HealthyInv'
    BY <1>1, <1>4, <2>1, <2>2, <2>4, <2>6 DEF HealthyInv
  <2>. QED  BY <1>2, <2>3, <2>5, <2>7
<1>6. CASE RemoveOutput
  <2>1. PICK o \in present :
           /\ present' = present \ {o} /\ known' = known
           /\ errors' = [errors EXCEPT ![o] = FALSE]
           /\ up' = [up EXCEPT ![o] = FALSE]
    BY <1>6 DEF RemoveOutput
  <2>2. overwritten' = overwritten /\ \A q \in present' : /\ q # o /\ q \in present
                            /\ errors'[q] = errors[q] /\ up'[q] = up[q]
    BY <1>6, <2>1 DEF RemoveOutput, TypeInv, TypeOK
  <2>3. NamesKnown'
    BY <1>1, <2>1 DEF NamesKnown
  <2>5. OneEach'
    BY <1>1, <1>3, <1>4, <2>2 DEF OneEach, Quiet
  <2>7. HealthyInv'
    BY <1>1, <1>4, <2>2 DEF HealthyInv
  <2>. QED  BY <1>2, <2>3, <2>5, <2>7
<1>7. CASE AddedStarts
  <2>1. /\ UNCHANGED <<present, known, errors, overwritten>>
        /\ \E value : up' = [up EXCEPT ![adding] = up[adding] \/ value]
    BY <1>7 DEF AddedStarts
  <2>2. \A q \in Outputs : up[q] => up'[q]
    BY <2>1 DEF TypeInv, TypeOK
  <2>3. NamesKnown'
    BY <1>1, <2>1 DEF NamesKnown
  <2>4. OneEach'
    BY <1>1, <1>3, <1>4, <2>1 DEF OneEach, Quiet
  <2>5. HealthyInv'
    BY <1>1, <1>4, <2>1, <2>2 DEF HealthyInv, TypeInv, TypeOK
  <2>. QED  BY <1>2, <2>3, <2>4, <2>5
<1>8. CASE Reconfigure
  <2>1. UNCHANGED <<present, known, up, errors, overwritten>>
    BY <1>8 DEF Reconfigure, output_vars
  <2>2. NamesKnown' /\ OneEach' /\ HealthyInv'
    BY <1>1, <1>3, <1>4, <2>1 DEF NamesKnown, OneEach, Quiet, HealthyInv
  <2>. QED  BY <1>2, <2>2
<1>9. CASE ConfigureOutput
  <2>1. PICK o \in to_configure, failing \in BOOLEAN :
           /\ errors' = [errors EXCEPT ![o] = failing]
           /\ overwritten' = IF errors[o] /\ ~failing THEN overwritten \cup {o}
                                                      ELSE overwritten
    BY <1>9 DEF ConfigureOutput
  <2>2. UNCHANGED <<present, known, up>>
    BY <1>9 DEF ConfigureOutput
  <2>3. ASSUME NEW q \in Outputs, q \notin overwritten'
        PROVE  q \notin overwritten /\ (~errors'[q] => ~errors[q])
    BY <2>1, <2>3 DEF TypeInv, TypeOK
  <2>4. NamesKnown'
    BY <1>1, <2>2 DEF NamesKnown
  <2>5. OneEach'
    BY <1>1, <1>3, <1>4, <2>2, <2>3 DEF OneEach, Quiet, TypeInv, TypeOK
  <2>6. HealthyInv'
    BY <1>1, <1>4, <2>2, <2>3 DEF HealthyInv, TypeInv, TypeOK
  <2>. QED  BY <1>2, <2>4, <2>5, <2>6
<1>. QED  BY <1>5, <1>6, <1>7, <1>8, <1>9 DEF Handlers

LEMMA FirstHolds == Spec => [](TypeInv /\ FirstInv)
<1>1. ASSUME TypeInv, FirstInv, UNCHANGED vars PROVE FirstInv'
  BY <1>1 DEF FirstInv, NamesKnown, BeforeStarts, OneEach, HealthyInv, Single, Quiet,
              Queued, Worked, Scheduled, Busy, FirstLife, vars, output_vars,
              worker_vars, life_vars, write_vars, handler_vars
<1>2. ASSUME TypeInv, FirstInv, [Next]_vars PROVE FirstInv'
  BY <1>1, <1>2, LifecycleFirst, WriteFirst, WorkerFirst, HandlersFirst DEF Next
<1>3. TypeInv /\ FirstInv /\ [Next]_vars => (TypeInv /\ FirstInv)'
  BY <1>2, StepTypeInv
<1>. QED  BY <1>3, InitTypeInv, InitFirst, PTL DEF Spec

LEMMA AtMostOne ==
    ASSUME NEW S, \A x, y \in S : x = y
    PROVE  Cardinality(S) \in {0, 1} /\ (S = {} => Cardinality(S) = 0)
<1>1. CASE S = {}
  BY <1>1, FS_EmptySet
<1>2. CASE S # {}
  <2>1. PICK x : S = {x}
    BY <1>2
  <2>. QED  BY <2>1, FS_Singleton
<1>. QED  BY <1>1, <1>2

LEMMA OutstandingOnce ==
    ASSUME TypeInv, FirstInv, FirstLife, NEW o \in present \ overwritten
    PROVE  Outstanding(o) <= 1
<1> DEFINE inQueue == {i \in 1 .. Len(queue) : queue[i].output = o}
           inWorker == {w \in Workers : /\ worker_pc[w] \in {"check", "stop", "start", "mark", "failed"}
                                        /\ worker_task[w].output = o}
<1>1. Single(o)
  BY DEF FirstInv, OneEach
<1>2. \A i, j \in inQueue : i = j
  BY <1>1 DEF Single
<1>3. \A v, w \in inWorker : v = w
  <2> SUFFICES ASSUME NEW v \in inWorker, NEW w \in inWorker PROVE v = w
    OBVIOUS
  <2>1. v \in Workers /\ w \in Workers /\ worker_pc[v] # "none" /\ worker_pc[w] # "none"
    OBVIOUS
  <2>2. v <= starts /\ w <= starts /\ starts <= 1 /\ starts \in Nat
    BY <2>1 DEF FirstInv, BeforeStarts, FirstLife, TypeInv, TypeOK
  <2>. QED  BY <2>1, <2>2 DEF Workers
<1>4. Cardinality(inQueue) \in {0, 1} /\ (inQueue = {} => Cardinality(inQueue) = 0)
  <2> HIDE DEF inQueue
  <2> QED  BY <1>2, AtMostOne
<1>5. Cardinality(inWorker) \in {0, 1} /\ (inWorker = {} => Cardinality(inWorker) = 0)
  <2> HIDE DEF inWorker
  <2> QED  BY <1>3, AtMostOne
<1>6. inQueue = {} <=> ~Queued(o)
  BY DEF Queued
<1>7. inWorker = {} <=> ~Worked(o)
  BY DEF Worked, Busy
<1>8. Outstanding(o) = Cardinality(inQueue) + Cardinality(inWorker)
                         + (IF Scheduled(o) THEN 1 ELSE 0)
  BY DEF Outstanding, Scheduled
<1> HIDE DEF inQueue, inWorker
<1>. QED  BY <1>1, <1>4, <1>5, <1>6, <1>7, <1>8 DEF Single

(* In the first life of the composite no output has two reconnections under way,
   between write, the queue, the worker and its retries, whatever goes wrong:
   the restart of an output is never started by two parties, and its attempts are
   not used up twice as fast. The outputs whose message configure_outputs has
   cleared are the only ones left out. *)
THEOREM OneReconnectionEach == Spec => []OneTaskPerOutput
<1>1. TypeInv /\ FirstInv => OneTaskPerOutput
  BY OutstandingOnce DEF OneTaskPerOutput
<1>. QED  BY <1>1, FirstHolds, PTL

(* And an output of the configuration that shows no error is started, so that
   write never hands a chunk to one that is down, unless configure_outputs has
   cleared the error. *)
THEOREM HealthyOutputsAreUp == Spec => []HealthyIsUp
<1>1. TypeInv /\ FirstInv => HealthyIsUp
  BY DEF HealthyIsUp, FirstInv, HealthyInv
<1>. QED  BY <1>1, FirstHolds, PTL

-----------------------------------------------------------------------------
(* Before the first stop: what makes the worker of a later life deaf, a stop event
   or a sentinel left in the queue, is not there yet. *)
Serving ==
    /\ stop_event = FALSE /\ queue \in Seq(Tasks)
    /\ life \in {"down", "starting", "failed", "spawn", "up"}
    /\ life \in {"down", "starting", "failed"} => starts = 0
    /\ life # "up" => \A w \in Workers : worker_pc[w] = "none"
    /\ life = "up" => Live(worker)

ServingInv == stops = 0 => Serving

LEMMA TaskIsNoSentinel == \A t \in Tasks : t # Sentinel
  BY DEF Tasks, Sentinel, Task

LEMMA LifecycleServing ==
    ASSUME TypeInv, ServingInv, Lifecycle
    PROVE  ServingInv'
<1> SUFFICES ASSUME stops' = 0 PROVE Serving'
  BY DEF ServingInv
<1> USE DEF Serving, Live, Workers, output_vars, worker_vars, life_vars, write_vars, handler_vars
<1>1. CASE StartOutputs
  BY <1>1 DEF StartOutputs, ServingInv
<1>2. CASE StartWorker
  <2>1. /\ Serving /\ life = "spawn" /\ life' = "up" /\ starts \in Workers
        /\ UNCHANGED <<queue, stop_event>>
        /\ worker_pc \in [Workers -> {"none", "poll", "check", "stop", "start",
                                       "mark", "failed", "exited"}]
    BY <1>2 DEF StartWorker, ServingInv, TypeInv, TypeOK
  <2>2. \A w \in Workers : ~Live(w)
    BY <2>1
  <2>3. worker' = starts /\ worker_pc' = [worker_pc EXCEPT ![starts] = "poll"]
    BY <1>2, <2>2 DEF StartWorker, WorkerGoto
  <2>. QED  BY <2>1, <2>3
<1>3. CASE StopSignals
  BY <1>3 DEF StopSignals, TypeInv, TypeOK
<1>4. CASE StopFlags \/ StopJoins \/ StopOutput \/ StopEnds
  BY <1>4 DEF StopFlags, StopJoins, StopOutput, StopEnds, ServingInv
<1>5. CASE PipelineStarts \/ InitializeFails
  BY <1>5 DEF PipelineStarts, InitializeFails, ServingInv
<1>. QED  BY <1>1, <1>2, <1>3, <1>4, <1>5 DEF Lifecycle

LEMMA WriteServing ==
    ASSUME TypeInv, ServingInv, Write
    PROVE  ServingInv'
<1> SUFFICES ASSUME stops = 0, Serving PROVE Serving'
  BY DEF ServingInv, Write, WriteBegins, WriteEnds, WriteChecks, WriteSucceeds, WriteFails,
         Schedules, Enqueues, life_vars
<1>1. UNCHANGED <<worker_vars, life_vars>>
  BY DEF Write, WriteBegins, WriteEnds, WriteChecks, WriteSucceeds, WriteFails, Schedules, Enqueues
<1>2. queue' \in Seq(Tasks)
  <2>1. CASE Enqueues
    <3>1. writing \in Tasks /\ queue \in Seq(Tasks) /\ queue' = Append(queue, writing)
      BY <2>1 DEF Enqueues, TypeInv, TypeOK, Serving
    <3>. QED  BY <3>1
  <2>2. CASE ~Enqueues
    BY <2>2 DEF Write, WriteBegins, WriteEnds, WriteChecks, WriteSucceeds, WriteFails, Schedules,
                Serving
  <2>. QED  BY <2>1, <2>2
<1>. QED  BY <1>1, <1>2 DEF Serving, Live, worker_vars, life_vars

LEMMA WorkerServing ==
    ASSUME TypeInv, ServingInv, NEW w \in Workers, Reconnects(w)
    PROVE  ServingInv'
<1>1. UNCHANGED life_vars
  BY DEF Reconnects, WorkerExits, WorkerTakes, WorkerChecks, WorkerStops, WorkerStarts,
         WorkerStartFails, WorkerMarks, WorkerRetries
<1> SUFFICES ASSUME stops = 0, Serving PROVE Serving'
  BY <1>1 DEF ServingInv, life_vars
<1>2. /\ worker_pc[w] # "none" /\ stop_event = FALSE /\ queue \in Seq(Tasks)
      /\ worker_pc \in [Workers -> {"none", "poll", "check", "stop", "start",
                                     "mark", "failed", "exited"}]
  BY DEF Serving, TypeInv, TypeOK, Reconnects, WorkerExits, WorkerTakes, WorkerChecks,
         WorkerStops, WorkerStarts, WorkerStartFails, WorkerMarks, WorkerRetries
<1>3. CASE WorkerTakes(w)
  <2>1. Head(queue) \in Tasks /\ queue' \in Seq(Tasks)
    BY <1>2, <1>3 DEF WorkerTakes
  <2>2. worker_pc' = [worker_pc EXCEPT ![w] = "check"]
    BY <1>2, <1>3, <2>1, TaskIsNoSentinel DEF WorkerTakes, WorkerGoto
  <2>. QED  BY <1>1, <1>2, <2>1, <2>2 DEF Serving, Live, life_vars
<1>4. CASE WorkerRetries(w)
  <2> DEFINE o == worker_task[w].output
             k == worker_task[w].attempt
  <2>1. worker_task[w] \in Tasks
    BY <1>4 DEF WorkerRetries, TypeInv, TypeOK
  <2>2. k \in Nat /\ k >= 1 /\ o \in Outputs
    BY <2>1 DEF Tasks, Attempts
  <2>3. queue' \in Seq(Tasks)
    <3>1. CASE AnotherAttempt(k)
      <4>1. Task(o, k + 1) \in Tasks
        BY <2>2, <3>1 DEF AnotherAttempt, Task, Tasks, Attempts
      <4>2. queue' = Append(queue, Task(o, k + 1))
        BY <1>4, <3>1 DEF WorkerRetries
      <4>. QED  BY <1>2, <4>1, <4>2
    <3>2. CASE ~AnotherAttempt(k)
      BY <1>2, <1>4, <3>2 DEF WorkerRetries
    <3>. QED  BY <3>1, <3>2
  <2>4. worker_pc' = [worker_pc EXCEPT ![w] = "poll"]
    BY <1>4 DEF WorkerRetries, WorkerGoto
  <2>. QED  BY <1>1, <1>2, <2>3, <2>4 DEF Serving, Live, life_vars
<1>5. CASE ~WorkerTakes(w) /\ ~WorkerRetries(w)
  <2>1. PICK pc \in {"poll", "stop", "start", "mark", "failed"} :
           worker_pc' = [worker_pc EXCEPT ![w] = pc]
    BY <1>2, <1>5 DEF Reconnects, WorkerExits, WorkerChecks, WorkerStops, WorkerStarts,
                WorkerStartFails, WorkerMarks, WorkerGoto
  <2>2. queue' = queue
    BY <1>5 DEF Reconnects, WorkerExits, WorkerChecks, WorkerStops, WorkerStarts,
                WorkerStartFails, WorkerMarks
  <2>. QED  BY <1>1, <1>2, <2>1, <2>2 DEF Serving, Live, life_vars
<1>. QED  BY <1>3, <1>4, <1>5

(* Before the first stop the composite is never deaf: while it is up its worker lives, and
   nothing it can find in the queue or in the stop event would end it. *)
WorkerServes ==
    stops = 0 /\ life = "up" =>
        /\ Live(worker) /\ ~stop_event
        /\ \A i \in 1 .. Len(queue) : queue[i] # Sentinel

(* WorkerServes, for any number of outputs, failures, writes and outputs added, removed and
   reconfigured.
   Of ReconnectsHappen it is the part that is not about fairness, and it shows that only a
   stop can leave what breaks it. *)
THEOREM FirstWorkerServes == Spec => []WorkerServes
<1>1. Init => ServingInv
  BY DEF Init, ServingInv, Serving, Live
<1>2. TypeInv /\ ServingInv /\ [Next]_vars => ServingInv'
  <2> SUFFICES ASSUME TypeInv, ServingInv, [Next]_vars PROVE ServingInv'
    OBVIOUS
  <2>1. CASE Handlers
    <3>1. UNCHANGED <<queue, worker_vars, life_vars>>
      BY <2>1 DEF Handlers, AddOutput, AddedStarts, RemoveOutput, Reconfigure, ConfigureOutput
    <3>. QED  BY <3>1 DEF ServingInv, Serving, Live, worker_vars, life_vars
  <2>3. CASE UNCHANGED vars
    BY <2>3 DEF vars, ServingInv, Serving, Live, worker_vars, life_vars
  <2>. QED  BY <2>1, <2>3, LifecycleServing, WriteServing, WorkerServing DEF Next
<1>3. ServingInv => WorkerServes
  <2> SUFFICES ASSUME Serving, life = "up" PROVE WorkerServes
    BY DEF ServingInv, WorkerServes
  <2>1. \A i \in 1 .. Len(queue) : queue[i] \in Tasks
    BY DEF Serving
  <2>. QED  BY <2>1, TaskIsNoSentinel DEF WorkerServes, Serving
<1>. QED  BY <1>1, <1>2, <1>3, InitTypeInv, StepTypeInv, PTL DEF Spec
=============================================================================
