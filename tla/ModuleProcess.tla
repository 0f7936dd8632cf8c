--------------------------- MODULE ModuleProcess ---------------------------
(* BaseModule.process of core/module_base.py: the threads of a strategy call it
   on one module, without a lock, and share its circuit breaker and its state.
   It never raises: a chunk that cannot be processed is passed on unchanged and
   the module is degraded. *)
EXTENDS CircuitBreaker, FiniteSets

CONSTANTS
    Threads,        \* the threads that process chunks
    max_retries,    \* of the retry strategy
    is_critical     \* of the module

ASSUME MaxRetriesAssumption == max_retries \in Nat
ASSUME CriticalAssumption == is_critical \in BOOLEAN

VARIABLES
    module_state,           \* self._state; "running" once start has returned
    consecutive_failures,   \* self._consecutive_failures, counted up to
                            \* DegradeAfter
    pc,                     \* per thread, its call of process
    attempt,                \* per thread, the attempt it is at
    failures                \* attempts that failed, at most MaxFailures (bound)

thread_vars == <<pc, attempt, failures>>
module_vars == <<module_state, consecutive_failures>>
vars == <<breaker_vars, module_vars, thread_vars>>

DegradeAfter == 3

Init ==
    /\ BreakerInit
    /\ module_state = "running" /\ consecutive_failures = 0
    /\ pc = [t \in Threads |-> "none"]
    /\ attempt = [t \in Threads |-> 0]
    /\ failures = 0

Goto(t, step) == pc' = [pc EXCEPT ![t] = step]
Idle == \A t \in Threads : pc[t] = "none"

(* In the error state the circuit is read first. *)
Enter(t) ==
    /\ pc[t] = "none"
    /\ IF module_state = "error"
         THEN /\ Observe
              /\ Goto(t, IF Observed = "open" THEN "degrade" ELSE "admit")
         ELSE UNCHANGED breaker_vars /\ Goto(t, "admit")
    /\ UNCHANGED <<module_vars, attempt, failures>>

(* can_execute reads the state under the lock ... *)
Admit(t) ==
    /\ pc[t] = "admit"
    /\ Observe
    /\ Goto(t, CASE Observed = "closed" -> "work"
                 [] Observed = "half_open" -> "count"
                 [] Observed = "open" -> "degrade")
    /\ attempt' = [attempt EXCEPT ![t] = 0]
    /\ UNCHANGED <<module_vars, failures>>

(* A call on trial is counted when it ends, in record_success. *)
CountTrial == UNCHANGED breaker_vars

(* ... and, for a half-open circuit, the calls under the lock again. *)
Count(t) ==
    /\ pc[t] = "count"
    /\ Goto(t, IF HalfOpenMayExecute THEN "work" ELSE "degrade")
    /\ CountTrial
    /\ UNCHANGED <<module_vars, attempt, failures>>

(* _do_process returns. *)
WorkSucceeds(t) ==
    /\ pc[t] = "work"
    /\ record_success
    /\ Goto(t, "recover")
    /\ UNCHANGED <<module_vars, attempt, failures>>

(* Mutated form: a degraded module stays degraded. *)
Recovered_Never == module_state
Recovered == IF module_state = "degraded" THEN "running" ELSE module_state

Recover(t) ==
    /\ pc[t] = "recover"
    /\ module_state' = Recovered
    /\ consecutive_failures' = 0
    /\ Goto(t, "none")
    /\ UNCHANGED <<breaker_vars, attempt, failures>>

MayRetry(k) == k < max_retries

(* It raises: another attempt follows without asking the circuit again. *)
WorkFails(t) ==
    /\ pc[t] = "work" /\ failures < MaxFailures
    /\ failures' = failures + 1
    /\ record_failure
    /\ IF MayRetry(attempt[t])
         THEN attempt' = [attempt EXCEPT ![t] = @ + 1] /\ UNCHANGED pc
         ELSE Goto(t, "error") /\ UNCHANGED attempt
    /\ UNCHANGED module_vars

AfterError == "degrade"

(* All attempts failed: the error state, and degraded if the module is not
   critical and it is the third chunk in a row. *)
SetError(t) ==
    LET n == IF consecutive_failures < DegradeAfter THEN consecutive_failures + 1
                                                    ELSE DegradeAfter IN
    /\ pc[t] = "error"
    /\ consecutive_failures' = n
    /\ module_state' = IF ~is_critical /\ n = DegradeAfter THEN "degraded" ELSE "error"
    /\ Goto(t, AfterError)
    /\ UNCHANGED <<breaker_vars, attempt, failures>>

(* _degraded_process, critical or not. *)
Degrade(t) ==
    /\ pc[t] = "degrade"
    /\ module_state' = "degraded"
    /\ Goto(t, "none")
    /\ UNCHANGED <<breaker_vars, consecutive_failures, attempt, failures>>

Process(t) ==
    \/ Enter(t) \/ Admit(t) \/ Count(t) \/ WorkSucceeds(t) \/ Recover(t)
    \/ WorkFails(t) \/ SetError(t) \/ Degrade(t)

(* The pipeline is stopped and started: the module's stop and start set its
   state and do not touch its breaker; reset_error, which does, has no caller. *)
Restart ==
    /\ Idle
    /\ module_state' = "running"
    /\ UNCHANGED <<breaker_vars, consecutive_failures, thread_vars>>

Clock == TimeoutElapses /\ UNCHANGED <<module_vars, thread_vars>>

Next == (\E t \in Threads : Process(t)) \/ Restart \/ Clock

Spec == Init /\ [][Next]_vars

(* Chunks keep coming, an attempt ends, time passes. *)
FairSpec == Spec /\ WF_vars(Clock) /\ \A t \in Threads : WF_vars(Process(t))

-----------------------------------------------------------------------------
(* Type invariant. *)
TypeOK ==
    /\ BreakerTypeOK
    /\ module_state \in {"running", "error", "degraded"}
    /\ consecutive_failures \in 0 .. DegradeAfter
    /\ pc \in [Threads -> {"none", "admit", "count", "work", "recover", "error",
                           "degrade"}]
    /\ attempt \in [Threads -> 0 .. max_retries]
    /\ failures \in 0 .. MaxFailures
    /\ failure_count <= failures

(* Between two chunks a module is never in the error state: the error of a
   critical module, too, ends as "degraded". *)
ErrorNeverRests == Idle => module_state # "error"

(* Once a module's work stops failing (after MaxFailures it does), the circuit
   closes and the module runs again, with nobody's help. *)
Recovers == <>[](circuit = "closed" /\ module_state = "running")
=============================================================================
