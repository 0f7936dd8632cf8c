------------------------ MODULE ModuleProcess_proofs ------------------------
(* Theorems about CircuitBreaker and ModuleProcess for every threshold, number
   of trial calls, of retries and of threads. *)
EXTENDS ModuleProcess, TLAPS

USE ThresholdsAssumption, MaxFailuresAssumption

(* The counters of the breaker bound each other: a half-open call is counted
   when it succeeds, so it never runs ahead of the successes, and successes stop
   below the number that closes the circuit. *)
BreakerInv ==
    /\ BreakerTypeOK /\ ClosedBelowThreshold
    /\ success_count < half_open_max_calls
    /\ half_open_calls <= success_count
    /\ circuit # "half_open" => half_open_calls = 0

LEMMA InitBreakerInv == BreakerInit => BreakerInv
  BY DEF BreakerInit, BreakerInv, BreakerTypeOK, ClosedBelowThreshold

LEMMA StepBreakerInv == BreakerInv /\ [BreakerNext]_breaker_vars => BreakerInv'
<1> SUFFICES ASSUME BreakerInv, [BreakerNext]_breaker_vars PROVE BreakerInv'
  OBVIOUS
<1> USE DEF BreakerInv, BreakerTypeOK, ClosedBelowThreshold
<1>1. CASE Observe
  BY <1>1 DEF Observe, Observed
<1>2. CASE record_success
  <2>1. CASE circuit = "half_open" /\ TrialsDone
    BY <1>2, <2>1 DEF record_success, TrialsDone, Reset
  <2>2. CASE circuit = "half_open" /\ ~TrialsDone
    BY <1>2, <2>2 DEF record_success, TrialsDone
  <2>3. CASE circuit # "half_open"
    BY <1>2, <2>3 DEF record_success
  <2>. QED  BY <2>1, <2>2, <2>3
<1>3. CASE failure_count < MaxFailures /\ record_failure
  <2>1. /\ failure_count' = failure_count + 1 /\ failure_count' \in 0 .. MaxFailures
        /\ UNCHANGED success_count
    BY <1>3 DEF record_failure
  <2>2. timeout_elapsed' \in BOOLEAN
    BY <1>3 DEF record_failure
  <2>3. CASE MustOpen
    <3>1. circuit' = "open" /\ half_open_calls' = 0
      BY <1>3, <2>3 DEF record_failure
    <3>. QED  BY <2>1, <2>2, <3>1
  <2>4. CASE ~MustOpen
    <3>1. circuit' = circuit /\ half_open_calls' = half_open_calls
      BY <1>3, <2>4 DEF record_failure
    <3>2. circuit # "half_open" /\ failure_count' < failure_threshold
      BY <2>1, <2>4 DEF MustOpen
    <3>. QED  BY <2>1, <2>2, <3>1, <3>2
  <2>. QED  BY <2>3, <2>4
<1>4. CASE force_reset
  BY <1>4 DEF force_reset, Reset
<1>5. CASE TimeoutElapses
  BY <1>5 DEF TimeoutElapses
<1>6. CASE UNCHANGED breaker_vars
  BY <1>6 DEF breaker_vars
<1>. QED  BY <1>1, <1>2, <1>3, <1>4, <1>5, <1>6 DEF BreakerNext

LEMMA BreakerInvariant == BreakerSpec => []BreakerInv
  BY InitBreakerInv, StepBreakerInv, PTL DEF BreakerSpec

(* However the calls are ordered, a closed circuit is below its threshold. *)
THEOREM ClosedIsBelowThreshold == BreakerSpec => []ClosedBelowThreshold
<1>1. BreakerInv => ClosedBelowThreshold
  BY DEF BreakerInv
<1>. QED  BY <1>1, BreakerInvariant, PTL

(* The limit on trial calls never refuses one. *)
THEOREM HalfOpenAdmitsAll == BreakerSpec => []HalfOpenNeverRefuses
<1>1. BreakerInv => HalfOpenNeverRefuses
  BY DEF BreakerInv, BreakerTypeOK, HalfOpenNeverRefuses, HalfOpenMayExecute
<1>. QED  BY <1>1, BreakerInvariant, PTL

-----------------------------------------------------------------------------
(* process, by any number of threads. *)

USE MaxRetriesAssumption, CriticalAssumption

(* The failures counted bound the breaker's count; an error state has a thread
   that is about to degrade the module. *)
ThreadInv ==
    /\ pc \in [Threads -> {"none", "admit", "count", "work", "recover", "error",
                           "degrade"}]
    /\ failures \in 0 .. MaxFailures
    /\ failure_count \in Nat /\ failure_count <= failures
    /\ circuit \in {"closed", "open", "half_open"}
    /\ module_state = "error" => \E t \in Threads : pc[t] = "degrade"

LEMMA InitThreadInv == Init => ThreadInv
  BY DEF Init, BreakerInit, ThreadInv

(* Every step of process is an operation of the breaker or leaves it alone. *)
LEMMA StepIsBreakerStep ==
    ASSUME ThreadInv, [Next]_vars
    PROVE  [BreakerNext]_breaker_vars
<1>1. ASSUME NEW t \in Threads, Process(t) PROVE [BreakerNext]_breaker_vars
  <2>1. CASE Enter(t)
    BY <2>1 DEF Enter, BreakerNext
  <2>2. CASE Admit(t)
    BY <2>2 DEF Admit, BreakerNext
  <2>3. CASE Count(t)
    BY <2>3 DEF Count, CountTrial
  <2>4. CASE WorkSucceeds(t)
    BY <2>4 DEF WorkSucceeds, BreakerNext
  <2>5. CASE WorkFails(t)
    <3>1. failure_count < MaxFailures /\ record_failure
      BY <2>5 DEF WorkFails, ThreadInv
    <3>. QED  BY <3>1 DEF BreakerNext
  <2>6. CASE Recover(t) \/ SetError(t) \/ Degrade(t)
    BY <2>6 DEF Recover, SetError, Degrade
  <2>. QED  BY <1>1, <2>1, <2>2, <2>3, <2>4, <2>5, <2>6 DEF Process
<1>2. CASE Restart
  BY <1>2 DEF Restart
<1>3. CASE Clock
  BY <1>3 DEF Clock, BreakerNext
<1>4. CASE UNCHANGED vars
  BY <1>4 DEF vars
<1>. QED  BY <1>1, <1>2, <1>3, <1>4 DEF Next

LEMMA StepThreadInv == ThreadInv /\ [Next]_vars => ThreadInv'
<1> SUFFICES ASSUME ThreadInv, [Next]_vars PROVE ThreadInv'
  OBVIOUS
<1> USE DEF ThreadInv, Goto, module_vars, thread_vars, breaker_vars
<1>1. ASSUME NEW t \in Threads, Process(t) PROVE ThreadInv'
  <2>1. CASE Enter(t)
    BY <2>1 DEF Enter, Observe, Observed
  <2>2. CASE Admit(t)
    <3>1. pc' \in {[pc EXCEPT ![t] = "work"], [pc EXCEPT ![t] = "count"],
                  [pc EXCEPT ![t] = "degrade"]}
      BY <2>2 DEF Admit, Observed
    <3>2. UNCHANGED <<failures, failure_count, module_state>>
      BY <2>2 DEF Admit, Observe
    <3>4. circuit' \in {"closed", "open", "half_open"}
      BY <2>2 DEF Admit, Observe, Observed
    <3>3. pc[t] = "admit"
      BY <2>2 DEF Admit
    <3>. QED  BY <3>1, <3>2, <3>3, <3>4
  <2>3. CASE Count(t)
    BY <2>3 DEF Count, CountTrial
  <2>4. CASE WorkSucceeds(t)
    BY <2>4 DEF WorkSucceeds, record_success, Reset
  <2>5. CASE Recover(t)
    BY <2>5 DEF Recover, Recovered
  <2>6. CASE WorkFails(t)
    BY <2>6 DEF WorkFails, record_failure
  <2>7. CASE SetError(t)
    BY <2>7 DEF SetError, AfterError
  <2>8. CASE Degrade(t)
    BY <2>8 DEF Degrade
  <2>. QED  BY <1>1, <2>1, <2>2, <2>3, <2>4, <2>5, <2>6, <2>7, <2>8 DEF Process
<1>2. CASE Restart
  BY <1>2 DEF Restart
<1>3. CASE Clock
  BY <1>3 DEF Clock, TimeoutElapses
<1>4. CASE UNCHANGED vars
  BY <1>4 DEF vars
<1>. QED  BY <1>1, <1>2, <1>3, <1>4 DEF Next

(* What is proved of the breaker under arbitrary calls holds of it inside a
   module: process only ever uses it through its operations. *)
THEOREM ImplementsBreaker == Spec => BreakerSpec
<1>1. Init => BreakerInit
  BY DEF Init
<1>. QED  BY <1>1, InitThreadInv, StepThreadInv, StepIsBreakerStep, PTL
          DEF Spec, BreakerSpec

(* No module rests in the error state, critical or not. *)
THEOREM NeverRestsInError == Spec => []ErrorNeverRests
<1>1. ThreadInv => ErrorNeverRests
  BY DEF ThreadInv, ErrorNeverRests, Idle
<1>. QED  BY <1>1, InitThreadInv, StepThreadInv, PTL DEF Spec
=============================================================================
