--------------------------- MODULE CircuitBreaker ---------------------------
(* core/circuit_breaker.py: the breaker of one module, called in any order by
   any number of threads. Each operation holds the breaker's lock, so it is one
   step; can_execute takes the lock twice (see ModuleProcess). The clock is
   abstracted to whether the time-out has passed since the last failure. *)
EXTENDS Naturals

CONSTANTS
    failure_threshold, half_open_max_calls,   \* as in the constructor
    MaxFailures    \* bound of _failure_count, which grows without limit while
                   \* calls fail on an open circuit

ASSUME ThresholdsAssumption ==
    failure_threshold \in Nat \ {0} /\ half_open_max_calls \in Nat \ {0}
ASSUME MaxFailuresAssumption == MaxFailures \in Nat

VARIABLES
    circuit,           \* self._state
    failure_count,     \* self._failure_count
    success_count,     \* self._success_count
    half_open_calls,   \* self._half_open_calls
    timeout_elapsed    \* time.time() - _last_failure_time >= timeout

breaker_vars == <<circuit, failure_count, success_count, half_open_calls,
                  timeout_elapsed>>

BreakerInit ==
    /\ circuit = "closed"
    /\ failure_count = 0 /\ success_count = 0 /\ half_open_calls = 0
    /\ timeout_elapsed = TRUE      \* _last_failure_time is 0

(* The value of the state property, which moves the circuit when it is read. *)
Observed == IF circuit = "open" /\ timeout_elapsed THEN "half_open" ELSE circuit

Observe ==
    /\ circuit' = Observed
    /\ half_open_calls' = IF circuit = Observed THEN half_open_calls ELSE 0
    /\ UNCHANGED <<failure_count, success_count, timeout_elapsed>>

HalfOpenMayExecute == half_open_calls < half_open_max_calls

Reset == /\ circuit' = "closed" /\ failure_count' = 0 /\ half_open_calls' = 0
         /\ success_count' = 0

TrialsDone == success_count + 1 >= half_open_max_calls

record_success ==
    /\ IF circuit = "half_open"
         THEN IF TrialsDone
                THEN Reset
                ELSE /\ success_count' = success_count + 1
                     /\ half_open_calls' = half_open_calls + 1
                     /\ UNCHANGED <<circuit, failure_count>>
         ELSE /\ failure_count' = 0 /\ success_count' = 0
              /\ UNCHANGED <<circuit, half_open_calls>>
    /\ UNCHANGED timeout_elapsed

MustOpen == circuit = "half_open" \/ failure_count + 1 >= failure_threshold

record_failure ==
    /\ failure_count' = failure_count + 1
    /\ timeout_elapsed' = FALSE
    /\ IF MustOpen THEN circuit' = "open" /\ half_open_calls' = 0
                   ELSE UNCHANGED <<circuit, half_open_calls>>
    /\ UNCHANGED success_count

force_reset == Reset /\ UNCHANGED timeout_elapsed

(* The clock. *)
TimeoutElapses ==
    /\ ~timeout_elapsed /\ timeout_elapsed' = TRUE
    /\ UNCHANGED <<circuit, failure_count, success_count, half_open_calls>>

BreakerNext ==
    \/ Observe \/ record_success
    \/ failure_count < MaxFailures /\ record_failure
    \/ force_reset \/ TimeoutElapses

BreakerSpec == BreakerInit /\ [][BreakerNext]_breaker_vars

-----------------------------------------------------------------------------
(* Type invariant. *)
BreakerTypeOK ==
    /\ circuit \in {"closed", "open", "half_open"}
    /\ failure_count \in 0 .. MaxFailures
    /\ success_count \in 0 .. half_open_max_calls
    /\ half_open_calls \in 0 .. half_open_max_calls
    /\ timeout_elapsed \in BOOLEAN

(* A closed circuit has seen fewer consecutive failures than the threshold, in
   whatever order the threads report. *)
ClosedBelowThreshold == circuit = "closed" => failure_count < failure_threshold

(* A half-open circuit never refuses a call: the calls it counts are those that
   have succeeded, and the one that would reach half_open_max_calls closes it. *)
HalfOpenNeverRefuses == circuit = "half_open" => HalfOpenMayExecute
=============================================================================
