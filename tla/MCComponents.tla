---------------------------- MODULE MCComponents ----------------------------
(* What stands at the two ends of the pipeline and in each stage of it: a     *)
(* stream input with its watchdog and its clock, a module behind its circuit  *)
(* breaker, and a streaming output.  They share no variable, so one behaviour *)
(* is about one of them.                                                      *)
EXTENDS StreamInput, ModuleProcess, StreamOutput

CONSTANTS t1, t2       \* the threads that call the module

VARIABLE subject       \* which component this behaviour is about

MCKinds == {"srt", "rtmp", "file"}
MCTimestamps == {-1, 9}
MCDisturbances == {"spawn_fails", "watcher_lingers", "reconfigure"}

KInit ==
    /\ subject \in {"input", "module", "stream"}
    /\ IInit /\ Init /\ OInit
    /\ subject = "input" \/ kind = "srt"
    /\ subject = "stream" \/ proto = "srt"

(* A step of one component leaves the others alone.                          *)
OfInput(A)     == subject = "input"     /\ A /\ UNCHANGED <<subject, vars, ovars>>
OfModule(A)    == subject = "module"    /\ A /\ UNCHANGED <<subject, ivars, ovars>>
OfStream(A)    == subject = "stream"    /\ A /\ UNCHANGED <<subject, ivars, vars>>

KNext == OfInput(INext) \/ OfModule(Next) \/ OfStream(ONext)

allvars == <<subject, ivars, vars, ovars>>

(* The fairness of the three components that have some (IFairness, FairSpec   *)
(* and OFairness), conjunct by conjunct: only one disjunct of each is ever    *)
(* enabled in a behaviour.                                                  *)
KFairness ==
    /\ WF_allvars(OfInput(WatchStep(1)) \/ OfModule(Process(t1)) \/ OfStream(OWrite))
    /\ WF_allvars(OfInput(WatchStep(2)) \/ OfModule(Process(t2)) \/ OfStream(OGuard))
    /\ WF_allvars(OfInput(Start) \/ OfModule(Clock) \/ OfStream(MonitorSeesExit))
    /\ WF_allvars(OfInput(StopKill))

KSpec == KInit /\ [][KNext]_allvars /\ KFairness
=============================================================================
