---------------------------- MODULE StreamOutput ----------------------------
(***************************************************************************)
(* modules/outputs/rtmp_output.py and srt_output.py: an FFmpeg process that *)
(* is fed through its standard input by the output thread and started again *)
(* when the connection is lost.                                             *)
(*                                                                          *)
(* RTMP starts FFmpeg in start(), watches it with core/watchdog.py, and     *)
(* restarts it from the watchdog or from a write that breaks.  SRT starts    *)
(* it in the first write and retries with growing delays, slept in write    *)
(* itself.  Nothing is locked: write, stop, the watchdog and the stderr      *)
(* monitor share _ffmpeg_proc and _streaming.                               *)
(***************************************************************************)
EXTENDS Naturals

CONSTANTS MaxOutputLives, \* bound: calls of start() by the composite
          MaxOutputRuns,  \* bound: FFmpeg processes started
          MaxRetries      \* SRTOutput.MAX_RETRIES

ASSUME OutputAssumption ==
    {MaxOutputLives, MaxOutputRuns, MaxRetries} \subseteq Nat

ORuns == 1..MaxOutputRuns

VARIABLES
    proto,      \* "rtmp" or "srt"
    sink,       \* the composite's view: "down" or "up"
    lives,      \* how many starts there have been
    proc,       \* _ffmpeg_proc: the process it names, 0 for None
    procs,      \* the FFmpeg processes
    streaming,  \* _streaming
    guard,      \* _watchdog and its thread: the process it watches, and where it is
    retries,    \* _retry_count
    error,      \* whether _last_error is set
    writer,     \* the output thread: "idle"; "connected", a write that has started
                \* FFmpeg; "broken" after a BrokenPipeError; "asleep"
    overran     \* history: a stop has come while a write was under way

ovars == <<proto, sink, lives, proc, procs, streaming, guard, retries, error, writer, overran>>

OAlive(r)  == r # 0 /\ procs[r] = "alive"
NoGuard    == [pc |-> "off", run |-> 0]
FreeRuns   == {r \in ORuns : procs[r] = "none"}
Ended(r)   == [k \in ORuns |-> IF k = r THEN "dead" ELSE procs[k]]

OTypeOK ==
    /\ proto \in {"rtmp", "srt"} /\ sink \in {"down", "up"}
    /\ lives \in 0..MaxOutputLives
    /\ proc \in ORuns \cup {0}
    /\ procs \in [ORuns -> {"none", "alive", "dead"}]
    /\ streaming \in BOOLEAN /\ error \in BOOLEAN /\ overran \in BOOLEAN
    /\ guard \in [pc : {"off", "loop", "delay", "ended"}, run : ORuns \cup {0}]
    /\ retries \in 0..MaxRetries
    /\ writer \in {"idle", "connected", "broken", "asleep"}

OInit ==
    /\ proto \in {"rtmp", "srt"}
    /\ sink = "down" /\ lives = 0
    /\ proc = 0 /\ procs = [r \in ORuns |-> "none"]
    /\ streaming = FALSE /\ guard = NoGuard
    /\ retries = 0 /\ error = FALSE
    /\ writer = "idle" /\ overran = FALSE

----------------------------------------------------------------------------
(* FFmpeg ends: the connection is lost, or it crashes.                      *)
ProcessEnds ==
    /\ \E r \in ORuns : procs[r] = "alive" /\ procs' = Ended(r)
    /\ UNCHANGED <<proto, sink, lives, proc, streaming, guard, retries, error, writer, overran>>

(* RTMP: the pipe, the monitor's thread and a new watchdog attached to the   *)
(* process.                                                                 *)
Popen(ps, r) == proc' = r /\ procs' = [ps EXCEPT ![r] = "alive"] /\ streaming' = TRUE
Watched(r) == guard' = [pc |-> "loop", run |-> r]

(* RTMPOutput.start(), which begins with a stop() of its own.                *)
StartRtmp ==
    /\ proto = "rtmp" /\ sink = "down" /\ lives < MaxOutputLives
    /\ sink' = "up" /\ lives' = lives + 1
    /\ \E r \in FreeRuns : Popen(Ended(proc), r) /\ Watched(r)
    /\ UNCHANGED <<proto, retries, error, writer, overran>>

(* SRTOutput.start() only looks for FFmpeg.                                 *)
StartSrt ==
    /\ proto = "srt" /\ sink = "down" /\ lives < MaxOutputLives
    /\ sink' = "up" /\ lives' = lives + 1
    /\ UNCHANGED <<proto, proc, procs, streaming, guard, retries, error, writer, overran>>

(* stop(): the watchdog's thread is told to end and joined, FFmpeg ended.     *)
(* The composite stops an output although a write of it may still run: the   *)
(* joins of the pipeline's threads have time limits.                        *)
Terminated_OnlyForgotten == proc' = 0 /\ UNCHANGED procs /\ streaming' = FALSE
Terminated == proc' = 0 /\ procs' = Ended(proc) /\ streaming' = FALSE

StopOutput ==
    /\ sink = "up"
    /\ sink' = "down"
    /\ Terminated
    /\ guard' = NoGuard
    /\ overran' = (overran \/ writer # "idle")
    /\ UNCHANGED <<proto, lives, retries, error, writer>>

----------------------------------------------------------------------------
(* RTMP: the monitor, the watchdog and write().                             *)

(* The monitor reads FFmpeg's stderr to its end and clears _streaming if the *)
(* process has exited.                                                      *)
MonitorSeesExit ==
    /\ proto = "rtmp" /\ proc # 0 /\ ~OAlive(proc) /\ streaming
    /\ streaming' = FALSE
    /\ UNCHANGED <<proto, sink, lives, proc, procs, guard, retries, error, writer, overran>>

GuardSeesCrash ==
    /\ guard.pc = "loop" /\ ~OAlive(guard.run)
    /\ guard' = [guard EXCEPT !.pc = "delay"]
    /\ UNCHANGED <<proto, sink, lives, proc, procs, streaming, retries, error, writer, overran>>

(* _restart() in the watchdog's own thread: _ffmpeg_proc is forgotten, then   *)
(* start() calls stop(), which sets the watchdog's stop event and joins its  *)
(* thread - this one.  The join raises, the watchdog logs it as a failed     *)
(* restart, and its loop ends.                                              *)
GuardRestarts ==
    /\ guard.pc = "delay"
    /\ proc' = 0
    /\ guard' = [guard EXCEPT !.pc = "ended"]
    /\ UNCHANGED <<proto, sink, lives, procs, streaming, retries, error, writer, overran>>

(* write() returns without a word when the output is not streaming.          *)
RtmpWrites ==
    /\ proto = "rtmp" /\ sink = "up" /\ writer = "idle"
    /\ streaming /\ proc # 0
    /\ IF OAlive(proc) THEN error' = FALSE /\ writer' = writer
                       ELSE error' = TRUE  /\ writer' = "broken"
    /\ UNCHANGED <<proto, sink, lives, proc, procs, streaming, guard, retries, overran>>

(* _restart() in the output thread.  Popen may raise; the composite then      *)
(* restarts the output as a whole.                                          *)
RtmpReconnects ==
    /\ proto = "rtmp" /\ writer = "broken"
    /\ writer' = "idle"
    /\ \E r \in FreeRuns : Popen(procs, r) /\ Watched(r)
    /\ UNCHANGED <<proto, sink, lives, retries, error, overran>>

----------------------------------------------------------------------------
(* SRT: write().                                                            *)

(* A chunk for an output that is not streaming starts FFmpeg first; the same *)
(* call then writes it.                                                     *)
SrtConnects ==
    /\ proto = "srt" /\ sink = "up" /\ writer = "idle" /\ ~streaming
    /\ \E r \in FreeRuns : Popen(procs, r)
    /\ writer' = "connected"
    /\ UNCHANGED <<proto, sink, lives, guard, retries, error, overran>>

(* Only a chunk that was written clears the error and the retries: the FFmpeg *)
(* just started may have ended already (and a stop may have taken it away).  *)
SrtWrites ==
    /\ proto = "srt"
    /\ writer = "connected" \/ (writer = "idle" /\ sink = "up" /\ streaming)
    /\ IF OAlive(proc)
         THEN error' = FALSE /\ retries' = 0 /\ writer' = "idle"
         ELSE /\ error' = (error \/ proc # 0) /\ retries' = retries
              /\ writer' = IF proc # 0 THEN "broken" ELSE "idle"
    /\ UNCHANGED <<proto, sink, lives, proc, procs, streaming, guard, overran>>

(* _restart_streaming: the old process is dropped; as long as retries are    *)
(* left the thread sleeps, otherwise the error stays and the next chunk      *)
(* begins again with SrtConnects.                                           *)
Dropped_StillStreaming == proc' = 0 /\ procs' = Ended(proc) /\ UNCHANGED streaming
Dropped == proc' = 0 /\ procs' = Ended(proc) /\ streaming' = FALSE
RetriesLeft == retries < MaxRetries

SrtDrops ==
    /\ proto = "srt" /\ writer = "broken"
    /\ Dropped
    /\ IF RetriesLeft THEN writer' = "asleep" /\ retries' = retries + 1
               ELSE writer' = "idle" /\ retries' = retries
    /\ UNCHANGED <<proto, sink, lives, guard, error, overran>>

(* After the delay FFmpeg is started, without a look at what has happened     *)
(* meanwhile; the error stays until a chunk is written.                     *)
SrtWakes ==
    /\ proto = "srt" /\ writer = "asleep"
    /\ writer' = "idle"
    /\ \E r \in FreeRuns : Popen(procs, r)
    /\ UNCHANGED <<proto, sink, lives, guard, retries, error, overran>>

(* Any other exception of write(), such as a chunk file that is gone, is       *)
(* recorded and changes nothing else.                                       *)
WriteFailsOtherwise ==
    /\ writer = "connected" \/ (writer = "idle" /\ sink = "up")
    /\ streaming /\ proc # 0
    /\ error' = TRUE /\ writer' = "idle"
    /\ UNCHANGED <<proto, sink, lives, proc, procs, streaming, guard, retries, overran>>

OWrite == RtmpWrites \/ RtmpReconnects \/ SrtConnects \/ SrtWrites \/ SrtDrops \/ SrtWakes
OGuard == GuardSeesCrash \/ GuardRestarts
ONext  == ProcessEnds \/ StartRtmp \/ StartSrt \/ StopOutput \/ MonitorSeesExit \/ OGuard \/ OWrite
          \/ WriteFailsOtherwise

(* The watchdog and the monitor run, and chunks keep coming.                 *)
OFairness == WF_ovars(OWrite) /\ WF_ovars(OGuard) /\ WF_ovars(MonitorSeesExit)

OSpec == OInit /\ [][ONext]_ovars /\ OFairness

----------------------------------------------------------------------------
(* A stopped output runs no FFmpeg and says so, and while it is up only the   *)
(* process it holds runs - unless a stop came in the middle of a write.      *)
NoStrayStream ==
    /\ OTypeOK
    /\ ~overran =>
        /\ \A r \in ORuns : OAlive(r) => r = proc
        /\ sink = "down" => proc = 0 /\ ~streaming /\ guard.pc = "off"

(* An SRT output that has lost its connection does not stay there: while      *)
(* chunks arrive it starts one FFmpeg after the other until a chunk was      *)
(* written - in a write that breaks at once, in a retry after its delay, and *)
(* with the next chunk after it has given up - or it is stopped, or FFmpeg   *)
(* could not be started any more (here: the model's processes are used up).  *)
SrtStreamsAgain ==
    (proto = "srt" /\ sink = "up" /\ error)
        ~> (sink = "down" \/ FreeRuns = {} \/ ~error)
=============================================================================
