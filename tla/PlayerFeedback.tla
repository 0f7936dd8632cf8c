--------------------------- MODULE PlayerFeedback ---------------------------
(* The three writers of the pipeline's chunk duration.  Players report their *)
(* buffers and stalls (core/player_feedback.py, server/ws_routes.py) and the *)
(* monitor asks for shorter chunks and less concurrency, and later for the   *)
(* old ones; a saved configuration sets the duration; and the thread         *)
(* strategy adapts it to the time that chunks take                           *)
(* (core/pipeline/strategies.py), from a duration of its own.  Handlers share *)
(* the event loop, the strategy has a thread.  One monitor serves all players *)
(* and all lives of the pipeline.  Durations are whole seconds.              *)
EXTENDS Integers

CONSTANTS
    Settings,      \* configured chunk durations
    Factor,        \* a reduction divides the duration by this
    Shortest,      \* and stops at this duration
    Cooldown,      \* adapt_cooldown_s
    StallMemory,   \* stall_cooldown_s
    HealthyFor,    \* healthy_duration_s
    MaxPlayerClock,      \* time passes up to this (bound)
    MaxReports     \* reports and changes of the configuration (bound)

ASSUME FeedbackAssumption == Cooldown \in Nat /\ StallMemory \in Nat

VARIABLES
    player_clock,            \* time.time()
    player_buffer,           \* the last level a player reported
    last_stall_time,  \* 0 when there was none, or it was cleared
    reduced,          \* what is reduced: "nothing", "chunk" or "both"
    adapted_at,       \* when
    last_adapt_time,  \* of the last reduction or restoration
    default_duration, \* pipeline._default_chunk_duration
    chunk_duration,   \* pipeline._chunk_duration
    ctx_duration,     \* PipelineContext.chunk_duration, 0 when no thread runs
    reducing,         \* a reduction that is being made: what it has read
    unreduced,        \* history: what chunk_duration was last set to other than
                      \* by a reduction
    input_duration,   \* what the input cuts its chunks to
    max_concurrent,   \* of the adaptive settings; 0 when they name none (and
                      \* may be empty)
    reports           \* so far (for the bound)

pfvars == <<player_clock, player_buffer, last_stall_time, reduced, adapted_at, last_adapt_time,
            default_duration, chunk_duration, ctx_duration, reducing, unreduced,
            input_duration, max_concurrent, reports>>
monitorState  == <<last_stall_time, reduced, adapted_at, last_adapt_time>>
durations     == <<chunk_duration, unreduced>>
pipelineState == <<default_duration, durations, ctx_duration, input_duration, max_concurrent>>

Levels  == {"critical", "low", "fair", "healthy"}
Adapted == reduced # "nothing"
NotAsked == [read |-> 0, of |-> 0]
SetTo(d) == chunk_duration' = d /\ unreduced' = d

(* The buffer is 0 before the first report; the server has been running for  *)
(* longer than any of the thresholds.                                       *)
Started == Cooldown + StallMemory

PFInit ==
    /\ player_clock = Started /\ player_buffer = "critical"
    /\ last_stall_time = 0 /\ reduced = "nothing"
    /\ adapted_at = 0 /\ last_adapt_time = 0
    /\ default_duration \in Settings
    /\ chunk_duration = default_duration /\ input_duration = default_duration
    /\ unreduced = default_duration /\ ctx_duration = 0 /\ reducing = NotAsked
    /\ max_concurrent = 0
    /\ reports = 0

TimePasses ==
    /\ player_clock < Started + MaxPlayerClock
    /\ player_clock' = player_clock + 1
    /\ UNCHANGED <<player_buffer, monitorState, pipelineState, reducing, reports>>

CountsReport == reports < MaxReports /\ reports' = reports + 1
Report  == reducing = NotAsked /\ CountsReport      \* the event loop is free

----------------------------------------------------------------------------
(* The callbacks.  The pipeline would pass the duration on to its input, but *)
(* no input has set_chunk_duration.  on_adapt reads the duration and writes  *)
(* it back, with no lock against the strategy's thread.                      *)
Shortened(d) == IF d \div Factor < Shortest THEN Shortest ELSE d \div Factor

Reduces(what) ==
    /\ reduced' = what
    /\ adapted_at' = player_clock /\ last_adapt_time' = player_clock
    /\ reducing' = [read |-> chunk_duration, of |-> unreduced]
    /\ UNCHANGED <<durations, max_concurrent>>

OnAdapt ==
    /\ reducing # NotAsked /\ reducing' = NotAsked
    /\ chunk_duration' = Shortened(reducing.read) /\ unreduced' = reducing.of
    /\ max_concurrent' = IF reduced = "both" THEN 2 ELSE max_concurrent
    /\ UNCHANGED <<player_clock, player_buffer, monitorState, default_duration, ctx_duration,
                   input_duration, reports>>

Restores ==
    /\ reduced' = "nothing"
    /\ adapted_at' = 0 /\ last_adapt_time' = player_clock
    /\ SetTo(default_duration)
    /\ UNCHANGED reducing
    /\ max_concurrent' \in IF max_concurrent = 0 THEN {0, 4} ELSE {4}

(* _evaluate, after the report has been noted: at most one step each         *)
(* adapt_cooldown_s, one reduction until it is restored, and a restoration   *)
(* when the buffer is healthy healthy_duration_s after the reduction.        *)
MayReduce_Again == TRUE
MayReduce == ~Adapted

Urgent(stall, level) == player_clock - stall < StallMemory \/ level = "critical"

Evaluate(stall, level) ==
    /\ \/ /\ player_clock - last_adapt_time >= Cooldown
          /\ \/ MayReduce /\ Urgent(stall, level) /\ Reduces("both")
             \/ MayReduce /\ ~Urgent(stall, level) /\ level = "low" /\ Reduces("chunk")
             \/ Adapted /\ level = "healthy" /\ player_clock - adapted_at >= HealthyFor /\ Restores
       \/ /\ \/ player_clock - last_adapt_time < Cooldown
             \/ ~Adapted /\ ~Urgent(stall, level) /\ level \in {"fair", "healthy"}
             \/ Adapted /\ (level # "healthy" \/ player_clock - adapted_at < HealthyFor)
          /\ UNCHANGED <<reduced, adapted_at, last_adapt_time, durations, reducing, max_concurrent>>
    /\ UNCHANGED <<default_duration, ctx_duration, input_duration>>

(* "feedback"; a level of 0 is taken for no report.                          *)
RecordBuffer(level) ==
    /\ Report
    /\ player_buffer' = level
    /\ Evaluate(last_stall_time, level)
    /\ UNCHANGED <<player_clock, last_stall_time>>

(* "stalled"                                                                *)
RecordStall ==
    /\ Report
    /\ last_stall_time' = player_clock
    /\ Evaluate(player_clock, player_buffer)
    /\ UNCHANGED <<player_clock, player_buffer>>

(* "buffered" notes the level and decides nothing.                           *)
RecordBuffered(level) ==
    /\ Report
    /\ player_buffer' = level
    /\ UNCHANGED <<player_clock, monitorState, pipelineState, reducing>>

(* reconfigure_pipeline: the configured duration becomes the default and the *)
(* current one, the input gets the current one, and the adaptive settings    *)
(* are the configured ones again.  The monitor is not told.                  *)
DurationChanged(d) ==
    /\ Report
    /\ default_duration' = d /\ SetTo(d)
    /\ input_duration' = d
    /\ max_concurrent' = 0
    /\ UNCHANGED <<player_clock, player_buffer, monitorState, ctx_duration, reducing>>

----------------------------------------------------------------------------
(* The thread strategy.  The context of a life starts from the pipeline's    *)
(* duration, a reduced one too.  When chunks take long for their duration it *)
(* is made half as long again, when they take little it is shortened; what   *)
(* players and configuration did in between it does not look at.             *)
Stretched(d) == IF (d * 3) \div 2 > 60 THEN 60 ELSE (d * 3) \div 2
Shrunk(d)    == IF (d * 2) \div 3 < 2 THEN 2 ELSE (d * 2) \div 3

StrategyStarts ==
    /\ ctx_duration = 0 /\ CountsReport
    /\ ctx_duration' = chunk_duration
    /\ UNCHANGED <<player_clock, player_buffer, monitorState, default_duration, durations, reducing,
                   input_duration, max_concurrent>>

StrategyEnds ==
    /\ ctx_duration # 0 /\ ctx_duration' = 0
    /\ UNCHANGED <<player_clock, player_buffer, monitorState, default_duration, durations, reducing,
                   input_duration, max_concurrent, reports>>

StrategyAdapts ==
    /\ ctx_duration # 0 /\ CountsReport
    /\ \/ ctx_duration < 60 /\ ctx_duration' = Stretched(ctx_duration)
       \/ ctx_duration > 2 /\ ctx_duration' = Shrunk(ctx_duration)
    /\ SetTo(ctx_duration')
    /\ UNCHANGED <<player_clock, player_buffer, monitorState, default_duration, reducing,
                   input_duration, max_concurrent>>

----------------------------------------------------------------------------
PFNext ==
    \/ TimePasses \/ RecordStall \/ OnAdapt
    \/ StrategyStarts \/ StrategyEnds \/ StrategyAdapts
    \/ \E level \in Levels : RecordBuffer(level) \/ RecordBuffered(level)
    \/ \E d \in Settings : DurationChanged(d)

PFSpec == PFInit /\ [][PFNext]_pfvars

PFTypeOK ==
    /\ player_clock \in Nat /\ player_buffer \in Levels
    /\ reduced \in {"nothing", "chunk", "both"}
    /\ default_duration \in Settings /\ input_duration \in Settings
    /\ max_concurrent \in {0, 2, 4}

(* Whatever the players report, whenever the configuration is saved and      *)
(* however the strategy adapts, the players' reductions do not add up: the   *)
(* pipeline's duration is the one that the configuration, a restoration or   *)
(* the strategy has last set, or one reduction of it, and once the monitor   *)
(* holds nothing reduced it is not a reduction (player_feedback.py:139-198,  *)
(* ws_routes.py:348-374, strategies.py:636-668).                             *)
OneReduction ==
    /\ chunk_duration \in {unreduced, Shortened(unreduced)}
    /\ ~Adapted => chunk_duration = unreduced

=============================================================================
