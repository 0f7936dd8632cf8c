\* Input: two lives, three FFmpeg processes with two files each, one restart
\* by the watchdog; time stamps that jump back, fit and jump ahead.
\* Module: two threads, eight failures.  Streaming: two lives, five FFmpeg
\* processes, two retries.
SPECIFICATION KSpec
CONSTANTS
    t1 = t1
    t2 = t2
    Kinds <- MCKinds
    MaxLives = 2
    MaxRuns = 3
    MaxIndex = 1
    MaxRestarts = 1
    ChunkDuration = 2
    MinDelta = 1
    MaxMultiplier = 2
    Timestamps <- MCTimestamps
    MaxCumulative = 6
    Disturbances <- MCDisturbances
    Threads = {t1, t2}
    failure_threshold = 3
    half_open_max_calls = 2
    max_retries = 1
    is_critical = TRUE
    MaxFailures = 8
    MaxOutputLives = 2
    MaxOutputRuns = 5
    MaxRetries = 2
INVARIANTS NoOrphan NoStrayStream
PROPERTIES ReadsAreSound TimelineAdvances CrashIsRepaired Recovers SrtStreamsAgain
CHECK_DEADLOCK FALSE
