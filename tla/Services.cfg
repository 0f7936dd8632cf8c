\* Small instances of every component; see the README for the bounds.
SPECIFICATION SSpec
VIEW OwnVariables
CONSTANTS
    w1 = w1
    w2 = w2
    \* three callers on two slots, two job ids, one shutdown
    Callers = {c1, c2, c3}
    CallerIds <- SharedIds
    MaxSize = 2
    MaxShutdowns = 1
    \* two processes of the harness, two builder tasks
    Drivers = {d1, d2}
    MaxTasks = 2
    MaxIterations = 2
    MaxRounds = 2
    MaxCommands = 2
    Writers = {cli, web}
    MaxWrites = 3
    \* two users, locks after two failures, two ticks
    Usernames = {ann, bob}
    MaxFailed = 2
    Window = 2
    LockTime = 2
    AccessLife = 1
    RefreshLife = 2
    MaxTime = 2
    MaxTokens = 3
    MaxEvents = 3
    \* two requests a window of three ticks
    Senders = {k1, k2}
    Limit = 2
    RateSpan = 3
    PurgeEvery = 3
    MaxNow = 8
    Clients = {k1}
    RateLimit = 2
    RateWindow = 2
    MaxClock = 4
    \* two threads write lines, two sockets read them
    Threads = {t1, t2}
    Sockets = {s1, s2}
    MaxBuffer = 1
    Replayed = 1
    MaxMessages = 2
    Durations = {2, 10}
    DefaultChunk = 10
    Streams = {"srt_1"}
    Presets = {"p"}
    Faults = {"save", "load", "presets", "configure"}
    MaxSteps = 1
    MaxRequests = 3
    \* two workers speak, one voice manager, one fault
    Workers = {w1, w2}
    MaxManagers = 1
    MaxProcesses = 2
    MaxStarts = 1
    MaxChanges = 1
    MaxTexts = 2
    MaxPings = 1
    MaxBreakages = 1
    LoadsFail = TRUE
    SerialModules = 2
    Critical = {2}
    MaxSerial = 4
    Transcribers = {w1, w2}
    Audios = {"a"}
    Languages = {"es", "en"}
    MaxLanguageChanges = 2
    MaxTranscribed = 3
    Translators = {w1, w2}
    Texts = {x1, x2, x3}
    Tongues = {"es", "fr"}
    CacheSize = 1
    MaxSettings = 1
    MaxTranslated = 4
    \* chunks of 4 or 10 s, halved down to 2
    Settings = {4, 10}
    Factor = 2
    Shortest = 2
    Cooldown = 1
    StallMemory = 2
    HealthyFor = 3
    MaxPlayerClock = 5
    MaxReports = 5
    Mixers = {w1, w2}
    MaxMixLives = 2
    MaxMixIndex = 3
    \* two lives: three chunks to record, five to play, windows of two video
    \* segments and one subtitle fragment; workers may get further ahead than
    \* the generator waits for
    MaxRecordings = 2
    MaxRecChunks = 3
    MaxChunks = 4
    MaxLiveLives = 2
    InFlight = 3
    ListSize = 2
    SubListSize = 1
    MaxPending = 1
    MaxMishaps = 2
    Mishaps <- MCMishaps
INVARIANTS ServicesTypeOK SlotsConserved RoundsAreRejections
    AuditTrailIsCurrent TriesAreBounded TokenRoleIsCurrent RefreshedOnce
    RateHolds NothingMissed SettledAgrees AudioIsOwnText
    TranscriptInLanguage CacheIsBounded OneReduction FadesJoinNeighbours
    RecordingIsWhole SubtitlesInOrder SubsMatchVideo
PROPERTIES SerialIsOrdered
CHECK_DEADLOCK FALSE
