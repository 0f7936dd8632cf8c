\* One worker; the manager of the voice is loaded twice.
SPECIFICATION PSSpec
CONSTANTS
    Workers = {w1}
    MaxManagers = 2
    MaxProcesses = 2
    MaxStarts = 1
    MaxChanges = 0
    MaxTexts = 2
    MaxPings = 0
    MaxBreakages = 0
    LoadsFail = TRUE
INVARIANTS OneSubprocess
CHECK_DEADLOCK FALSE
