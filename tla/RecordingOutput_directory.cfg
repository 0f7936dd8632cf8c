\* Two lives, one chunk to copy in each.
SPECIFICATION RecSpec
CONSTANTS
    MaxRecordings = 2
    MaxRecChunks = 1
INVARIANTS RecordingHasDirectory
CHECK_DEADLOCK FALSE
