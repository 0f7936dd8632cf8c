SPECIFICATION FairSpec
CONSTANTS
    Workers = {w1}
    NChunks = 3
    BufferSize = 1
    MinConc = 1
    MaxConc = 1
    MaxExpected = 4
    NoChunk = NoChunk
CHECK_DEADLOCK FALSE
PROPERTIES EveryChunkPassed ThreadsEnd
