SPECIFICATION Spec
CONSTANTS
    Workers = {w1, w2}
    NChunks = 3
    BufferSize = 1
    MinConc = 1
    MaxConc = 2
    MaxExpected = 4
    NoChunk = NoChunk
SYMMETRY WorkerSymmetry
CHECK_DEADLOCK FALSE
INVARIANTS ChunkInOnePlace CountersAgree
PROPERTY ODSpec
