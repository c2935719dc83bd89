SPECIFICATION FairSpec
CONSTANTS
    Size = 8
    PartSize = 2
    InitialRequestSizes = {0, 3}
    MaxWindow = 4
    Multiplier = 2
    SeekMax = 3
    MaxForward = 1
    Chunk = 1
    MaxChunk = 2
    ClientWindow = 3
    Limit = 10
    Others = {0, 10}
    Lengths = {1, 3}
    MayFail = TRUE
INVARIANTS
    QueueContinues
    MemoryAccounted
    BufferBounded
    ErrorsHaveCauses
PROPERTIES
    ReadReturns
