SPECIFICATION Spec
CONSTANTS
    o1 = o1
    o2 = o2
    h = h
    t1 = t1
    t2 = t2
    Objects = {o1, o2}
    Size <- Sizes
    Hash <- SameHash
    BlockSize = 2
    Header <- Headers
    MaxHeader = 2
    Limits = {"none", "total", "space"}
    MaxSize = 2
    ExpressMax = {2, 3}
    Readers = {r1}
    Tasks = {t1, t2}
    MaxReads = 2
    MaxRestarts = 1
    MaxFaults = 1
SYMMETRY Symmetry
INVARIANTS
    UsageMatchesFiles
    SizeBounded
    StreamContinues
PROPERTIES
    ImplementsDataCache
CHECK_DEADLOCK FALSE
