SPECIFICATION SpecReaddir
CONSTANTS
    n1 = n1
    n2 = n2
    t1 = t1
    Names = {n1, n2}
    Threads = {t1}
    Mounts <- OneMount
    Overwrite = TRUE
    MayFail = TRUE
    Etags = {1}
    MaxObjs = 3
    Listings <- Lists
    Plus = TRUE
    Rooms = {3, 4}
    MaxStreams = 2
INVARIANTS
    NothingMissed
    NoDuplicates
    CountsAccounted
CHECK_DEADLOCK FALSE
