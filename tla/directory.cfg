SPECIFICATION Spec
CONSTANTS
    n1 = n1
    n2 = n2
    t1 = t1
    t2 = t2
    Names = {n1, n2}
    Threads = {t1, t2}
    Mounts <- FreshAndCached
    Overwrite = TRUE
    MayFail = TRUE
    Etags = {1}
    MaxObjs = 3
SYMMETRY Symmetry
INVARIANTS
    CountsMatchKernel
    LookupsJustified
    OneObjectPerInode
    PendingRenameIsPending
PROPERTIES
    NewEntriesStay
CHECK_DEADLOCK FALSE
