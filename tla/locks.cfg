SPECIFICATION Spec
CONSTANTS
    t1 = t1
    t2 = t2
    t3 = t3
    Threads = {t1, t2, t3}
    Dirs = {1, 2, 3, 6}
    Files = {4, 5}
    Parent <- Tree
    Ops = {"lookup", "rename", "finish", "opendir"}
SYMMETRY Symmetry
INVARIANTS
    NoDeadlock
CHECK_DEADLOCK FALSE
