SPECIFICATION Spec
CONSTANTS
    t1 = t1
    t2 = t2
    t3 = t3
    Threads = {t1, t2}
    Dirs = {1, 2, 3, 6}
    Files = {4, 5}
    Parent <- Tree
    Ops = {"rename", "forget"}
SYMMETRY Symmetry
INVARIANTS
    NoDeadlock
CHECK_DEADLOCK FALSE
