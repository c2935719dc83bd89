SPECIFICATION Spec
CONSTANTS
    Threads = {t1, t2, t3}
    Pages = {1, 2, 3, 4, 5, 6}
    Sizes <- TwoSizes
    PerPage = 2
    Kinds = {"get", "put"}
    Requests <- Asked
SYMMETRY Symmetry
INVARIANTS
    BuffersSafe
    EmptyExact
    ReservedExact
