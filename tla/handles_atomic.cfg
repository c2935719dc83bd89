SPECIFICATION Spec
CONSTANTS
    Handles = {h1, h2, h3}
    NoHandle = NoHandle
    Incremental = FALSE
    AllowOverwrite = TRUE
    ForceRevalidate = TRUE
    MayFail = FALSE
    Renames = FALSE
    Forgets = FALSE
    MaxWrites = 1
    MaxEtag = 3
    h1 = h1
    h2 = h2
    h3 = h3
SYMMETRY Symmetry
INVARIANTS
    ReadersOrSingleWriter
    NoSilentLoss
PROPERTIES
    OpenSeesAcked
CHECK_DEADLOCK FALSE
