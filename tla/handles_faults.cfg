SPECIFICATION FairSpec
CONSTANTS
    Handles = {h1, h2}
    NoHandle = NoHandle
    Incremental = TRUE
    AllowOverwrite = TRUE
    ForceRevalidate = FALSE
    MayFail = TRUE
    Renames = TRUE
    Forgets = TRUE
    MaxWrites = 1
    MaxEtag = 1
    h1 = h1
    h2 = h2
INVARIANTS
    TypeOK
    MapExclusive
    WriterIffOpenForWriting
PROPERTIES
    OpenReturns
    ReleaseReturns
    AwaitedHookKept
CHECK_DEADLOCK FALSE
