SPECIFICATION UploaderSpec
CONSTANTS
    Capacity = 1
    BufferSize = 2
    Starts <- NewAndExisting
    MayFail = TRUE
    OtherClient = TRUE
    MaxBytes = 7
    MaxVersions = 2
    PartSize = 2
    MaxParts = 2
    MaxOffered = 6
    MaxUploadFaults = 3
INVARIANTS
    ObjectIsPrefix
    CompleteIsDurable
PROPERTIES
    CallsReturn
    ImplementsAtomicPut
CHECK_DEADLOCK FALSE
