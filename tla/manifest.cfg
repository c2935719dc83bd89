SPECIFICATION Spec
CONSTANTS
    Inputs <- AllInputs
    InsertBatch = 2
    ListBatch = 2
    Names = {1, 2, 3}
    Rooms = {1, 3}
    MaxDamage = 1
INVARIANTS
    ServesManifest
    ListingExact
CHECK_DEADLOCK FALSE
