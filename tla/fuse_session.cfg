SPECIFICATION Spec
CONSTANTS
    MaxWorkers = 3
    Kinds <- Mixed
    MaxFaults = 1
INVARIANTS
    PoolGrows
    RepliedOnce
PROPERTIES
    RequestsTaken
    JoinReturns
