SPECIFICATION Spec
CONSTANTS
    Single = 2
    Capacity = 7
    MayFail = TRUE
    MaxTime = 7
INVARIANTS IndicesInRange MemoryBounded
PROPERTY CapturedIsKept
CHECK_DEADLOCK FALSE
