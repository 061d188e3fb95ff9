SPECIFICATION Spec
CONSTANTS
    Single = 1
    Capacity = 9
    MayFail = FALSE
    MaxTime = 6
PROPERTY RewindGoesBack
CHECK_DEADLOCK FALSE
