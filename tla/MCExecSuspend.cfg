SPECIFICATION Spec
CONSTANTS
    Dev <- MCDev
    Disabled = {2}
    OthersYield = FALSE
    SpinIds = 2
    MaxCalls = 3
INVARIANTS
    TypeOK Settled ListMatchesSuspend PassRunsWhatWasAsked RequestEndsSlice
    SpinTimerArmed
PROPERTIES
    YieldEnds ResumeWorks SpinningEnds
