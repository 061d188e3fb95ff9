SPECIFICATION Spec
CONSTANTS
    Cpu <- MCCpu
    CyclePeriod <- MCCyclePeriod
    Second = 11
    Modes = {"run", "eat", "stall"}
    MaxInstr = 2
    Quantum = 7
    Permanent = {"p"}
    Temporary = {"s"}
    EnablePast = TRUE
    Delays = {0, 3, 98}
    Periods = {0, 4}
    Never = 98
    Horizon = 6
    MaxCalls = 3
CHECK_DEADLOCK FALSE
INVARIANTS TimersListed DevicesKeepTogether CalledBackInTime CyclesAccounted SliceAsserts DeltaOfRunners
PROPERTIES TimeMovesForward
