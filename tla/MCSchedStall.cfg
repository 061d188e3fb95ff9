SPECIFICATION Spec
CONSTANTS
    Cpu <- MCCpu
    CyclePeriod <- MCCyclePeriod
    Second = 8
    Modes = {"run", "stall"}
    MaxInstr = 2
    Quantum = 5
    Permanent = {"p"}
    Temporary = {"s"}
    EnablePast = TRUE
    Delays = {3}
    Periods = {0, 4}
    Never = 99
    Horizon = 12
    MaxCalls = 2
CHECK_DEADLOCK FALSE
INVARIANT DeltaIsExact
