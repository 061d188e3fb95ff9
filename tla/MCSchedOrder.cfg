SPECIFICATION Spec
CONSTANTS
    Cpu <- MCCpu
    CyclePeriod <- MCCyclePeriod
    Second = 8
    Modes = {"run", "eat"}
    MaxInstr = 2
    Quantum = 5
    Permanent = {"p"}
    Temporary = {"s"}
    EnablePast = FALSE
    Delays = {0, 3, 99}
    Periods = {0, 4}
    Never = 99
    Horizon = 8
    MaxCalls = 2
CHECK_DEADLOCK FALSE

PROPERTIES CallbacksInOrder TimersFire
