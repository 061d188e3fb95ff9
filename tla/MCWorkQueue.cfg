SPECIFICATION Spec
CONSTANTS
    Item = {i1, i2}
    MaxThreads = 2
    Queues <- MCQueues
    MaxBatch = 2
    LateReuse = FALSE
    None = None
CHECK_DEADLOCK FALSE
INVARIANTS
    CountsAddUp
    NoSignalLost
PROPERTIES
    PoolSpec
    ItemsRun
    CallsReturn
