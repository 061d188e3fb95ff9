SPECIFICATION Spec
CONSTANTS
    Item = {i1, i2}
    MaxThreads = 2
    Queues <- MCQueues
    MaxBatch = 2
    LateReuse = TRUE
    None = None
CHECK_DEADLOCK FALSE
PROPERTIES
    PoolSpec
