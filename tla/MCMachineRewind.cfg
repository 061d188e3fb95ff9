SPECIFICATION RSpec
CONSTANTS
    Line = {irq}
    QueueSize = 2
    Patience = 2
    MaxEvents = 3
    MaxCalls = 3
    None = None
INVARIANT QueueTimed
CHECK_DEADLOCK FALSE
