SPECIFICATION Spec
CONSTANTS
    Line = {irq}
    QueueSize = 2
    Patience = 2
    MaxEvents = 3
    MaxCalls = 3
    None = None
INVARIANTS QueueTimed LineAgrees
PROPERTIES EventsDelivered RequestsAnswered
CHECK_DEADLOCK FALSE
