SPECIFICATION MCSpec
CONSTANTS
    TICKS = 5
    U32 = 4
    MAX_RUN = 4
    USIZE_MAX = 6
    available = available
    unavailable = unavailable
    Requests <- MCRequests
    Available <- MCAvailable
    Inbox <- MCInbox
    CallBounds <- MCBounds
    Levels = {0, 2}
    Counters = {0, 2, 5}
    MaxSteps = {0, 1, 3}
    INSTRETS = 2
INVARIANTS
    TickCountsSteps
    InboxInOrder
    
    NodeViewExact
PROPERTY
    StepMaxReturns
