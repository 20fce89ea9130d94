SPECIFICATION Spec
CONSTANTS
    r1 = r1
    r2 = r2
    Requests <- TwoRequests
    MaxActiveHandlers = 1
    NChunks <- OneBody
    QueueMax = 1
CHECK_DEADLOCK FALSE
INVARIANTS
    DocumentedLimit
