SPECIFICATION FairSpec
CONSTANTS
    r1 = r1
    r2 = r2
    Requests <- TwoRequests
    MaxActiveHandlers = 0
    NChunks <- OneBody
    QueueMax = 1
CHECK_DEADLOCK FALSE
INVARIANTS
    LimiterAccounting
    AtMostOneAnswer
    AtMostOneLog
    ServedIsLogged
    LogMatchesTelemetry
    BodyNotTruncated
PROPERTIES
    ImplementsSlots
    ClosedIsFinal
    SlotReleased
