SPECIFICATION Spec
CONSTANTS
    Loggers <- MCLoggers
    Root = "root"
    Line <- MCLine
    Core = {"server"}
    Late = {"gc_stat"}
    Suppressed = {}
    Outputs <- MCOutputs
    DebugPage = "debug"
    LogLevel = 20
    Feeds <- MCFeeds
    MaxBootstraps = 2
CHECK_DEADLOCK FALSE
INVARIANTS OverrideInForce NothingLost CopiesAddedOnce
