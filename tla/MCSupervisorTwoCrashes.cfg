SPECIFICATION FairSpec
CONSTANTS
    NWorkers = 2
    MaxCrashes = 2
    Signals = FALSE
    ConsulFails = FALSE
    MasterDies = FALSE
CHECK_DEADLOCK FALSE
PROPERTIES DeadWorkerReplaced
