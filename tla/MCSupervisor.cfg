SPECIFICATION FairSpec
CONSTANTS
    NWorkers = 3
    MaxCrashes = 2
    Signals = TRUE
    ConsulFails = TRUE
    MasterDies = TRUE
CHECK_DEADLOCK FALSE
INVARIANTS ReadyMeansAllUp OneProcessPerWorker NoUnknownProcess
PROPERTIES LoneCrashRepaired NoOrphans ShutdownCompletes
