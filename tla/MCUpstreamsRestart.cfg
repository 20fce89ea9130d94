SPECIFICATION FairSpec
CONSTANTS
    a = a
    b = b
    Sources <- OneSource
    KeyOf <- SameKey
    Keys = {1}
    NWorkers = 2
    MaxRestarts = 1
    MaxVersion = 3
CHECK_DEADLOCK FALSE
INVARIANTS AgreeUntilDeath NewestAgrees
PROPERTIES EventuallyAgree
