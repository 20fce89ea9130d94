SPECIFICATION FairSpec
CONSTANTS
    PipeCap = 7
    BufCap = 2
    Limit = 3
    MaxVersion = 3
    Size <- MCSize
INVARIANTS FlagIsHeard RepairedUnlessRefused
PROPERTIES NeverOlder OrphanExits
CHECK_DEADLOCK FALSE
