SPECIFICATION Spec
CONSTANTS
    a = a
    b = b
    Sources <- TwoSources
    KeyOf <- SameKey
    Keys = {1}
    NWorkers = 1
    MaxRestarts = 0
    MaxVersion = 2
CHECK_DEADLOCK FALSE
INVARIANTS WorkersAgree
