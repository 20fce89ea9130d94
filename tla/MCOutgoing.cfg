SPECIFICATION Spec
CONSTANTS
    Clients <- MCClients
    Services <- MCServices
    OwnTimeouts = {3}
    Codes = {200}
    Threshold = 1
    MaxRoots = 2
    MaxRequests = 3
    MaxChildren = 1
    Horizon = 3
CHECK_DEADLOCK FALSE
INVARIANTS
    NestedDeadlines
    BlameFitsBudget
    PagesAreUnwrapped
    DebugNeedsCredentials
    CarriesItsOwn
