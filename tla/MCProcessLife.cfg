SPECIFICATION FairSpec
CONSTANTS
    Settings <- MCSettings
    Upstreams = {"kafka", "scylla"}
    Skipped = {"scylla"}
    Kafka = {"kafka"}
    Scylla = {"scylla"}
    Requests = {r1}
    MaxWeight = 3
    MaxGc = 2
CHECK_DEADLOCK FALSE
INVARIANTS
    ServedWithEverything
    GoneUnlessRaced
PROPERTIES
    WeightFollows
    SigtermStops
