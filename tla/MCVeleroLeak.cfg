SPECIFICATION FairSpec
CONSTANTS
    TTL = 1
    MaxTime = 2
    Allowance = 0
    OlderThan = 0
    PodsTimeout = 1
    stablePolls = 1
    Answers = {1}
    RTO = 1
    RPO = 0
    Ages = {0}
    Drills <- PodDrills
    SweepOptions <- Sweeps
PROPERTY
    NothingIsLeaked
