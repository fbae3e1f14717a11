SPECIFICATION FairSpec
CONSTANTS
    TTL = 1
    MaxTime = 2
    Allowance = 0
    OlderThan = 0
    PodsTimeout = 1
    stablePolls = 2
    Answers = {1}
    RTO = 1
    RPO = 0
    Ages = {0}
    Drills <- NamespaceDrills
    SweepOptions <- Sweeps
INVARIANTS
    VerifiedMeansStable
    NothingForgotten
    DestroyedClaimIsTrue
PROPERTIES
    DestroyedForGood
    DrillTerminates
    EventuallyReclaimed
