SPECIFICATION FairSpec
CONSTANTS
    TTL = 1
    MaxTime = 3
    Allowance = 1
    ReadyLimit = 1
    DeadlineSlack = 1
    OlderThan = 1
    Answers = {1}
    RTO = 1
    RPO = 0
    Ages = {0}
    Drills <- OneDrill
    SweepOptions <- Sweeps
INVARIANTS
    IsolatedFromBirth
    NothingForgotten
PROPERTIES
    ImplementsLease
    PodRunEnds
    EventuallyReclaimed
