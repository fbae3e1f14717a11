SPECIFICATION Spec
CONSTANTS
    TTL = 2
    MaxTime = 4
    Allowance = 2
    ReadyLimit = 1
    OlderThan = 1
    Answers = {1}
    RTO = 1
    RPO = 0
    Ages = {0}
    Drills <- RaceDrills
    SweepOptions <- UnforcedSweeps
INVARIANT
    LeaseRespected
