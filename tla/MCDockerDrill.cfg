SPECIFICATION FairSpec
CONSTANTS
    TTL = 1
    MaxTime = 2
    Allowance = 1
    ReadyLimit = 1
    OlderThan = 1
    Answers = {0, 1}
    RTO = 1
    RPO = 0
    Ages = {0}
    Drills <- VerdictDrills
    SweepOptions <- UnforcedSweeps
INVARIANTS
    TypeOK
    DestroyedClaimIsTrue
    RecordMatchesSandbox
    NothingForgotten
    VerifiedCoversSpec
PROPERTIES
    LostSandboxNeverVerifies
    ImplementsLease
    WatchdogBackstop
    ArmedDrillEnds
    EventuallyReclaimed
