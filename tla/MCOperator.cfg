SPECIFICATION FairSpec
CONSTANTS
    Periods = {0, 1}
    Backoff = 1
    MaxGen = 2
    MaxFaults = 2
    MaxTime = 2
CHECK_DEADLOCK FALSE
INVARIANTS
    TypeOK
    ObservedWasExecuted
    RunOnceRunsOnce
PROPERTIES
    LatestSpecIsRun
    RunningIsTransient
    DueIsRun
