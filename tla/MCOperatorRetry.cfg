SPECIFICATION Spec
CONSTANTS
    Periods = {0}
    Backoff = 2
    MaxGen = 1
    MaxFaults = 0
    MaxTime = 4
CHECK_DEADLOCK FALSE
INVARIANT
    ErrorRetriesWithBackoff
