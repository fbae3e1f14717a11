SPECIFICATION Spec
CONSTANTS
    Periods = {3}
    Backoff = 1
    MaxGen = 1
    MaxFaults = 0
    MaxTime = 6
CHECK_DEADLOCK FALSE
INVARIANT
    ErrorRetriesWithBackoff
