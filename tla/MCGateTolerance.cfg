SPECIFICATION Spec
CONSTANTS
    Drills = {orders}
    ControlsOf <- OneControl
    Keys = {k1}
    NoKey = NoKey
    Torn = Torn
    Options <- NoWindow
    MaxRuns = 1
    MaxTime = 1
INVARIANT
    ToleranceNeedsProof
