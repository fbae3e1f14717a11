SPECIFICATION Spec
CONSTANTS
    Drills = {orders, users}
    ControlsOf <- OneControl
    Keys = {k1, k2}
    NoKey = NoKey
    Torn = Torn
    Options <- WindowOptions
    MaxRuns = 2
    MaxTime = 2
SYMMETRY DrillSymmetry
INVARIANTS
    TypeOK
    OpenGateMeansProven
    OpenGateHidesNoFailure
    BundleStaysValid
