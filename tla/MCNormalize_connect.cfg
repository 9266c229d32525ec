SPECIFICATION Spec
CONSTANTS
    Names <- MCNames
    Normalized <- MCNormalized
    Temporary <- MCTemporary
    Oversized = {"long"}
    Listings <- OneMove
    FaultKinds = {"HttpConnect"}
    MaxFaults = 1
    MaxSignals = 0
    MaxPages = 0
    MaxForeign = 0
    LateDelivery = FALSE
INVARIANT RefusedMeansUnchanged
