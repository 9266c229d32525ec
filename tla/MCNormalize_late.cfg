SPECIFICATION Spec
CONSTANTS
    Names <- MCNames
    Normalized <- MCNormalized
    Temporary <- MCTemporary
    Oversized = {"long"}
    Listings <- OneMove
    FaultKinds = {}
    MaxFaults = 0
    MaxSignals = 1
    MaxPages = 0
    MaxForeign = 0
    LateDelivery = TRUE
INVARIANT NoContentLoss
