SPECIFICATION Spec
CONSTANTS
    Names <- MCNames
    Normalized <- MCNormalized
    Temporary <- MCTemporary
    Oversized = {"long"}
    Listings <- OneMove
    FaultKinds = {"HttpConnect", "Http"}
    MaxFaults = 1
    MaxSignals = 1
    MaxPages = 0
    MaxForeign = 2
    LateDelivery = TRUE
PROPERTY OthersUntouched
