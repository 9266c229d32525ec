SPECIFICATION FairSpec
CONSTANTS
    Names <- MCNames
    Normalized <- MCNormalized
    Temporary <- MCTemporary
    Oversized = {"long"}
    Listings <- MCListings
    FaultKinds = {"Token", "HttpConnect", "Http", "StorageResponse"}
    MaxFaults = 3
    MaxSignals = 2
    MaxPages = 1
    MaxForeign = 0
    LateDelivery = FALSE
INVARIANTS TypeOK NoContentLoss SingleFailureContained CopyBeforeDelete
PROPERTIES Termination ImplementsRenames
