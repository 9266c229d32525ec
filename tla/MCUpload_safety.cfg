SPECIFICATION Spec
CONSTANTS
    Names <- MCNames
    Discoveries <- MCDiscoveries
    Buckets <- MCBuckets
    Staging <- MCStaging
    Oversized = {"longs"}
    Reserved = {"lock"}
    Large = {"big"}
    Size = 3
    ChunkSize = 2
    Mixed = "mixed"
    MaxAttempts = 2
    Edits <- TwoEdits
    MaxRemovals = 1
    FaultKinds = {"Token", "HttpConnect", "Http", "StorageResponse"}
    MaxFaults = 2
    MaxSignals = 1
    MaxPages = 0
    MaxForeign = 0
    LateDelivery = FALSE
INVARIANTS TypeOK PublishedAsValidated AllOrNothing
