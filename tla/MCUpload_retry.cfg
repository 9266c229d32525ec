SPECIFICATION Spec
CONSTANTS
    Names <- MCNames
    Discoveries <- OneFile
    Buckets <- JustLocked
    Staging <- MCStaging
    Oversized = {"longs"}
    Reserved = {"lock"}
    Large = {}
    Size = 1
    ChunkSize = 1
    Mixed = "mixed"
    MaxAttempts = 2
    Edits <- NoEdits
    MaxRemovals = 0
    FaultKinds = {"Http"}
    MaxFaults = 1
    MaxSignals = 1
    MaxPages = 0
    MaxForeign = 0
    LateDelivery = FALSE
INVARIANT UnchangedUnlessReported
