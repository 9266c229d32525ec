SPECIFICATION FairSpec
CONSTANTS
    Names <- FewNames
    Discoveries <- OneOfEach
    Buckets <- Empty
    Staging <- FewStaging
    Oversized = {}
    Reserved = {}
    Large = {"c"}
    Size = 2
    ChunkSize = 1
    Mixed = "a"
    MaxAttempts = 2
    Edits <- OneEdit
    MaxRemovals = 0
    FaultKinds = {"HttpConnect", "Http"}
    MaxFaults = 1
    MaxSignals = 1
    MaxPages = 0
    MaxForeign = 2
    LateDelivery = TRUE
INVARIANT PublishedAsValidated
PROPERTIES OthersUntouched Termination
