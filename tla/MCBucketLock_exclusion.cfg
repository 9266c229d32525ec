SPECIFICATION Spec
CONSTANTS
    r1 = r1
    r2 = r2
    r3 = r3
    Runs = {r1, r2, r3}
    BucketCount = 2
    Wanted <- MCWanted
    FaultKinds = {"Token", "HttpConnect", "Http", "StorageResponse"}
    MaxFaults = 1
    MaxSignals = 0
    MaxCrashes = 1
    LateDelivery = TRUE
INVARIANTS TypeOK MutualExclusion NoSelfConflict
PROPERTY ImplementsAtomicLock
