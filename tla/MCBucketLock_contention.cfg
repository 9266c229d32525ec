SPECIFICATION FairSpec
CONSTANTS
    r1 = r1
    r2 = r2
    r3 = r3
    Runs = {r1, r2}
    BucketCount = 2
    Wanted <- MCWanted
    FaultKinds = {"Token", "HttpConnect", "Http", "StorageResponse"}
    MaxFaults = 2
    MaxSignals = 2
    MaxCrashes = 0
    LateDelivery = FALSE
INVARIANTS LocksReturned SomeRunWins
PROPERTY Termination
