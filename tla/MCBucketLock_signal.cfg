SPECIFICATION Spec
CONSTANTS
    r1 = r1
    r2 = r2
    r3 = r3
    Runs = {r3}
    BucketCount = 2
    Wanted <- MCWanted
    FaultKinds = {}
    MaxFaults = 0
    MaxSignals = 1
    MaxCrashes = 0
    LateDelivery = FALSE
INVARIANT SignalKeepsSuccess
