SPECIFICATION FairSpec
CONSTANTS
    Programs <- MCPrograms
    Capacity = 1
    InputSize = 2
    MaxSignals = 1
INVARIANTS TypeOK NothingLeftRunning OutputComplete
PROPERTIES ReturnsWhenChildRuns ReturnsByTimeout
