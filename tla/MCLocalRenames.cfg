SPECIFICATION FairSpec
CONSTANTS
    Names <- MCNames
    Normalized <- MCNormalized
    Plans <- MCPlans
    Insensitive = {TRUE, FALSE}
    MaxFaults = 1
    MaxSignals = 1
    MaxForeign <- MCMaxForeign
INVARIANTS TypeOK LocalAllOrNothing StrangersMovedReported ReplacedRootUntouched NoNameLeft
PROPERTIES NothingOverwritten Termination
