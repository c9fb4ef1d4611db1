CONSTANTS
    StartHeights = {1}
    EpochSize = 2
    MaxDAHeight = 4
    MaxPerHeight = 1
    MaxChain = 4
    MaxFaults = 1
SPECIFICATION Spec
INVARIANTS
    DAErrorsHarmless
CHECK_DEADLOCK FALSE
