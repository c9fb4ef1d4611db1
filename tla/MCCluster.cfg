SPECIFICATION MCSpec
CHECK_DEADLOCK FALSE
CONSTANTS
    Nodes = {n1, n2}
    TopHeight = 2
    MaxMade = 2
    MaxLog = 3
    MaxRaftFaults = 2
    TimesRepeat = FALSE
    StartHeights = {0, 1}
    EpochSize = 2
    MaxDAHeight = 4
    MaxPerHeight = 1
    MaxChain = 4
    MaxFaults = 1
INVARIANTS
    ForkNeedsRefusal
    
    
PROPERTIES
    ClusterExtends
    ForcedEventually
