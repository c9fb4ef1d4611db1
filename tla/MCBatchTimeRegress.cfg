CONSTANTS
    StartHeights = {1}
    EpochSize = 1
    MaxDAHeight = 2
    MaxPerHeight = 2
    MaxChain = 4
    MaxFaults = 0
    DAInterval = 2
    MaxClock = 5
SPECIFICATION TimedSpec
INVARIANTS
    TimesNeverRegress
CHECK_DEADLOCK FALSE
