SPECIFICATION CSpec
CONSTANTS
  Nodes = {n1, n2}
  TopHeight = 2
  MaxMade = 2
  MaxLog = 3
  MaxRaftFaults = 2
  TimesRepeat = FALSE
INVARIANTS ChainsAgree
CHECK_DEADLOCK FALSE
