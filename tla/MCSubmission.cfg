SPECIFICATION MCSpec
CONSTANTS
  MaxHeight = 3
  SubScenarios <- MCScenarios
  EmptyBlocks = {2}
  Size <- MCSize
  MaxBlobBytes = 2
  Delay = 1
  MaxSubmitAttempts = 2
  Limit = 2
  CheckInterval = 2
  Starts <- MCStarts
  MaxBlock = 4
  MaxFlips = 2
INVARIANTS
  WatermarkHonest
  
  
PROPERTIES
  EventuallySubmitted
  
CHECK_DEADLOCK FALSE
