SPECIFICATION MCSpec
CONSTANTS
  ChainID = "chain"
  Empty = "empty"
  MaxHeight = 3
  HeaderOf <- MCHeaderOf
  DataOf <- MCDataOf
  RootOf <- MCRootOf
  Named <- MCNamed
  Genesis = "A"
  DAStart = 1
  Scenarios <- MCScenarios
  ChCap = 1
  MaxPriority = 1
  StartHeight = 1
  MaxDAHeight = 3
  MaxLag = 0
  MaxHints = 1
INVARIANTS
  NothingLost
  
  NothingSkipped
  ClaimExclusive
PROPERTIES
  SyncsAsReplica
  EventuallyFinal
  EventuallyHandled
CHECK_DEADLOCK FALSE
