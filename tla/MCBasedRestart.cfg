SPECIFICATION BSpec
CONSTANTS
  BasedEpoch = 2
  BasedHeights = 4
  BasedPosts <- MCPosts
  BlockTxs = 1
  DABlockTime = 10
  BasedFaults = 2
INVARIANT BasedNoDuplicate
CHECK_DEADLOCK FALSE
