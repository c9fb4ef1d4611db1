SPECIFICATION MCSpec
CHECK_DEADLOCK FALSE
CONSTANTS
    t1 = t1
    t2 = t2
    Tx = {t1, t2}
    MaxKey = 5
    InitialSeqNum = 3
    MaxQueueSize = 2
    MaxBytes = 1
    LegacyKey = {1}
    WritesMayFail = FALSE
    DAStartKnown = TRUE
    BasedEpoch = 2
    BasedHeights = 4
    BasedPosts <- MCPosts
    BlockTxs = 1
    DABlockTime = 10
    BasedFaults = 2

    
    
PROPERTIES
    ImplementsMempool
    EventuallySettled
