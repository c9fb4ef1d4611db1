SPECIFICATION MCSpec
CONSTANTS
    p1 = p1
    p2 = p2
    Payload = {p1, p2}
    MaxHeight = 2
    MaxTime = 1
    KVBlocks <- MCKVBlocks
    Aggregator = {TRUE, FALSE}
    KVMaxHeight = 3
    KVFaults = 3
    TxSize <- MCSizes
    ChannelCap = 2
    MaxQueueBytes = 4
    BlockBytes = 2
    MadeHeaders <- MCHeaders
    MadeData <- MCData
    MadeStates <- MCStates
    EpochSize = 2
    DAStartHeight = 1
    MaxDA = 8
    Posted <- MCPosted
    Valid = {"t1", "t2", "t3"}
    MaxBlob = 5
    Sizes = {5}
    MaxFaults = 1
    a = a
    b = b
    big = big
    RHeights = 6
    Blobs <- MCBlobs
    Oversized = {big}
    RetrievalEpoch = 2
    TimeWindow = 2
    MaxRFaults = 1
    Namespaces = {"n1", "n2"}
    Submissions <- MCSubmissions
    MaxBlobSize = 1
    ChannelSize = 1
    LocalHeights = 4
    LocalTime = 2
INVARIANTS
    ExecAgrees
    SignedOnce
    
    SoloInOrder
    HeaderKept
    
    
    EpochTxsExact
    LocalStreamExact
PROPERTIES
    ChainGrows
