SPECIFICATION MCSpec
CHECK_DEADLOCK FALSE
CONSTANTS
    t1 = t1
    t2 = t2
    t3 = t3
    Tx = {t1, t2, t3}
    MaxKey = 4
    InitialSeqNum = 2
    MaxQueueSize = 2
    MaxBytes = 2
    LegacyKey = {1}
    WritesMayFail = TRUE
    Inputs <- MCInputs
    SafeBlockLag = 2
    FinalizedBlockLag = 3
    MaxELChain = 4
    MaxMishaps = 2
    MaxStoreHeight = 3
    KeepRecent = 1
    pruneBudget = 2
    maxPruneChunk = 1
    MaxRollbacks = 1
    MaxStops = 1
    MaxWrites = 2
    Heights = {1, 2}
    Hinted = {2}
    Appenders = {a1, a2}
    Getters = {g1}
    Watchers = {w1}
    maxPendingCacheSize = 1
    MaxGets = 1
    StartHeights = {1}
    EpochSize = 1
    MaxDAHeight = 2
    MaxPerHeight = 2
    MaxChain = 4
    MaxFaults = 1
    DAInterval = 2
    MaxClock = 5
INVARIANTS
    IndInv
    ResultExact
    LabelsOnChain
    RetainedReplayable
    PrunedIsIncluded
    CacheCurrent
    NoWakeUpLost
    ForcedTimesMatchEpoch
PROPERTIES
    StaysAvailable
