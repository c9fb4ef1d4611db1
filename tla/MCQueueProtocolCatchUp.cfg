CONSTANTS
    t1 = t1
    t2 = t2
    Tx = {t1, t2}
    MaxKey = 5
    InitialSeqNum = 3
    MaxQueueSize = 2
    MaxBytes = 2
    LegacyKey = {}
    WritesMayFail = FALSE
    DAStartKnown = FALSE
SPECIFICATION Spec
SYMMETRY TxSymmetry
CHECK_DEADLOCK FALSE
INVARIANTS
    NeverLost
