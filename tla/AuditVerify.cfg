SPECIFICATION FairVerifySpec
CONSTANTS
    None = None
    LegacyEntry = LegacyEntry
    Forged = Forged
    Writers = {w1, w2, w3}
    APPEND_ATTEMPTS = 2
    Legacy = 1
    Faults = {"database", "drop"}
    MAX_LIMIT = 2
    MAX_VERIFY_ROWS = 3
    Matching = {w1, w2, LegacyEntry}
INVARIANTS
    IInv
    HonestLogVerifies
    PagingIsExact
    TamperingIsDetected
PROPERTIES
    EveryRecordReturns
CHECK_DEADLOCK FALSE
