SPECIFICATION Spec
CONSTANTS
    a = a
    b = b
    c = c
    t1 = t1
    t2 = t2
    None = None
    Keys = {a, b, c}
    Threads = {t1, t2}
    Sweeper = Sweeper
    burst = 2
    Rate = 1
    Unit = 2
    TicksPerSecond = 1
    IDLE_EVICTION = 2
    MAX_BUCKETS = 2
    MaxTime = 5
SYMMETRY Symmetry
PROPERTIES
    RefusalIsDeserved
    ImplementsTokenBucket
CHECK_DEADLOCK FALSE
