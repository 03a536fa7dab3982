SPECIFICATION FairSpec
CONSTANTS
    a = a
    b = b
    c = c
    Processes = {a, b, c}
    Deployments <- MCDeployments
    MaxWait = 1
    Backoff = 1
    LastStart = 0
    MaxTime = 3
    TokenIds = {t1, t2}
    Names = {n1}
    Lifetimes = {1, None}
    Requests = {q1}
    None = None
INVARIANTS
    RevokeIsEffective
    StaleAuthorityIsInFlight
PROPERTIES
    RevocationTimeIsKept
    EveryStartEnds
CHECK_DEADLOCK FALSE
