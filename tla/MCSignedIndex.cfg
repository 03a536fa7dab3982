SPECIFICATION IndexSpec
CONSTANTS
    p1 = p1
    p2 = p2
    k1 = k1
    k2 = k2
    k3 = k3
    m1 = m1
    m2 = m2
    u1 = u1
    u2 = u2
    b1 = b1
    None = None
    Requests = {p1, p2}
    KeyIds = {k1, k2, k3}
    Materials = {m1, m2}
    Submissions <- MCSubmissions
    MAX_KEYS_PER_ORG = 2
    Uploads = {u1, u2}
    Publishes = {b1}
    SignatureSets <- MCSignatureSets
    MAX_I64 = 2
    MaxRequests = 2
SYMMETRY IndexSymmetry
INVARIANT StoredSignaturesResolve
PROPERTIES
    KeysArePermanent
    CapExceededOnlyByStaleRead
    CounterFallsOnlyWhenOvertaken
CHECK_DEADLOCK FALSE
