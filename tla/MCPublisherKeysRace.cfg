SPECIFICATION Spec
CONSTANTS
    p1 = p1
    p2 = p2
    k1 = k1
    k2 = k2
    k3 = k3
    m1 = m1
    m2 = m2
    None = None
    Requests = {p1, p2}
    KeyIds = {k1, k2, k3}
    Materials = {m1, m2}
    Submissions <- DistinctSubmissions
    MAX_KEYS_PER_ORG = 2
PROPERTY RevokedStaysRevoked
CHECK_DEADLOCK FALSE
