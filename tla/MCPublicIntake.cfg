SPECIFICATION Spec
CONSTANTS
    r1 = r1
    r2 = r2
    r3 = r3
    i1 = i1
    i2 = i2
    lower = lower
    upper = upper
    other = other
    garbage = garbage
    k1 = k1
    old = old
    new = new
    None = None
    Requests = {r1, r2}
    Ids = {i1, i2}
    Spellings = {lower, upper, other, garbage}
    Mailbox <- MCMailbox
    Revisions = {old, new}
    SigningKeys = {k1}
    Bodies <- MCBodies
    Configs <- MCConfigs
    Skew = 1
    ConsentSkew = 1
    MaxTime = 2
    MaxSigned = 2
INVARIANTS
    StoredWasSigned
    AcceptedMeansStored
PROPERTIES
    RetryRefusedOnlyWhenStale
SYMMETRY Symmetry
CHECK_DEADLOCK FALSE
