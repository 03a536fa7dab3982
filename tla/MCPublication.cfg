SPECIFICATION Spec
CONSTANTS
    r1 = r1
    r2 = r2
    r3 = r3
    ci = ci
    reader = reader
    stranger = stranger
    acme = acme
    other = other
    v1 = v1
    v2 = v2
    a = a
    b = b
    tgz = tgz
    zip = zip
    t1 = t1
    dots = dots
    m1 = m1
    m2 = m2
    NoScope = NoScope
    None = None
    Foreign = Foreign
    Versions = {v1, v2}
    Digests = {a, b}
    Tags = {t1, dots}
    SafeTags = {t1}
    Metas = {m1, m2}
    Tokens = {ci, reader, stranger}
    Org = acme
    Scope <- MCScope
    RoleOf <- MCRoleOf
    Uploads <- MCUploads
    Corrupted <- MCCorrupted
    Formats = {tgz, zip}
    HasAliases = TRUE
    MaxSequence = 4
    Sequences <- MCSequences
    Requests = {r1, r2, r3}
    Faults = {"store", "database", "canonical", "audit", "drop"}
SYMMETRY Symmetry
INVARIANTS
    IInv
    PublishedMeansRecorded
    AliasIsCopyUnlessContested
    LaggingReleaseIsReported
PROPERTIES
    VersionsAreImmutable
    PackageChangesWithVersion
CHECK_DEADLOCK FALSE
