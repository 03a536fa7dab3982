SPECIFICATION FairSpec
CONSTANTS
    c1 = c1
    c2 = c2
    ci = ci
    admin = admin
    home = home
    acme = acme
    beta = beta
    NoScope = NoScope
    Operator = Operator
    None = None
    Tokens = {ci, admin}
    Slugs = {home, acme, beta}
    Scope <- MCScope
    max_orgs_per_token = 1
    Claims = {c1, c2}
INVARIANTS
    IInv
PROPERTIES
    NamespaceIsNeverReassigned
    EveryClaimIsAnswered
CHECK_DEADLOCK FALSE
