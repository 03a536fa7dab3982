SPECIFICATION GraphSpec
CONSTANTS
    Users = {u1}
    Calls = {q1, q2}
    Ops <- MCOps
    q1 = q1
    q2 = q2
    Roles = {"owner", "reader"}
    Texts = {x, y}
    Fields = {"config"}
    Empty = Empty
    Nothing = Nothing
SYMMETRY Symmetry
INVARIANTS
    ShownMeansMember
    GraphIsConcealed
PROPERTIES
    UnnamedFieldChangesOnlyByStaleRead
CHECK_DEADLOCK FALSE
