SPECIFICATION Spec
CONSTANTS
    p1 = p1
    p2 = p2
    p3 = p3
    a = a
    b = b
    Foreign = Foreign
    Partial = Partial
    None = None
    Puts = {p1, p2, p3}
    Keys = {"k1", "k2"}
    Contents = {a, b}
    Size <- MCSize
    max_bytes = 3
SYMMETRY Symmetry
INVARIANTS
    IInv
    CapacityHolds
PROPERTY ImplementsImmutableStore
CHECK_DEADLOCK FALSE
