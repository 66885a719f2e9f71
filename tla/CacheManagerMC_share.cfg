SPECIFICATION Spec
CONSTANTS
    Shapes <- ForkShapes
    Req = {r1, r2, r3}
    Page = {p1, p2, p3, p4, p5}
    Token = {"a", "b"}
    PageSize = 2
    NoImage = NoImage
SYMMETRY Symmetry
CHECK_DEADLOCK FALSE
INVARIANTS
    PageOwnership
    KVMatches
    CountersExact
    AllocationCovered
