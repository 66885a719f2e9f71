SPECIFICATION Spec
CONSTANTS
    Shapes <- Nested
    Req = {r1, r2, r3}
    NumPages = 9
    NumSlots = 6
    PageSize = 1
    Window = 2
    RetainGap = 1
    Interval = 1
    Chunks = {4}
    Token = {"a", "b"}
    Sampled = {"b"}
    NoImage = NoImage
SYMMETRY Symmetry
CHECK_DEADLOCK FALSE
INVARIANTS
    RowsLive
