SPECIFICATION Spec
CONSTANTS
    Shapes <- Asked
    Req = {r1, r2}
    NumPages = 3
    SnapshotSlots = 0
    Chunk = 2
    PageSize = 2
    Token = {"a", "b"}
    Opener = "b"
    Sampled = {"b"}
    NoImage = NoImage
SYMMETRY Symmetry
CHECK_DEADLOCK FALSE
INVARIANTS
    PoolOwnership
    SnapshotExact
    KVMatches
    TreeExact
    PoolsCovered
