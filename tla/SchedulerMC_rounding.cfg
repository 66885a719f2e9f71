SPECIFICATION Spec
CONSTANTS
    Shapes <- RoundingShapes
    Uid = {u1, u2}
    NumPages = 2
    PageSize = 4
    MaxRunningReq = 2
    PrefillBudget = 8
    MaxSeqLen = 8
    Overlap = TRUE
    MaxAborts = 0
    MaxRebuilds = 0
    RebuildPages = {}
    RebuildOutcomes = {}
SYMMETRY Symmetry
CHECK_DEADLOCK FALSE
INVARIANTS
    AllocationCovered
