SPECIFICATION FairSpec
CONSTANTS
    Shapes <- MCShapes
    Uid = {1, 2, 3}
    NumPages = 5
    PageSize = 2
    MaxRunningReq = 2
    PrefillBudget = 2
    MaxSeqLen = 6
    Overlap = TRUE
    MaxAborts = 1
    MaxRebuilds = 2
    RebuildPages = {4, 5}
    RebuildOutcomes = {"ok", "rejected", "failed"}
CONSTRAINT Bounded
CHECK_DEADLOCK FALSE
INVARIANTS
    PageConservation
    SlotConservation
    AllocationCovered
    InFlightOwned
    OutputExact
    RebuildWhenFree
PROPERTIES
    AbortBarrier
    ImplementsLife
    EveryRequestEnds
    RebuildAnswered
