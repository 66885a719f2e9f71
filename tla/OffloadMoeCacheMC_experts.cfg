SPECIFICATION Spec
CONSTANTS
    NumLayers = 3
    NumExperts = 2
    Variants <- Deployed
    TopK = 2
    FetchCap = 1
CHECK_DEADLOCK FALSE
INVARIANTS
    RightWeights
    MapExact
    BufferReleased
