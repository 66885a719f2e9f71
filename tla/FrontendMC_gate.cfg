SPECIFICATION FairSpec
CONSTANTS
    Uid = {u1}
    MaxDeltas = 2
    MaxRebuilds = 2
    MaxStops = 2
    Faults = {"submit", "abort", "rebuild"}
CHECK_DEADLOCK FALSE
INVARIANTS
    SealExact
    OneRebuild
PROPERTIES
    GateShut
    GateReopens
    BarrierDrains
