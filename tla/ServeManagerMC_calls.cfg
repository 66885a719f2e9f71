SPECIFICATION Spec
CONSTANTS
  MaxSpawns = 3
  MaxCalls = 3
  MaxDiskFaults = 1
  MaxBlips = 0
  SaveFails = TRUE
  AutoRestart = TRUE
  Config = {a, b}
  None = None
CHECK_DEADLOCK FALSE
SYMMETRY ConfigSymmetry
INVARIANTS OneEngine NoOrphan
PROPERTIES StopSticks ImplementsLedger
