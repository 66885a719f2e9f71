SPECIFICATION FairSpec
CONSTANTS
  MaxSpawns = 2
  MaxCalls = 2
  MaxDiskFaults = 1
  MaxBlips = 2
  SaveFails = FALSE
  AutoRestart = TRUE
  Config = {a, b}
  None = None
CHECK_DEADLOCK FALSE
INVARIANTS SignalAfterReceipt
PROPERTIES CallsReturn DeathsNoticed
