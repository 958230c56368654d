SPECIFICATION Spec
CONSTANTS
  MaxProcs = 3
  MaxThreads = 3
  NEntries = 2
  Daemons = {1}
  Plan <- MixedPlan
  StopAfter <- Never
  SwitchNs = 1
  Keys = {"k"}
  Waits <- Timed
  Timers <- OneShot
  Programs <- AllPrograms
INVARIANT BatonNotLost
INVARIANT TeardownOver
INVARIANT WaitersSeeDeaths
PROPERTY ServedInTime
