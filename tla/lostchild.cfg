SPECIFICATION Spec
CONSTANTS
  MaxProcs = 3
  MaxThreads = 3
  NEntries = 1
  Daemons = {}
  Plan <- QuietPlan
  StopAfter <- Never
  SwitchNs = 1
  Keys = {"k"}
  Waits <- Untimed
  Timers <- NoTimers
  Programs = {{"spawn", "bootfail"}}
INVARIANT WaitersSeeDeaths
