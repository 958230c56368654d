SPECIFICATION FairSpec
CONSTANTS
  MaxProcs = 4
  MaxThreads = 4
  NEntries = 2
  Daemons = {2}
  Plan <- CrashPlan
  StopAfter <- Early
  SwitchNs = 1
  Keys = {"k"}
  Waits <- Untimed
  Timers <- NoTimers
  Programs = {{"block", "exit"}}
INVARIANT StopIsFinal
PROPERTY PickTerminates
PROPERTY BatonTakenUp
PROPERTY CrashedIsReaped
PROPERTY StopEndsRun
