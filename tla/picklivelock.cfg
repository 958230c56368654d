SPECIFICATION FairSpec
CONSTANTS
  MaxProcs = 2
  MaxThreads = 2
  NEntries = 2
  Daemons = {}
  Plan <- LossPlan
  StopAfter <- Never
  SwitchNs = 1
  Keys = {"k"}
  Waits <- Untimed
  Timers <- Repeating
  Programs = {{"block", "timer"}}
PROPERTY PickTerminates
