SPECIFICATION Spec
CONSTANTS
  MaxProcs = 4
  MaxThreads = 4
  NEntries = 2
  Daemons = {2}
  Plan <- CrashPlan
  StopAfter <- Never
  SwitchNs = 1
  Keys = {"k"}
  Waits <- Timed
  Timers <- NoTimers
  Programs = {{"block", "wake", "exit", "kill"}, {"block", "kill", "pthread_exit"}}
CHECK_DEADLOCK FALSE
INVARIANT TypeOK
INVARIANT OneHolder
INVARIANT ScheduleIsAlive
INVARIANT OneLife
INVARIANT DeathsSettled
PROPERTY ServedInTime
