SPECIFICATION FairSpec
CONSTANTS
  Thread = {"t1", "t2", "t3"}
  Outside = {"g"}
  Process = {"p", "q"}
  Object = {"m", "c", "f", "s"}
  Nobody = "nobody"
  Scenarios <- Everything
  Cap = 1
INVARIANT NobodySleepsThrough
INVARIANT SignalsAccounted
INVARIANT SignalsTaken
PROPERTY EverybodyFinishes
