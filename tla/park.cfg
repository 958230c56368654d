SPECIFICATION FairSpec
CONSTANTS
  Thread = {t1, t2, t3}
  None = None
  Width = 2
INVARIANTS OneRuns AtMostOneAhead
PROPERTIES ImplementsBaton GuestsFollowLauncher
