SPECIFICATION FairSpec
CONSTANTS
  a1 = a1
  a2 = a2
  b = b
  A = A
  B = B
  Thread <- Threads
  Process = {A, B}
  ProcOf <- Owners
  None = None
  Slots = 2
  Wakes = 3
  Execs = 2
INVARIANTS Exclusion NoGhostOwner
PROPERTIES ImplementsMutex SpinnerGetsIn
