SPECIFICATION Spec
CONSTANTS
  MaxSockets = 3
  Host <- MCHost
  Proc = {1, 2, 3, 4, 5, 6, 7, 8, 9, 10, 11, 12, 13, 14, 15, 16, 17, 18}
  HostOf <- MCHostOf
  Starts <- MCStarts
  Children = {11}
  Ring = 5
  FlightHeader = 1
  DgramLen = 1
  Latency = 2
  Port <- MCPort
  Ephemeral <- MCEphemeral
  Program <- MCProgram
  Backlogs = {1}
  Sizes = {1, 2}
  Ticks = {1}
  MaxRefs = 2
  Modulus = 3
INVARIANTS HeldExactly StreamIntact FlightAccounted WaitersLookAgain
PROPERTIES EdgesNotLost NothingOvertakes
