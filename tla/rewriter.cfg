SPECIFICATION Spec
CONSTANTS
  Programs <- AllPrograms
  Reach = 24
  Quanta = {1, 2}
  X8 = 4
INVARIANT SameRun
INVARIANT HooksCounted
