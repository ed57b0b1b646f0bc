SPECIFICATION DebugSpec
CONSTANTS
  ADDR_LEN = 5
  Programs <- MCPrograms
  BreakAddrs <- MCBreakAddrs
  JumpAddrs <- MCJumpAddrs
  Writes <- MCWrites
  MaxBreaks = 2
  MaxNest = 1
  Careful = TRUE
INVARIANTS
  DebugTypeOK
  BreakpointsHold
PROPERTIES
  DebugRunIsPlainRun
CHECK_DEADLOCK FALSE
