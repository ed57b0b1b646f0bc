SPECIFICATION RguSpec
CONSTANTS
  ROB_LEN = 2
  ROB_SIZE = 4
  REG_SIZE = 2
  Val = {0, 1}
INVARIANTS
  RguTypeOK
  RingWindow
  SrcIsYoungestWriter
PROPERTIES
  ReadyOnceWritersRetire
  RegistersChangeInOrder
