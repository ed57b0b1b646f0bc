SPECIFICATION BackSpec
CONSTANTS
  ROB_LEN = 2
  ROB_SIZE = 4
  REG_SIZE = 2
  Val <- MCVal
  Tag <- MCTag
  MATRIX_SIZE = 2
  Contended = FALSE
PROPERTY NoMissedBroadcast
