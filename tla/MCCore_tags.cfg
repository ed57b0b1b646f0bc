SPECIFICATION CoreSpec
CONSTANTS
  ROB_LEN = 1
  ROB_SIZE = 2
  REG_SIZE = 2
  Val <- MCVal
  Tag <- MCTag
  MATRIX_SIZE = 2
  LDU_SIZE = 2
  STU_SIZE = 2
  GRP_LEN = 1
  PC_SIZE = 1
  Kinds <- MCKinds
  Inputs <- MCInputs
INVARIANTS
  ResultIsFromOwn
