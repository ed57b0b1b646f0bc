SPECIFICATION MCSpec
CONSTANTS
  GRP_LEN = 1
  STU_SIZE = 2
  MATRIX_SIZE = 2
  Addr = {a, b}
  DataTag = {d}
  MaxOps = 5
SYMMETRY MCSymmetry
INVARIANTS
  LsuTypeOK
  StoreRing
  NobodyLeftBehind
  WaitsForOlderStores
  StoreBeatsMemory
