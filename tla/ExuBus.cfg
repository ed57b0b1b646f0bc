SPECIFICATION BusFairSpec
CONSTANTS
  MATRIX_SIZE = 2
  Tag = {t1, t2, t3}
  Contended = TRUE
INVARIANT
  NoDuplicate
PROPERTIES
  LeavesOverBus
  BusIsGranted
