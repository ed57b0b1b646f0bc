SPECIFICATION BusSpec
CONSTANTS
  MATRIX_SIZE = 2
  Tag = {t1, t2, t3}
  Contended = TRUE
PROPERTY LookAheadKeepsBoth
