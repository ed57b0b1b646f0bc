SPECIFICATION ExbFairSpec
CONSTANTS
  MATRIX_SIZE = 4
  Tag = {t1}
INVARIANTS
  OneEntryPerColumn
  ReadsOldestOfMask
  MatrixTracksBuffer
  IssuesAReadyEntry
PROPERTIES
  IssuesOldestReady
  ReadyIsIssued
