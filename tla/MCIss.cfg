SPECIFICATION MCSpec
CONSTANTS
  ADDR_LEN = 5
  Programs <- MCPrograms
INVARIANTS
  SimTypeOK
  OperandsAreFilled
PROPERTIES
  FollowsIsa
CHECK_DEADLOCK FALSE
