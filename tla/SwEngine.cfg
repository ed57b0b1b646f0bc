SPECIFICATION EngineFairSpec
CONSTANTS
  RobSize = 3
  RegSize = 2
  Word = {0, 1}
  ExbSize = 3
  NbUnits = 2
  NbLanes = 2
  Latency = {0, 1}
INVARIANTS
  EngineTypeOK
  EveryUndoneIsHeld
  NobodyWaitsForDone
PROPERTIES
  SwRetiresInOrder
  OldestGetsDone
