SPECIFICATION Spec
CONSTANTS
  Room = 3
  MaxBatch = 3
  MaxLines = 8
INVARIANTS
  TypeOK
  NoAssertFails
  NothingLost
PROPERTIES
  ImplementsLog
  StopEnds
CHECK_DEADLOCK FALSE
