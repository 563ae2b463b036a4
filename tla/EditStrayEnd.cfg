SPECIFICATION Spec
CONSTANTS
  MaxSpawns = 2
  MaxKeys = 3
PROPERTY EndClosesOwnSession
CHECK_DEADLOCK FALSE
