SPECIFICATION LiveSpec
CONSTANTS
  MaxSpawns = 2
  MaxKeys = 2
INVARIANTS
  NilBeforeTeardown
  DirOutlivesProcess
  SpawningIsAttended
PROPERTIES
  ShutdownCompletes
  QuitEnds
  DetachEndsSession
  SpawnResolves
CHECK_DEADLOCK FALSE
