SPECIFICATION FairSpec
CONSTANTS
  Callers = {c1, c2}
  MaxNotes = 1
INVARIANTS
  WaitingIsRegistered
  EofReleasesCallers
PROPERTIES
  KeepsPromise
  NvimDeathReleases
  CleanupEndsReader
CHECK_DEADLOCK FALSE
