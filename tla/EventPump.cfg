SPECIFICATION LiveSpec
CONSTANTS
  MaxEdits = 4
  MaxKeys = 2
  EditorIsSet = TRUE
CHECK_DEADLOCK FALSE
INVARIANTS
  NoPollDuringHandoff
PROPERTIES
  ParkIsAnswered
  UnparkResumes
  StopEnds
