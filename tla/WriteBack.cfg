SPECIFICATION LiveSpec
CONSTANTS
  Files = {"a", "b"}
  MaxVersions = 3
  MaxWrites = 2
  Structured = TRUE
INVARIANTS
  OnlyFetchedTextIsWritten
  SavedIsLoaded
PROPERTIES
  ExternalEditSurvives
  WriteIsAnswered
CHECK_DEADLOCK FALSE
