SPECIFICATION Spec
CONSTANTS
  Files = {"a", "b"}
  MaxVersions = 2
  MaxWrites = 1
  Structured = TRUE
CHECK_DEADLOCK FALSE
INVARIANT ModalKeepsItsFile
