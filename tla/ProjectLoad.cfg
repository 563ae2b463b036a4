SPECIFICATION Spec
CONSTANTS
  a = a
  b = b
  f = f
  Path = {a, b}
  Field = {f}
  Whole = whole
  NoPicker = nopicker
  Projects <- OneProject
  Fails <- NoField
  MaxMoves = 2
INVARIANTS LoadedProjectIsComplete SpansFitText PickerShowsItsFile
PROPERTIES SaveIsAnswered
CHECK_DEADLOCK FALSE
