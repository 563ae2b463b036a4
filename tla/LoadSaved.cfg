SPECIFICATION Spec
CONSTANTS
  a = a
  b = b
  f = f
  Path = {a, b}
  Field = {f}
  Whole = whole
  NoPicker = nopicker
  Projects <- OneProject
  Fails <- NoField
  MaxMoves = 2
PROPERTIES SavedDesignationsAreLoaded
CHECK_DEADLOCK FALSE
