SPECIFICATION Spec
CONSTANTS
  MaxCols = 3
  MinCols = 2
  a = a
  w = w
  blank = blank
  Narrow = {a}
  Wide = {w}
  Blank = blank
  Half = half
  Frames <- MCFrames
  MaxFaults = 1
INVARIANTS ShadowMatchesScreen RestoredWhenDead ModesAgree EditorOwnsTerminal FailedTakeIsUndone
CHECK_DEADLOCK FALSE
