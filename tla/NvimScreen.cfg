SPECIFICATION Spec
CONSTANTS
  a = a
  same = same
  blank = blank
  Glyphs = {a, blank}
  Blank = blank
  Fill = a
  Highlights = {0, 1}
  Same = same
  Runs <- MCRuns
  Sizes <- MCSizes
  Regions <- MCRegions
  MaxOps = 2
INVARIANTS ShowsFrames
PROPERTIES EveryFrameArrives
CHECK_DEADLOCK FALSE
