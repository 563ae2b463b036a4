SPECIFICATION LiveSpec
CONSTANTS
  MaxRuns = 2
  MaxLines = 3
  MaxKeys = 3
  Cap = 2
CHECK_DEADLOCK FALSE
INVARIANTS
  TypeOK
  TicksAsNeeded
  BufferHasNewest
PROPERTIES
  KeepsPromise
  LinesAppear
  DeadlinesAreServed
