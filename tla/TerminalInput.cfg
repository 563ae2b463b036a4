SPECIFICATION SpecForTLC
CONSTANTS
  Bytes = {"esc", "[", "1", "R", "I"}
  BufferSize = 3
  MaxBytes = 5
  MaxWinch = 1
INVARIANTS InOrder TrueMeansReadable
PROPERTY ParsedIsPosted
CHECK_DEADLOCK FALSE
