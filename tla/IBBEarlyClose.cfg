SPECIFICATION Spec
CONSTANTS
  SeqSpace = 2
  BlockSize = 2
  Duplex = FALSE
  EarlyClose = TRUE
  DestroysOpen = FALSE
  MaxBytes = 3
  MaxFailures = 0
INVARIANTS OrderlyClose
CHECK_DEADLOCK FALSE
