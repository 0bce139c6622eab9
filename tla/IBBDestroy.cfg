SPECIFICATION Spec
CONSTANTS
  SeqSpace = 2
  BlockSize = 2
  Duplex = FALSE
  EarlyClose = FALSE
  DestroysOpen = TRUE
  MaxBytes = 3
  MaxFailures = 0
INVARIANTS LinkedIsAlive
CHECK_DEADLOCK FALSE
