SPECIFICATION FairSpec
CONSTANTS
  SeqSpace = 2
  BlockSize = 1
  Duplex = TRUE
  EarlyClose = FALSE
  DestroysOpen = FALSE
  MaxBytes = 3
  MaxFailures = 0
INVARIANTS NeverStalled
PROPERTIES CloseCompletes
CHECK_DEADLOCK FALSE
