SPECIFICATION Spec
CONSTANTS
  SeqSpace = 2
  BlockSize = 2
  Duplex = TRUE
  EarlyClose = FALSE
  DestroysOpen = FALSE
  MaxBytes = 3
  MaxFailures = 0
INVARIANTS ConfirmedReceived
CHECK_DEADLOCK FALSE
