SPECIFICATION FairSpec
CONSTANTS
  SeqSpace = 2
  BlockSize = 2
  Duplex = FALSE
  EarlyClose = FALSE
  DestroysOpen = FALSE
  MaxBytes = 4
  MaxFailures = 1
INVARIANTS TypeOK ConfirmedReceived OrderlyClose NeverStalled
PROPERTIES DeliveryInOrder EveryByteArrives CloseCompletes
CHECK_DEADLOCK FALSE
