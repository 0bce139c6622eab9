SPECIFICATION Spec
CONSTANTS
  W = 3
  ReqAbove = 1
  ReqEvery = 2
  KeepAlive = TRUE
  Coalesced = TRUE
  MaxQueue = 2
  MaxWritten = 2
  MaxSent = 2
  MaxLosses = 1
INVARIANTS ReceivedExactlyOnce
