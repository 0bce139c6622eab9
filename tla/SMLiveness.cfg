SPECIFICATION FairSpec
CONSTANTS
  W = 3
  ReqAbove = 1
  ReqEvery = 2
  KeepAlive = TRUE
  Coalesced = FALSE
  MaxQueue = 2
  MaxWritten = 3
  MaxSent = 1
  MaxLosses = 2
PROPERTIES EventuallyHandled DeadLinkNoticed
