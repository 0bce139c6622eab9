SPECIFICATION FairSpec
CONSTANTS
  W = 3
  ReqAbove = 1
  ReqEvery = 2
  KeepAlive = FALSE
  Coalesced = FALSE
  MaxQueue = 2
  MaxWritten = 2
  MaxSent = 0
  MaxLosses = 1
PROPERTIES DeadLinkNoticed
