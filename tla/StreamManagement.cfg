SPECIFICATION Spec
CONSTANTS
  W = 3
  ReqAbove = 1
  ReqEvery = 2
  KeepAlive = TRUE
  Coalesced = FALSE
  MaxQueue = 2
  MaxWritten = 4
  MaxSent = 3
  MaxLosses = 2
INVARIANTS TypeOK HandledExactlyOnce QueueCoversUnhandled AckedOnlyIfHandled ReceivedExactlyOnce
PROPERTIES GivesUpOnlyUnanswered DeliveryInOrder
