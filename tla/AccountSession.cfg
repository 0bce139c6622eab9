SPECIFICATION FairSpec
CONSTANTS
  Streams = {1, 2}
  MaxSignals = 2
  MaxReconnects = 2
  MaxPrompts = 1
INVARIANTS TypeOK ActiveIsAlive OneStream ReconnectsWhileDown InactiveHoldsNothing PresenceAfterRoster ReconnectOnceIsOnce DisconnectingEnds OneRecovery
PROPERTIES OfflineStaysOffline LogoutCompletes
CHECK_DEADLOCK FALSE
