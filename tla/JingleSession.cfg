SPECIFICATION FairSpec
CONSTANTS
  Contents = {1, 2}
  MaxFailures = 1
INVARIANTS
  TypeOK
  NeverStalled
PROPERTIES
  EndReachesPeer
  TransferEnds
CHECK_DEADLOCK FALSE
