SPECIFICATION FairSpec
CONSTANTS
  t1 = t1
  t2 = t2
  Trans <- MCTrans
  Rc = 2
  MaxNonce = 3
INVARIANTS TypeOK PoolHoldsLatest ToldAboutLatest NobodyForgotten SuccessIsSigned RetriesMakeProgress
PROPERTIES EveryTransactionEnds
CHECK_DEADLOCK FALSE
