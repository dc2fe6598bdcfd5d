CONSTANTS
  f1 = f1
  f2 = f2
  Fundings <- MCFundings
  Amount <- MCAmount
  Locks = {0, 1, 2}
  Fees = {1, 3}
  MaxTime = 2
  MaxOpenings = 3
SPECIFICATION FairSpec
INVARIANTS
  TypeOK
  HandedOverIsRefundable
  PoolsAgree
PROPERTIES
  ImplementsPromise
  FundedIsSpent
CHECK_DEADLOCK FALSE
