CONSTANTS
  b1 = b1
  b2 = b2
  Batches <- MCBatches
  Price <- MCPrice
  PoolOutput = 4
  Fee = 1
  FinalSequence = 5
  ArbiterFees = {1, 2}
  CloseTargets = {1, 4}
  Deadlines = {1, 3}
  QuoteExpiry = 3
  RefundLock = 2
  MaxTime = 2
  MaxRequests = 2
SPECIFICATION FairSpec
INVARIANTS
  TypeOK
  BoundedExposure
  ChainIsLedger
  CompleteIsPayable
  AwardFollowsCustody
  SettledAsOwed
PROPERTIES
  ArbitratedEndsPayments
  NothingCompletedAfterExpiry
  ImplementsChannel
  PoolIsSettled
