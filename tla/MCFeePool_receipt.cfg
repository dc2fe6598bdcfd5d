CONSTANTS
  b1 = b1
  b2 = b2
  Batches <- MCBatches
  Price <- MCPrice
  PoolOutput = 4
  Fee = 1
  FinalSequence = 5
  ArbiterFees = {1}
  CloseTargets = {1}
  Deadlines = {1}
  QuoteExpiry = 1
  RefundLock = 2
  MaxTime = 2
  MaxRequests = 2
SPECIFICATION FairSpec
PROPERTY
  ReceiptBeforeDeadline
