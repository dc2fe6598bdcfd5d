CONSTANTS
  b1 = b1
  b2 = b2
  Batches <- MCBatches
  Price <- MCPrice
  PoolOutput = 4
  Fee = 1
  FinalSequence = 5
  ArbiterFees = {1}
  CloseTargets = {}
  Deadlines = {1}
  QuoteExpiry = 1
  RefundLock = 1
  MaxTime = 1
  MaxRequests = 1
  Nonces = {1}
  MaxRetrievals = 1
  NotReady = NotReady
SPECIFICATION RetrievalSpec
INVARIANT
  AcceptableWithCurrentPool
