CONSTANTS
  b1 = b1
  b2 = b2
  Batches <- MCBatches
  Price <- MCPrice
  PoolOutput = 3
  Fee = 1
  FinalSequence = 5
  ArbiterFees = {1}
  CloseTargets = {}
  Deadlines = {1}
  QuoteExpiry = 1
  RefundLock = 1
  MaxTime = 1
  MaxRequests = 2
  Nonces = {1, 2}
  MaxRetrievals = 2
  NotReady = NotReady
SPECIFICATION FairRetrieval
INVARIANTS
  RetrievalTypeOK
  RetrievedIsPayable
  AvailableIsAcceptable
PROPERTIES
  ReadyIsRetrieved
