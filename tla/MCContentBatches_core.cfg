CONSTANTS
  full = full
  other = other
  tail = tail
  seed = seed
  SeedHash = seed
  Digests <- MCDigests
  Length <- MCLength
  Seeds <- MCSeeds
  OtherSeeds <- MCOtherSeeds
  QuoteTerms <- MCQuoteTerms
  Batches <- MCBatches
  BlockSize = 3
  MaxSeedBlocks = 3
  MaxContentBatchItems = 3
  AmountLimit = 16
  MaxRequests = 2
SPECIFICATION Spec
INVARIANTS
  TypeOK
  ChargedByLength
  EvidenceAgrees
  RequestedIsDeliverable
  WholeFileIsForSale
CHECK_DEADLOCK FALSE
