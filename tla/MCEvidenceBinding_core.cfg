CONSTANTS
  alice = alice
  bob = bob
  carol = carol
  b = b
  Keys = {alice, bob, carol}
  Openings <- MCOpenings
  Quotes <- MCQuotes
  Batches = {b}
  Threshold = 3
  FinalSequence = 5
  Fee = 1
  MaxSatoshis = 3
  ArbiterFees = {1}
  CloseTargets = {1}
  Deadlines = {4}
  StartNow = 3
  MaxNow = 4
  MaxHeight = 2
  MaxEvidence = 10
SPECIFICATION Spec
INVARIANTS
  TypeOK
  PaymentsAreQuoted
  AwardsAreClaimed
  SavedIsRestorable
PROPERTIES
  FrozenOnceRefundable
  ImplementsEngine
CHECK_DEADLOCK FALSE
