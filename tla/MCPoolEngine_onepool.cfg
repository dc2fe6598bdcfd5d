CONSTANTS
  f1 = f1
  f2 = f2
  low = low
  high = high
  Fundings <- MCFundings
  Amount <- MCAmount
  Locks = {1, 2}
  Rates <- MCRates
  Fee <- MCFee
  Payments = {0, 1}
  Awards = {0, 1}
  FinalSequence = 5
  MaxSatoshis = 5
  MaxSignatures = 6
SPECIFICATION Spec
INVARIANTS
  StateOfOnePool
CHECK_DEADLOCK FALSE
