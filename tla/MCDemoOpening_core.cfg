CONSTANTS
  o1 = o1
  o2 = o2
  None = None
  Torn = Torn
  Openings = {o1, o2}
  Transactions <- MCTransactions
  Answers <- MCAnswers
  Terms <- MCTerms
  BaseSize = 3
  OutputSize = 1
  MaxCrashes = 2
SPECIFICATION FairSpec
INVARIANTS
  TypeOK
  SentIsSaved
  SelectedIsUnspent
  FundingPaysItsRate
PROPERTIES
  LastOpens
CHECK_DEADLOCK FALSE
