CONSTANTS
  w1 = w1  w2 = w2  None = None
  Workers <- TwoWorkers
  Shape   <- OneShape
  Serial  = FALSE
  MaxWire = 3
SPECIFICATION FairSpec
INVARIANTS
  IndInv
  OwnAnswerOrLate
PROPERTIES
  TransactionsEnd
  DeadStreamIsDropped
