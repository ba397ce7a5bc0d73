CONSTANTS
  w1 = w1  w2 = w2  None = None
  Workers <- TwoWorkers
  Shape   <- OneShape
  Serial  = TRUE
  MaxWire = 3
SPECIFICATION FairSpec
CHECK_DEADLOCK FALSE
PROPERTY
  TransactionsEnd
