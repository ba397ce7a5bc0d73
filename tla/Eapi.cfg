CONSTANTS
  o1 = o1  o2 = o2  a1 = a1  a2 = a2  None = None
  Outputs <- OneOutput
  Actions <- TwoActions
  QueueSize = 2
  PoolSize  = 2
  MaxLosses = 1
SPECIFICATION FairSpec
CHECK_DEADLOCK FALSE
INVARIANTS
  IndInv
  SendersHaveAChannel
PROPERTIES
  FinalIsLast
  ActionAnswered
  RecoversUnlessFull
