CONSTANTS
  c1 = c1  c2 = c2
  Service = service  Nobody = nobody
  ByHand  = {hand}
  Clis    <- TwoClis
  MaxUpsets   = 1
  MaxCommands = 3
SPECIFICATION FairSpec
CHECK_DEADLOCK FALSE
INVARIANTS
  IndInv
  ReportsAreTrue
  FailuresHaveAReason
PROPERTIES
  ServiceComesUp
