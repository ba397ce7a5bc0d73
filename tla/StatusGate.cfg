CONSTANTS
  InputWaiters   = {i1}
  ProgramWaiters = {}
  OutputWaiters  = {o1}
  Setters        = {s1, s2}
  None           = None
SPECIFICATION FairSpec
INVARIANTS
  LostWakeupCostsOneStep
PROPERTIES
  OpenGateIsPassed
