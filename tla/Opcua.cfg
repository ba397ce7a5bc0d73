CONSTANTS
  i1 = i1  o1 = o1  n1 = n1  n2 = n2  v0 = v0  v1 = v1  None = None
  Inputs  <- OneInput
  Outputs <- OneOutput
  Nodes   <- TwoNodes
  Owner   <- AllOfO1
  Variable <- OnlyN1
  Values  <- TwoValues
  Default = v0
  MaxFaults = 1
SPECIFICATION FairSpec
INVARIANTS
  IndInv
  ServedOrLost
  FinalRoundIsWhole
PROPERTIES
  DeadSessionIsReplaced
  LostValueIsRewritten
