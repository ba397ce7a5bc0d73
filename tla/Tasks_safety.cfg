CONSTANTS
  i1 = i1  i2 = i2  p1 = p1  o1 = o1  o2 = o2
  InputThreads    <- TwoInputs
  ProgramThreads  <- OneProgram
  OutputThreads   <- TwoOutputs
  ServiceSpawners <- NoThreads
  ServicesWrite   = FALSE
  StopTimeout     = FALSE
  Hanging         <- NoThreads
SYMMETRY Symmetry
SPECIFICATION Spec
INVARIANTS
  IndInv
  ProgramsAfterInputs
  ActiveAllReady
  FinalSyncReachesDevices
  JoinNeverMeetsAGate
PROPERTIES
  ImplementsLifecycle
