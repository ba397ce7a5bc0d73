CONSTANTS
  i1 = i1  i2 = i2  p1 = p1  o1 = o1  o2 = o2
  InputThreads    <- OneInput
  ProgramThreads  <- OneProgram
  OutputThreads   <- OneOutput
  ServiceSpawners <- NoThreads
  ServicesWrite   = FALSE
  StopTimeout     = FALSE
  Hanging         <- NoThreads
SPECIFICATION FairRoundsSpec
INVARIANT
  OneLateRoundAtMost
PROPERTIES
  StartupCompletes
  ShutdownCompletes
