CONSTANTS
  Names       = {n1}
  U16Max      = 2
  U32Max      = 4
  ChannelSize = 2
  Unit        = 2
  U64Max      = 6
  Written     <- SomeIntervals
  MaxTime     = 11
SPECIFICATION LoopSpec
CHECK_DEADLOCK FALSE
INVARIANTS
  LoopTypeOK
  TotalMatchesIters
  InfoIsConsistent
  DueInTime
PROPERTIES
  NoBurst
