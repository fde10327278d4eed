CONSTANTS
  Buffers = 3
  PerFrame = 1
  Made <- SomeMade
  FrameMod = 2
SPECIFICATION FairSpec
INVARIANTS
  TypeOK
  NeverOverwritten
PROPERTIES
  ImplementsQueue
  RingDrains
CHECK_DEADLOCK FALSE
