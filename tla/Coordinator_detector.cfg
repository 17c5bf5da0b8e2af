SPECIFICATION FairSpec
CONSTANTS
  MaxInputs = 4
  ChimeLimit = 2
INVARIANTS
  TypeOK
  OneLoop
PROPERTIES
  ModelsIdleWhenClosed
  ArmedWhenIdle
  RingEnds
  RingsOnlyIfSet
CHECK_DEADLOCK FALSE
