SPECIFICATION FairSpec
CONSTANTS
  Lights = {0, 30, 100}
  Manuals = {40, 41, 100}
  Gaps = {4, 7}
  MaxInputs = 4
INVARIANTS
  TypeOK
PROPERTIES
  HeadlightsDoNotFlip
  RestartKeepsLight
  CatchesUp
CHECK_DEADLOCK FALSE
