SPECIFICATION Spec
CONSTANTS
  Cap = 2
  Prime = 1
  WaitCap = 2
  MaxChunk = 2
  MaxStall = 1
  MaxTime = 6
  MaxDeltas = 3
  MaxGen = 2
INVARIANTS
  TypeOK
  PlayheadHonest
  TrackBounded
  PacingEnds
  StarvedMeansSilent
  FlushedSoonSilent
CHECK_DEADLOCK FALSE
