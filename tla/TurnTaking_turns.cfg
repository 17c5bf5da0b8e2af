SPECIFICATION FairSpec
CONSTANTS
  MaxTurns = 2
  MaxResponses = 2
  MaxDeltas = 1
  MaxInFlight = 1
  MaxRelinks = 1
  MayOutlastCap = FALSE
  Texts = {"long"}
  Tools = {}
INVARIANTS
  TypeOK
PROPERTIES
  GateComesDown
CHECK_DEADLOCK FALSE
