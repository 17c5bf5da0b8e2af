SPECIFICATION Spec
CONSTANTS
  MaxTurns = 1
  MaxResponses = 3
  MaxDeltas = 1
  MaxInFlight = 2
  MaxRelinks = 0
  MayOutlastCap = TRUE
  Texts = {"stop", "inner", "short", "long", "blank"}
  Tools = {"fast", "slow", "end"}
PROPERTIES
  ChatterEscapeAfterTwoSilent
VIEW View
CHECK_DEADLOCK FALSE
