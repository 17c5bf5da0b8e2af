SPECIFICATION Spec
CONSTANTS
  MaxTurns = 1
  MaxResponses = 1
  MaxDeltas = 1
  MaxInFlight = 2
  MaxRelinks = 0
  MayOutlastCap = FALSE
  Texts = {"stop", "long"}
  Tools = {}
PROPERTIES
  SilencedStaysSilent
VIEW View
CHECK_DEADLOCK FALSE
