SPECIFICATION Spec
CONSTANTS
  MaxTurns = 3
  MaxResponses = 2
  MaxDeltas = 0
  MaxInFlight = 1
  MaxRelinks = 1
  MayOutlastCap = FALSE
  Texts = {"inner", "short", "long"}
  Tools = {}
INVARIANTS
  AnsweredAtMostOnce
  PendingTalkoverIsJudged
PROPERTIES
  ImplementsPolicy
VIEW View
CHECK_DEADLOCK FALSE
