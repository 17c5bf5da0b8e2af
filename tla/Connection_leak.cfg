SPECIFICATION Spec
CONSTANTS
  MaxSessions = 2
  MaxSockets = 3
  MaxAsks = 0
  MaxEnds = 0
  MaxRetries = 1
INVARIANTS
  EndedKeepsNoSocket
CHECK_DEADLOCK FALSE
