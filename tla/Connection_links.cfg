SPECIFICATION FairSpec
CONSTANTS
  MaxSessions = 2
  MaxSockets = 4
  MaxAsks = 2
  MaxEnds = 1
  MaxRetries = 2
INVARIANTS
  TypeOK
  CapsAreOwn
  AskSentAtMostOnce
  SpeakerForOpenLink
PROPERTIES
  GivesUpOnlyAfterFailuresInARow
  LinkRestoredOrEnded
CHECK_DEADLOCK FALSE
