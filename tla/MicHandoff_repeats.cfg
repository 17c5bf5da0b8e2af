SPECIFICATION Spec
CONSTANTS
  MaxFrames = 7
  FireFrame = 2
  Backlog = 1
  Recent = 4
  RingFrames = 3
  HubQCap = 2
  SendFrames = 2
  PrerollCap = 3
  MaxRetries = 1
  MaxBreaks = 1
INVARIANTS
  SentNoFrameTwice
CHECK_DEADLOCK FALSE
