SPECIFICATION Spec
CONSTANTS
  MaxActivities = 3
  MaxInputs = 6
INVARIANTS
  LiveListens
  OneDetectorUnlessUnlucky
CHECK_DEADLOCK FALSE
