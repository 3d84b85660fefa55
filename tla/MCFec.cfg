SPECIFICATION MCSpec
CONSTANTS
  MaxId = 9
  MaxSize = 4
  IdSpace = 64
INVARIANTS
  RecoveredFrameIsExact
  SlotsAreExact
  DegreesAreExact
  TrackerIsExact
  RingIsExact
PROPERTIES
  WindowsAreExact
CHECK_DEADLOCK FALSE
