SPECIFICATION MCSpec
CONSTANTS
  MaxPn = 4
INVARIANTS
  AcksAreSound
  PluginQueuesAreSound
  FateIsSound
PROPERTIES
  WindowsFollowTheirAlgorithm
CHECK_DEADLOCK FALSE
