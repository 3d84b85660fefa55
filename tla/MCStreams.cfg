SPECIFICATION MCSpec
CONSTANTS
  Ids = {2, 6}
  MaxBytes = 2
  MaxRoom = 2
  MinRoom = 1
  MaxLosses = 1
  MaxPackets = 4
  InitialMaxData = 3
  InitialMaxStreamData = 9
  ReceiveWindow = 9
  Calls = {}
INVARIANTS
  StreamsAreSound
  BlocksAreInOrder
  NothingIsLost
  EndIsTheEnd
  NoErrorIsRaised
PROPERTIES
  TurnsAreTaken
CHECK_DEADLOCK FALSE
