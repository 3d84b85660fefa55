SPECIFICATION Spec
CONSTANTS
  Ids = {2}
  MaxBytes = 2
  MaxRoom = 2
  MinRoom = 1
  MaxLosses = 1
  MaxPackets = 3
  InitialMaxData = 9
  InitialMaxStreamData = 9
  ReceiveWindow = 9
  Calls = {"active", "reset"}
INVARIANTS
  NothingFollowsReset
CHECK_DEADLOCK FALSE
