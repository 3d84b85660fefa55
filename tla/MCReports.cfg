SPECIFICATION MCFairSpec
CONSTANTS
  Pns = {1, 2, 3, 4}
  Room = 3
  MaxLosses = 3
  MaxFlight = 3
INVARIANTS
  TimersAreSound
  ReportsAreSound
PROPERTIES
  ReportedUnlessLost
  SilentPeerIsGivenUp
  EndedStreamIsDelivered
CHECK_DEADLOCK FALSE
