SPECIFICATION FairSpec
CONSTANTS
  N = 3
  Deadlines = {}
  RwinSizes = {2, 3}
  MaxSize = 2
  InitialSymbols = 3
  MaxId = 4
  MaxLag = 3
  MaxFrames = 2
  IdSpace = 64
  UNDEFINED_SYMBOL_DEADLINE = UNDEFINED_SYMBOL_DEADLINE
INVARIANTS NothingLostForGood CreditProtectsRing WindowIsSound
PROPERTY EverythingArrives
CHECK_DEADLOCK FALSE
