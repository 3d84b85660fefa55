SPECIFICATION MCSpec
CONSTANTS
  Ops <- MCOps
  Parametrable = {"parse", "write"}
  NO_PARAM = "none"
  Calls <- MCCalls
  None = "null"
  Values = {0, 1}
  PROTOOPARGS_MAX = 1
  MaxDepth = 3
  MaxSteps = 4
INVARIANTS
  ConnectionIsSound
  ExchangeIsSound
PROPERTIES
  PluginsAreWhole
  CallsAreIsolated
CHECK_DEADLOCK FALSE
