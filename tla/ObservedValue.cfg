SPECIFICATION MCSpec
CONSTANTS
  Ops <- MCOps
  Parametrable = {"parse", "write"}
  NO_PARAM = "none"
  Calls <- MCCalls
  None = "null"
  Values = {0, 1}
  PROTOOPARGS_MAX = 1
  MaxDepth = 3
  MaxSteps = 4
CHECK_DEADLOCK FALSE
PROPERTIES
  ObservedValueIsKept
