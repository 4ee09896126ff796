SPECIFICATION Spec
CONSTANTS
  Connections = {"one", "other"}
  Paths = {1, 2}
  Served = {1}
  Fields = {1, 2}
  Loads <- MCLoads
  MaxBacklog = 4
  MaxDebug = 0
  Capacity = 8
  TopBit = 2
INVARIANT AnsweredAsAsked
INVARIANT FramesWhole
CHECK_DEADLOCK FALSE
PROPERTY CallsAnswered
