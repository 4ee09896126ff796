SPECIFICATION EchoSpec
CONSTANTS
  Connections = {"one", "other"}
  NumBufs = 2
  BufSize = 2
  CacheSize = 1
  RecordSize = 2
  Loads <- MCLoads
INVARIANT EchoedAsSent
INVARIANT BuffersCounted
CHECK_DEADLOCK FALSE
PROPERTY EchoesArrive
