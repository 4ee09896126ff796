SPECIFICATION Spec
CONSTANTS
  Connections = {"plain", "ssl"}
  Secure = {"ssl"}
  Base = 4
  Fields = {1, 2}
  Requests <- MCRequests
  ResponseSizes = {1, 2}
  Capacity = 7
  MaxSent <- MCMaxSent
INVARIANT CalledAsSent
INVARIANT AnswersWhole
PROPERTY RequestsAnswered
CHECK_DEADLOCK FALSE
