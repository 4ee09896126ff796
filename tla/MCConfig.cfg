SPECIFICATION Spec
CONSTANTS
  Scalars = {1, 2}
  MaxNodes = 6
  MaxDepth = 3
  MaxDocuments = 3
INVARIANT ReturnedAsWritten
INVARIANT AssertsForCause
CHECK_DEADLOCK FALSE
