SPECIFICATION Spec
CONSTANTS
  EnterFails = TRUE
  Entries = 2
  CqEntries = 4
  Width = 8
  Window = 2
  FromCallbacks = 1
  Submits = 4
  Multishot = {2}
  Mores = 2
  Delays = {TRUE, FALSE}
INVARIANT TakenInOrder
INVARIANT ReportedInOrder
PROPERTY NoOverflow
PROPERTY AllReported
CHECK_DEADLOCK FALSE
