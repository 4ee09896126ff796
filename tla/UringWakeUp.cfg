SPECIFICATION Spec
CONSTANTS
  EnterFails = FALSE
  Entries = 2
  CqEntries = 4
  Width = 8
  Window = 2
  FromCallbacks = 0
  Submits = 2
  Multishot = {}
  Mores = 0
  Delays = {TRUE}
PROPERTY WakeUpNotLost
CHECK_DEADLOCK FALSE
