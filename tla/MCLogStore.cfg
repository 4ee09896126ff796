SPECIFICATION Spec
CONSTANTS
  PageSize = 2
  MaskLen = 2
  CacheSize = 2
  Kinds = {"lru", "oneShot"}
  Readers = {r1}
  MaxPages = 3
  MaxPush = 3
  MaxSent = 4
INVARIANT HoldsTheLog
INVARIANT DeliversTheLog
INVARIANT NoGap
INVARIANT PagesInUseHeld
PROPERTY AcceptedStays
CHECK_DEADLOCK FALSE
