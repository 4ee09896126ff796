SPECIFICATION QueueSpec
CONSTANTS
  Types = {t1, t2}
  MaxQueued = 3
  Loops = {"epoll", "uring"}
INVARIANT QueueTypeOK
INVARIANT WakeUpPending
INVARIANT CalledInOrder
PROPERTY EventuallyCalled
CHECK_DEADLOCK FALSE
