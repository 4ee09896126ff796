SPECIFICATION Spec
CONSTANTS
  Fds <- MCFds
  Listener = 1
  Files = 4
  MaxEvents = 2
  Replies = 1
CHECK_DEADLOCK FALSE
INVARIANT SlotsFree
