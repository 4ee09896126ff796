SPECIFICATION Spec
CONSTANTS
  Fds <- MCFds
  Listener = 1
  Files = 4
  MaxEvents = 2
  Replies = 2
INVARIANT TypeOK
INVARIANT ClosedForCause
INVARIANT EventsReachTheirOwn
INVARIANT TablesAgree
INVARIANT OutputWatched
PROPERTY DoomedGetsClosed
PROPERTY OutputGetsWritten
CHECK_DEADLOCK FALSE
