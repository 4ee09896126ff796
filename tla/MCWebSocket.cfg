SPECIFICATION Spec
CONSTANTS
  Asked = {"Upgrade"}
  Answered = {"Upgrade"}
  Wanted <- MCWanted
  Capacity = 5
  Lengths = {1}
  Sends <- MCSends
  Extended = 2
  MaxQueued <- MCMaxQueued
  Partial = {"client"}
  MaxPublished = 1
INVARIANT TypeOK
INVARIANT ReceivedAsSent
INVARIANT HandshakeTaken
PROPERTY ClosedForGood
PROPERTY ServerReceives
CHECK_DEADLOCK FALSE
