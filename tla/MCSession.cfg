CONSTANTS
  Topics = {room}
  MaxReference = 2
  MaxMessages = 2
  MaxConnections = 2
SPECIFICATION FairSpec
INVARIANTS
  MessagesInOrder
  WaitsAreOwed
  CleanMeansClosed
PROPERTIES
  CloseEndsWaiting
CHECK_DEADLOCK FALSE
