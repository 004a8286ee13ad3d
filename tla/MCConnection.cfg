CONSTANTS
  Connects = {c1}
  Disconnects = {d1, d2}
  Shutdowns = {s1}
  Pings = {p1}
  ConnectOnStart = TRUE
  CustomPolicy = TRUE
  MaxHeartbeats = 2
  AttemptCap = 1
SPECIFICATION Spec
INVARIANTS
  TypeOK
  HeartbeatsAccounted
PROPERTIES
  TimeoutMeansSilence
  ImplementsLifecycle
  NothingWaitsForever
  AbandonedDriverEnds
CHECK_DEADLOCK FALSE
