CONSTANTS
  Topic = room
  Joins = {j1}
  Leaves = {}
  Calls = {c1}
  Casts = {k1, k2}
  BinaryRefused = {k2}
  MaxConnections = 2
  Workloads <- BufferedPushes
SPECIFICATION Spec
INVARIANTS
  EveryRequestHeldOnce
  SentAtMostOnce
  BufferWithinLimits
  TrackedPushesHaveCallers
CHECK_DEADLOCK FALSE
