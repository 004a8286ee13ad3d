CONSTANTS
  Topic = room
  Joins = {j1, j2}
  Leaves = {l1}
  Calls = {}
  Casts = {}
  BinaryRefused = {}
  MaxConnections = 1
  Workloads <- JoinsThenLeave
SPECIFICATION Spec
INVARIANTS
  WantedChannelProgresses
CHECK_DEADLOCK FALSE
