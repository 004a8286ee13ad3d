CONSTANTS
  Topic = room
  Joins = {j1, j2}
  Leaves = {l1}
  Calls = {}
  Casts = {}
  BinaryRefused = {}
  MaxConnections = 1
  Workloads <- JoinsAndLeaves
SPECIFICATION Spec
SYMMETRY RequestSymmetry
INVARIANTS
  EveryRequestHeldOnce
  WaitingHasWatchdog
  StatusIsJoinedWhenJoined
  WantedUnlessLeftProgresses
PROPERTIES
  OldTimeoutSparesNewJoin
CHECK_DEADLOCK FALSE
