CONSTANTS
  Keys = {ann}
  Metas = {m1, m2}
  MaxJoins = 1
  MaxStates = 1
  Slots = 2
SPECIFICATION Spec
INVARIANTS
  FollowsTheServer
CHECK_DEADLOCK FALSE
