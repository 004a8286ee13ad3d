CONSTANTS
  Keys = {ann, bob}
  Metas = {m1, m2}
  MaxJoins = 2
  MaxStates = 2
  Slots = 2
SPECIFICATION Spec
SYMMETRY Symmetry
INVARIANTS
  StateBringsTruth
  ReportsCoverState
  FollowsPushedDiffs
CHECK_DEADLOCK FALSE
