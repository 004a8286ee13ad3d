CONSTANTS
  Capacity = 1
  MaxEvents = 8
  OpenStatuses = {"Connecting", "Connected"}
  Watchers = {"w1", "w2"}
SPECIFICATION ObserversSpec
INVARIANTS
  GapsAreReported
  NoLostWakeUp
PROPERTIES
  CaughtUpMissesNothing
CHECK_DEADLOCK FALSE
