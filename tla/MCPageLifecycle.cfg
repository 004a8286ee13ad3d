CONSTANT MaxEvents = 7
SPECIFICATION Spec
INVARIANTS
  WantedIsOwed
  AwayIsSuspended
PROPERTY
  ResumedWhenBack
CHECK_DEADLOCK FALSE
