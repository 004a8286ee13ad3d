CONSTANTS
  Registers = {g1,g2}
  Calls = {c1}
  Shutdowns = {s1}
  CommandCapacity = 1
  MaxRequests = 3
SPECIFICATION FairSpec
INVARIANTS
  WaitingHasResponder
  AbandonedNeverRuns
  RecordsAreCurrent
  ChannelsFollowHandles
PROPERTIES
  RequestsAndWorkerEnd
CHECK_DEADLOCK FALSE
