CONSTANTS
  Topics = {room, lobby}
  MaxReference = 4
SPECIFICATION Spec
SYMMETRY TopicSymmetry
INVARIANTS
  TypeOK
  ReferencesAreFresh
  WaitingHasRequest
  PendingIsOwed
  DiscardedRepliesUnmatched
PROPERTIES
  JoinedByOwnGeneration
  ImplementsLifecycle
