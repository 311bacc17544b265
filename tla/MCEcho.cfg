\* Two visits, two questions, one stop and one failure.
SPECIFICATION FairSpec
CONSTANTS
  Leases <- TwoLooks
  QueueLimit = 1
  Sentences = 1
  MaxTurns = 2
  MaxConversations = 2
  MaxVisits = 2
  MaxStops = 1
  MaxFaults = 1
INVARIANTS
  NobodyIsLockedOut
PROPERTIES
  QuestionsSettle
  WorkerIsReleased
  LeavingCutsNothing
\* Everybody may be gone and everything answered.
CHECK_DEADLOCK FALSE
