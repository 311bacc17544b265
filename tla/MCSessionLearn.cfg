\* Four turns, so that learners can hold two slot files while others come.
SPECIFICATION FairSpec
CONSTANTS
  Turns = 4
  MaxJobs = 1
  MaxUpsets = 1
INVARIANTS
  UnreadTurnHasALearner
PROPERTY TurnsAreLearned
\* Every learner may be done.
CHECK_DEADLOCK FALSE
