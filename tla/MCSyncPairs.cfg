\* One device holds two records at first, sent in two chunks. Of c the commands
\* come from another process than its watcher's.
SPECIFICATION FairSpec
CONSTANTS
  Keys = {1, 2}
  MaxVersion = 2
  MaxEvents = 2
  FirstDirections = {"both", "pull"}
  NewDirections = {"push"}
  Dashboards = {"p"}
INVARIANTS
  SameDecision
PROPERTIES
  NothingIsHidden
  OnlyCompletedAdvance
  StoresOnlyWhileAllowed
  ForgetEnds
  Converges
\* The devices' controls can end both pairings.
CHECK_DEADLOCK FALSE
