\* A file or an inline source of three versions, in two projects.
SPECIFICATION FairSpec
CONSTANTS
  v1 = v1
  v2 = v2
  v3 = v3
  None = None
  Projects = {"home", "other"}
  Home = "home"
  Chunks = {"a", "b"}
  Versions = {v1, v2, v3}
  ChunksOf <- Edited
  Kinds = {"file", "inline"}
  MaxEvents = 3
INVARIANTS
  PurgedStaysGone
  WholeVersion
PROPERTIES
  OwnSkipMeansCurrent
  Repaired
\* A purged source that nobody restores is never written again.
CHECK_DEADLOCK FALSE
