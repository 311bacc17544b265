\* c records memories, either device tags at first; the clocks differ by more
\* than all classifications take, one way or the other.
SPECIFICATION FairSpec
CONSTANTS
  Memories = {1}
  Recorders = {"c"}
  FirstDeferring = {{"p"}, {"c"}}
  Clocks <- FarApart
  Stride = 100
  MaxEvents = 2
INVARIANTS
  SameStampSameTags
PROPERTIES
  Served
  Agree
\* The devices may agree and do nothing more.
CHECK_DEADLOCK FALSE
