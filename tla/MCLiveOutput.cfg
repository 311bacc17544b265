\* Two streams of a job that may print one line more than the buffer holds.
SPECIFICATION FairSpec
CONSTANTS
  s1 = s1
  s2 = s2
  Streams = {s1, s2}
  MaxLines = 3
  Size = 2
INVARIANTS
  InOrder
  NothingMissed
PROPERTY AStreamEnds
\* Both streams may have ended.
CHECK_DEADLOCK FALSE
