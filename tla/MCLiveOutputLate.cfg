\* One stream, which may be opened at any time.
SPECIFICATION FairSpec
CONSTANTS
  s1 = s1
  s2 = s2
  Streams = {s1}
  MaxLines = 1
  Size = 2
PROPERTY EveryStreamEnds
CHECK_DEADLOCK FALSE
