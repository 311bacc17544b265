\* Three connections make a pair and one that is refused, or that comes while
\* the pair is cleaning up. Two held frames overflow the list.
SPECIFICATION FairSpec
CONSTANTS
  MaxConns = 3
  MaxFrames = 3
  HeldLimit = 1
INVARIANT TypeOK
PROPERTIES
  WireSpec
  FramesArrive
  PartnerIsClosed
\* Connections end.
CHECK_DEADLOCK FALSE
