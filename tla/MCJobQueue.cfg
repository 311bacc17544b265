SPECIFICATION FairSpec
CONSTANTS
  r1 = r1
  r2 = r2
  r3 = r3
  ingest = ingest
  refresh = refresh
  Requests = {r1, r2, r3}
  Commands = {ingest, refresh}
  KeyOf <- TwoAlike
  MaxRows = 2
  MaxUpsets = 2
INVARIANTS
  OneRunningRow
  DoneMeansSuccess
PROPERTIES
  EndedStaysEnded
  RequestsAreSeen
  ImplementsLifecycle
  QueuedJobsRun
  RunsEnd
CHECK_DEADLOCK FALSE
