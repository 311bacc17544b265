SPECIFICATION Spec
CONSTANTS
  r1 = r1
  r2 = r2
  r3 = r3
  ingest = ingest
  refresh = refresh
  Requests = {r1, r2}
  Commands = {ingest}
  KeyOf <- OneCommand
  MaxRows = 2
  MaxUpsets = 1
INVARIANT CancelledJobIsStopped
CHECK_DEADLOCK FALSE
