\* A background run, a waiting taker of each implementation and a dashboard that starts.
SPECIFICATION FairSpec
CONSTANTS
  bg = bg
  bg2 = bg2
  py = py
  py2 = py2
  go = go
  go2 = go2
  ui = ui
  Procs = {bg, py, go, ui}
  Background = {bg}
  Blocking = {py, go}
  GoProcs = {go}
  Cleaners = {ui}
  Nobody = Nobody
  MaxCrashes = 1
INVARIANTS
  TypeOK
  MutualExclusion
  HolderIsNamed
  NamedHolderHolds
  OnlyPreemptibleTerminated
PROPERTIES
  ImplementsSlot
  BackgroundStepsAside
\* Every process may have ended.
CHECK_DEADLOCK FALSE
