\* Two Python takers meet a background run.
SPECIFICATION Spec
CONSTANTS
  bg = bg
  bg2 = bg2
  py = py
  py2 = py2
  go = go
  go2 = go2
  ui = ui
  Procs = {bg, py, py2}
  Background = {bg}
  Blocking = {py}
  GoProcs = {}
  Cleaners = {}
  Nobody = Nobody
  MaxCrashes = 0
INVARIANT OnlyPreemptibleSignalled
\* Every process may have ended.
CHECK_DEADLOCK FALSE
