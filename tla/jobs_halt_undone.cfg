SPECIFICATION Spec
CONSTANTS
  None = None
  Job = {j1}
  Mirror = {m1, m2, m3}
  Thread = {t1, t2}
  Booter = {}
  Watcher = {}
  Overlap = TRUE
  MaxPanics = 0
  MaxDbFails = 0
  MaxCrashes = 0
  Request = {"start", "update", "halt"}
SYMMETRY Symmetry
INVARIANTS HaltedStayPaused
CHECK_DEADLOCK FALSE
