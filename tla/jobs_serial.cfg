SPECIFICATION Spec
CONSTANTS
  None = None
  Job = {j1, j2}
  Mirror = {m1, m2, m3}
  Thread = {t1}
  Booter = {b}
  Watcher = {w}
  Overlap = FALSE
  MaxPanics = 0
  MaxDbFails = 0
  MaxCrashes = 1
  Request = {"start", "stop", "delete", "restart", "force", "stopAll", "startAll", "restartAll", "update", "halt", "resume"}
INVARIANTS StatusAgrees HaltedStayPaused
CHECK_DEADLOCK FALSE
