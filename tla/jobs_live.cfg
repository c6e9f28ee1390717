SPECIFICATION FairSpec
CONSTANTS
  None = None
  Job = {j1}
  Mirror = {m1, m2}
  Thread = {t1, t2}
  Booter = {}
  Watcher = {}
  Overlap = TRUE
  MaxPanics = 1
  MaxDbFails = 0
  MaxCrashes = 0
  Request = {"start", "stop", "restart", "halt"}
PROPERTIES RequestsFinish
CHECK_DEADLOCK FALSE
