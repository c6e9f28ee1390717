SPECIFICATION FairSpec
CONSTANTS
  None = None
  Job = {j1}
  Mirror = {m1, m2, m3}
  Thread = {t1}
  Booter = {}
  Watcher = {}
  Overlap = TRUE
  MaxPanics = 1
  MaxDbFails = 0
  MaxCrashes = 0
  Request = {"start", "stop"}
PROPERTIES PanicShutsDown
CHECK_DEADLOCK FALSE
