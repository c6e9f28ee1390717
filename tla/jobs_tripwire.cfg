SPECIFICATION FairSpec
CONSTANTS
  None = None
  Job = {j1}
  Mirror = {m1, m2, m3}
  Thread = {t1}
  Booter = {}
  Watcher = {w}
  Overlap = TRUE
  MaxPanics = 0
  MaxDbFails = 0
  MaxCrashes = 0
  Request = {"start"}
PROPERTIES TripwireHalts
CHECK_DEADLOCK FALSE
