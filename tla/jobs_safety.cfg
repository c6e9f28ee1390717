SPECIFICATION Spec
CONSTANTS
  None = None
  Job = {j1}
  Mirror = {m1, m2}
  Thread = {t1, t2}
  Booter = {}
  Watcher = {}
  Overlap = TRUE
  MaxPanics = 1
  MaxDbFails = 1
  MaxCrashes = 0
  Request = {"start", "stop", "delete", "restart", "force", "stopAll", "startAll", "restartAll", "throttle", "update", "halt", "resume"}
SYMMETRY Symmetry
INVARIANTS TypeOK NoOrphan OneStopper DeadlockNeedsPanic HaltIsFinal
PROPERTIES ContractSpec
CHECK_DEADLOCK FALSE
