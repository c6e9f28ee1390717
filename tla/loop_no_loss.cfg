SPECIFICATION Spec
CONSTANTS
  None = None
  Partition = {p1}
  Unmapped = {}
  Instance = {i1}
  Idempotent = TRUE
  MaxOffset = 2
  MaxStarts = 1
  MaxMoves = 0
  MaxCrashes = 0
  MaxPanics = 0
  MaxCopies = 1
INVARIANTS CommittedOnlyAfterAck
CHECK_DEADLOCK FALSE
