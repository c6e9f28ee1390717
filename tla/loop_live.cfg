SPECIFICATION FairSpec
CONSTANTS
  None = None
  Partition = {p1}
  Unmapped = {}
  Instance = {i1, i2}
  Idempotent = FALSE
  MaxOffset = 2
  MaxStarts = 2
  MaxMoves = 1
  MaxCrashes = 1
  MaxPanics = 1
  MaxCopies = 2
PROPERTIES EventuallySettled
CHECK_DEADLOCK FALSE
