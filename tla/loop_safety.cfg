SPECIFICATION Spec
CONSTANTS
  None = None
  Partition = {p1, u1}
  Unmapped = {u1}
  Instance = {i1, i2}
  Idempotent = TRUE
  MaxOffset = 2
  MaxStarts = 2
  MaxMoves = 1
  MaxCrashes = 1
  MaxPanics = 1
  MaxCopies = 2
SYMMETRY Symmetry
INVARIANTS TypeOK CommittedIsSettled DuplicatesNeedReassignment
PROPERTIES ContractSpec
CHECK_DEADLOCK FALSE
