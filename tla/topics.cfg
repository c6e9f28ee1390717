SPECIFICATION Spec
CONSTANTS
  None = None
  Topic = {a, b}
  Target = {x, y}
  RuleCount = 2
  MaxPartitions = 2
  MaxStarts = 2
  MaxChanges = 3
SYMMETRY Symmetry
INVARIANTS SubscribedIsMapped OneSourcePerTarget OneTargetEver PartitionCountsTrue
CHECK_DEADLOCK FALSE
