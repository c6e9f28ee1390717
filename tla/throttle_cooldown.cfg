SPECIFICATION SelfHealingSpec
CONSTANTS
  Throttle = {a, b}
  Sizes = {150, 8000}
  MaxTicks = 2
  MaxEdits = 1
INVARIANT AdjustmentsKeepApart
CHECK_DEADLOCK FALSE
