SPECIFICATION Spec
CONSTANTS
  Tokens = {1, 2, 3}
  Horizons = {1}
  Delay = 1
  Gap = 1
  Attempts = 1
  Calls = 1
  Controls = 1
  MaxRows = 2
  MaxTime = 3
CHECK_DEADLOCK FALSE
INVARIANTS OnlyEarliestCounts
