SPECIFICATION Spec
CONSTANTS
  s1 = s1  s2 = s2
  Scans <- TwoScans
  Limit = 3
  Chunk = 2
  Costs = {1, 2}
  MonthTicks = 2
  Skew = 1
  MaxFlight = 2
  MaxTime = 3
SYMMETRY ScanSymmetry
CHECK_DEADLOCK FALSE
INVARIANTS TypeOK Ledgered WithinLimit
