SPECIFICATION Spec
CONSTANTS
  MaxTime = 3
  MaxTxs = 2
  MaxScans = 2
  MaxFaults = 0
  PageSize = 1
  HeadPages = 1
  RepairPages = 1
  Overlap = 1
  SigLimit = 1
CHECK_DEADLOCK FALSE
INVARIANTS OverlapIsRead
