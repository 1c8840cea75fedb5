SPECIFICATION Spec
CONSTANTS
  MaxTime = 2
  MaxTxs = 3
  MaxScans = 2
  MaxFaults = 2
  PageSize = 1
  HeadPages = 1
  RepairPages = 1
  Overlap = 1
  SigLimit = 2
CHECK_DEADLOCK FALSE
INVARIANTS FailuresHoldBack
