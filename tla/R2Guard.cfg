SPECIFICATION Spec
CONSTANTS
  c1 = c1  c2 = c2  k1 = k1
  Clients <- MCClients
  Keys <- GuardKeys
  Singles <- GuardSingles
  Plans <- GuardPlans
  Stop <- GuardStop
  Warn <- GuardWarn
  Free <- GuardFree
  Baselines <- GuardBaselines
  StartUsage <- GuardUsage
  StartBucket <- GuardBuckets
  Metadata = 1
  PutLimit = 3
  DayTicks = 1
  MonthDays = 2
  SafetyDays = 3
  CycleOffset = 1
  BatchTicks = 2
  MarginTicks = 0
  SingleTicks = 2
  DispatchTicks = 3
  MaxTime = 2
SYMMETRY ClientSymmetry
CHECK_DEADLOCK FALSE
INVARIANTS CatalogueCovers BilledWithinFree
PROPERTIES PauseHolds
