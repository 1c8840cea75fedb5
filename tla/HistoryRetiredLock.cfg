SPECIFICATION Spec
CONSTANTS
  a1 = a1  a2 = a2  b1 = b1  A = A  B = B  f1 = f1  f2 = f2
  Events <- PairEvents
  Episodes = {A, B}
  Episode <- TwoEpisodes
  SourceAt <- AllCold
  Prioritized = {}
  Rank <- PairRank
  Phases <- LockPhases
  Cost <- UnitCost
  Flushers = {f1}
  Latency = 0
  Retirement = TRUE
  LeaseTicks = 2
  DayTicks = 9
  LiveTicks = 1
  MaxBackoff = 1
  RetentionTicks = 9
  Budget = 6
  LiveUnits = 0
  FlushUnits = 3
  ColdRows = 2
  LiveRows = 0
  MaxReceipts = 2
  MaxTime = 2
CHECK_DEADLOCK FALSE
INVARIANTS LockOwnerPending
