SPECIFICATION Spec
CONSTANTS
  a1 = a1  a2 = a2  b1 = b1  A = A  B = B  f1 = f1  f2 = f2
  Events <- PairEvents
  Episodes = {A, B}
  Episode <- TwoEpisodes
  SourceAt <- ColdFirst
  Prioritized = {}
  Rank <- PairRank
  Phases <- PlainPhases
  Cost <- UnitCost
  Flushers = {f1, f2}
  Latency = 1
  Retirement = FALSE
  LeaseTicks = 2
  DayTicks = 2
  LiveTicks = 1
  MaxBackoff = 2
  RetentionTicks = 1
  Budget = 2
  LiveUnits = 1
  FlushUnits = 2
  ColdRows = 1
  LiveRows = 1
  MaxReceipts = 2
  MaxTime = 2
SYMMETRY FlusherSymmetry
CHECK_DEADLOCK FALSE
INVARIANTS DailyBudget
