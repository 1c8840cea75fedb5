SPECIFICATION Spec
CONSTANTS
  a1 = a1  a2 = a2  b1 = b1  A = A  B = B  f1 = f1  f2 = f2
  Events <- PairEvents
  Episodes = {A}
  Episode <- OneEpisode
  SourceAt <- AllCold
  Prioritized = {}
  Rank <- PairRank
  Phases <- MixedPhases
  Cost <- UnitCost
  Flushers = {f1, f2}
  Latency = 1
  Retirement = TRUE
  LeaseTicks = 2
  DayTicks = 9
  LiveTicks = 1
  MaxBackoff = 2
  RetentionTicks = 0
  Budget = 3
  LiveUnits = 0
  FlushUnits = 2
  ColdRows = 2
  LiveRows = 0
  MaxReceipts = 2
  MaxTime = 2
SYMMETRY FlusherSymmetry
CHECK_DEADLOCK FALSE
INVARIANTS TypeOK DeliveredComplete EpisodeOrder LockOwnerOpen
PROPERTIES DeliveryKept
