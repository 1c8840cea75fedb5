SPECIFICATION Spec
CONSTANTS
  StateJobs = 3
  StateFaults = 2
  ThesisOwners = {1, 2}
  ThesisBought = 5
  ThesisSeason = 1
  ThesisMaxAge = 1
  ThesisSigs = {"s1"}
  ThesisSellers <- Seller
  ThesisAmounts = {2}
  ThesisReads = {1, 5}
  ThesisKinds <- Alerts
  ThesisTime = 3
  ThesisAlerts = 2
  RoutingProviders = {"a", "b"}
  RoutingMethods = {"tx", "page"}
  RoutingOrder <- Orders
  RoutingCost <- Costs
  RoutingPaged = {"page"}
  RoutingBudget = 7
  RoutingRetries = 1
  RoutingCool = 1
  RoutingPools = 3
  RoutingTime = 1
  RoutingFaults = 2
  ChainConfirm = 0
  ChainWindow = 3
  ChainMaxLog = 1
  ChainMinKept = 1
  ChainMined = {"buy", "out"}
  ChainBlocks = 3
  ChainForks = 1
  ChainFaults = 1
  FlowOriginals = {"a"}
  FlowOthers = {"b", "c"}
  FlowSeeds = 1
  FlowStarts <- Cohorts
  FlowHeld = 2
  FlowTransfers = 3
  FlowChecks = 2
  MigrationPages = 3
  MigrationRuns = 3
  MigrationFaults = 2
  RecoveryParts = {1, 2}
  RecoveryKeep = 2
  RecoveryRuns = 4
  RecoveryWrites = 1
  RecoveryFaults = 2
  OutcomeHorizons = {1}
  OutcomeDelay = 1
  OutcomeAhead = 1
  OutcomeTime = 4
  OutcomeAlerts = 1
  WaveWindow = 1
  WaveMaxMerged = 2
  WaveMaxKept = 1
  WaveTime = 2
  WavePerSecond = 2
  WaveTraits <- Seen
  QuietGap = 1
  QuietLength = 1
  QuietSamples = 1
  QuietMemory = 1
  QuietHour = 1
  QuietDay = 4
  QuietTime = 4
  QuietRuns = 3
  QuietFaults = 1
  GrantLimit = 3
  GrantCeiling = 2
  GrantCosts = {1, 2}
  GrantTries = 2
  GrantBudget = 3
  GrantMonths = 1
  GrantRuns = 2
CHECK_DEADLOCK FALSE
INVARIANTS PartsTypeOK SavedWorkKept NeverRefused EveryPoolHasItsTurn CoveredIsParsed CapIsExact SharesAreLeft KeptIsProven AttributedIsReal VerifiedIsComplete PointsSurvive PairsArePointInTime ActionableIsComplete LineageIsReal QuietIsObserved PaidIsCharged DeepStaysFresh
PROPERTIES ConfirmedByReads MeasuredStaysKept
