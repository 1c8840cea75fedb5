------------------------------ MODULE MCScannerParts ------------------------------
(***************************************************************************)
(* The parts of the scanner and of its tools that share no variable, each  *)
(* checked on an instance of its own in one run: the first state chooses   *)
(* the part, and its variables are the first cells.                        *)
(***************************************************************************)
EXTENDS Naturals, FiniteSets, TLC

CONSTANTS
    \* ScanState
    StateJobs, StateFaults,
    \* SignalThesis
    ThesisOwners, ThesisBought, ThesisSeason, ThesisMaxAge, ThesisSigs,
    ThesisSellers, ThesisAmounts, ThesisReads, ThesisKinds, ThesisTime,
    ThesisAlerts,
    \* RpcRouting
    RoutingProviders, RoutingMethods, RoutingOrder, RoutingCost, RoutingPaged,
    RoutingBudget, RoutingRetries, RoutingCool, RoutingPools, RoutingTime,
    RoutingFaults,
    \* Robinhood
    ChainConfirm, ChainWindow, ChainMaxLog, ChainMinKept, ChainMined, ChainBlocks,
    ChainForks, ChainFaults,
    \* PositionFlow
    FlowOriginals, FlowOthers, FlowSeeds, FlowStarts, FlowHeld, FlowTransfers,
    FlowChecks,
    \* StorageMigration
    MigrationPages, MigrationRuns, MigrationFaults,
    \* RecoveryPoints
    RecoveryParts, RecoveryKeep, RecoveryRuns, RecoveryWrites, RecoveryFaults,
    \* MarketOutcomes
    OutcomeHorizons, OutcomeDelay, OutcomeAhead, OutcomeTime, OutcomeAlerts,
    \* AlertEvidence
    WaveWindow, WaveMaxMerged, WaveMaxKept, WaveTime, WavePerSecond, WaveTraits,
    \* ActivityBaseline
    QuietGap, QuietLength, QuietSamples, QuietMemory, QuietHour, QuietDay,
    QuietTime, QuietRuns, QuietFaults,
    \* RunGrant
    GrantLimit, GrantCeiling, GrantCosts, GrantTries, GrantBudget, GrantMonths,
    GrantRuns

VARIABLES part, c1, c2, c3, c4, c5, c6, c7, c8, c9, c10

\* Bounds of the state's part.
ASSUME StateAssumption == StateJobs \in Nat /\ StateFaults \in Nat

\* Tokens and times are counted, and every sale is some wallet's.
ASSUME ThesisAssumption ==
    /\ ThesisBought \in Nat /\ ThesisSeason \in Nat /\ ThesisMaxAge \in Nat
    /\ IsFiniteSet(ThesisSigs) /\ ThesisSellers \in [ThesisSigs -> ThesisOwners]
    /\ ThesisAmounts \subseteq Nat /\ ThesisReads \subseteq Nat
    /\ ThesisKinds \subseteq [wave : BOOLEAN, conf : {"confirmed", "unseasoned", "other"},
                             kept : 0..ThesisBought]
    /\ ThesisTime \in Nat /\ ThesisAlerts \in Nat

\* Attempts cost a number of requests, and there are pools to serve.
ASSUME RoutingAssumption ==
    /\ RoutingCost \in [RoutingMethods -> Nat] /\ RoutingBudget \in Nat
    /\ RoutingPools \in Nat \ {0} /\ RoutingCool \in Nat

\* Blocks and tokens are counted, and a scan reads a block of logs at least.
ASSUME ChainAssumption ==
    /\ ChainConfirm \in Nat /\ ChainWindow \in Nat /\ ChainMinKept \in Nat
    /\ ChainMaxLog \in Nat \ {0}

\* A cohort is frozen with a lower bound of what it still has of its purchases; what
\* is no wallet is not followed.
ASSUME FlowAssumption ==
    /\ {"pool", "outside"} \cap (FlowOriginals \cup FlowOthers) = {}
    /\ FlowStarts \subseteq [FlowOriginals -> [held : Nat, mine : Nat, lower : Nat]]
    /\ \A start \in FlowStarts : \A w \in FlowOriginals :
         start[w].lower <= start[w].mine /\ start[w].mine <= start[w].held
    /\ FlowHeld \in Nat

\* The tracking table has a page of its own.
ASSUME MigrationAssumption ==
    MigrationPages \in Nat \ {0} /\ MigrationRuns \in Nat /\ MigrationFaults \in Nat

\* A backup keeps its own release at least.
ASSUME RecoveryAssumption ==
    /\ RecoveryKeep \in Nat \ {0} /\ RecoveryRuns \in Nat
    /\ RecoveryWrites \in Nat /\ RecoveryFaults \in Nat

\* Horizons, delays and clocks are counted.
ASSUME OutcomeAssumption ==
    /\ OutcomeHorizons \subseteq Nat /\ OutcomeDelay \in Nat /\ OutcomeAhead \in Nat
    /\ OutcomeTime \in Nat /\ OutcomeAlerts \in Nat

\* Times are counted in seconds.
ASSUME WaveAssumption ==
    WaveWindow \in Nat /\ WaveMaxMerged \in Nat /\ WaveMaxKept \in Nat
    /\ WaveTime \in Nat /\ WavePerSecond \in Nat

\* Times are counted.
ASSUME QuietAssumption ==
    /\ QuietGap \in Nat /\ QuietLength \in Nat /\ QuietMemory \in Nat
    /\ QuietDay \in Nat /\ QuietHour \in Nat \ {0} /\ QuietTime \in Nat

\* Units are counted; the probe is the only request that is free.
ASSUME GrantAssumption ==
    /\ GrantLimit \in Nat /\ GrantCeiling \in Nat /\ GrantCosts \subseteq Nat
    /\ GrantTries \in Nat /\ GrantBudget \in Nat /\ GrantMonths \in Nat /\ GrantRuns \in Nat

\* One sale, by the first wallet; a wave alert still unseasoned and another kind.
Seller == "s1" :> 1
Alerts == {[wave |-> TRUE, conf |-> "unseasoned", kept |-> 5],
           [wave |-> FALSE, conf |-> "other", kept |-> 5]}

\* Two providers, of which one serves the costly paged method.
Orders == ("tx" :> <<"a", "b">>) @@ ("page" :> <<"b">>)
Costs == ("tx" :> 1) @@ ("page" :> 3)

\* The original has two tokens, of which both were bought or one.
Cohorts == {[w \in {"a"} |-> [held |-> 2, mine |-> n, lower |-> 1]] : n \in 1..2}

\* A wave with every trait the gates ask for, and some that have more or fewer.
Good == {"retained", "broken", "seasoned", "verified"}
Seen == {Good, Good \cup {"strong"}, Good \ {"verified"}, Good \cup {"strong", "gated"},
         Good \cup {"late"}}

\* Two accounts hold other tokens already; tokens go on, to the pool, and come back.
First == "a" :> 1 @@ "b" :> 1 @@ "c" :> 0
Tried == [from : {"a"}, to : {"b"}, amount : {1, 2}, clear : {TRUE}]
    \cup [from : {"b"}, to : {"a", "c", "pool"}, amount : {1}, clear : {TRUE}]
    \cup [from : {"a"}, to : {"pool"}, amount : {1}, clear : BOOLEAN]
    \cup [from : {"pool"}, to : {"a"}, amount : {1}, clear : {TRUE}]

ST == INSTANCE ScanState WITH
    MaxJobs <- StateJobs, MaxFaults <- StateFaults, file <- c1, cache <- c2, remote <- c3,
    report <- c4, job <- c5, jobs <- c6, faults <- c7, saved <- c8

LA == INSTANCE ScanLane WITH
    Pools <- 1..4, Limit <- 2, Alerted <- {1}, Checked <- 1, MaxPasses <- 5,
    MaxFaults <- 1, pools <- c1, queue <- c2, pass <- c3, now <- c4, faults <- c5,
    wait <- c6

HI == INSTANCE PoolHistory WITH
    MaxTime <- 2, MaxTxs <- 3, MaxScans <- 2, MaxFaults <- 2, PageSize <- 1,
    HeadPages <- 1, RepairPages <- 1, Overlap <- 1, SigLimit <- 2, chain <- c1, now <- c2,
    doubt <- c3, pool <- c4, saved <- c5, job <- c6, scans <- c7, faults <- c8

TH == INSTANCE SignalThesis WITH
    Owners <- ThesisOwners, Bought <- ThesisBought, Season <- ThesisSeason,
    MaxAge <- ThesisMaxAge, Sigs <- ThesisSigs, SellerOf <- ThesisSellers,
    Amounts <- ThesisAmounts, Reads <- ThesisReads, Kinds <- ThesisKinds,
    MaxTime <- ThesisTime, MaxAlerts <- ThesisAlerts, thesis <- c1, pending <- c2,
    alerts <- c3, pass <- c4, now <- c5, low <- c6, readAt <- c7, told <- c8

RO == INSTANCE RpcRouting WITH
    Providers <- RoutingProviders, Methods <- RoutingMethods, Order <- RoutingOrder,
    Cost <- RoutingCost, Paged <- RoutingPaged, Budget <- RoutingBudget,
    Retries <- RoutingRetries, Cool <- RoutingCool, Pools <- RoutingPools,
    MaxTime <- RoutingTime, MaxFaults <- RoutingFaults, prov <- c1, req <- c2, left <- c3,
    turn <- c4, now <- c5, faults <- c6

CH == INSTANCE Robinhood WITH
    Confirm <- ChainConfirm, Window <- ChainWindow, MaxLog <- ChainMaxLog,
    MinKept <- ChainMinKept, Mined <- ChainMined, MaxBlocks <- ChainBlocks,
    MaxForks <- ChainForks, MaxFaults <- ChainFaults, chain <- c1, work <- c2, saved <- c3,
    backup <- c4, scan <- c5, forks <- c6, faults <- c7, doubted <- c8

FL == INSTANCE PositionFlow WITH
    Originals <- FlowOriginals, Others <- FlowOthers, Seeds <- FlowSeeds,
    Starts <- FlowStarts, MaxHeld <- FlowHeld, MaxTransfers <- FlowTransfers,
    MaxChecks <- FlowChecks, course <- c1, sent <- c2, pos <- c3, check <- c4,
    transfers <- c5, checks <- c6

MI == INSTANCE StorageMigration WITH
    Pages <- MigrationPages, MaxRuns <- MigrationRuns, MaxFaults <- MigrationFaults,
    dest <- c1, flight <- c2, complete <- c3, run <- c4, runs <- c5, faults <- c6,
    intact <- c7, needs <- c8

RE == INSTANCE RecoveryPoints WITH
    Parts <- RecoveryParts, Keep <- RecoveryKeep, MaxRuns <- RecoveryRuns,
    MaxWrites <- RecoveryWrites, MaxFaults <- RecoveryFaults, kind <- c1, source <- c2,
    job <- c3, release <- c4, tags <- c5, late <- c6, writes <- c7, runs <- c8,
    faults <- c9, made <- c10

EV == INSTANCE SignalEvaluation WITH
    Tokens <- {1, 2, 3}, Horizons <- {1}, Delay <- 1, Gap <- 1, Attempts <- 1, Calls <- 1,
    Controls <- 1, MaxRows <- 2, MaxTime <- 3, rows <- c1, run <- c2, first <- c3,
    dropped <- c4, now <- c5

OU == INSTANCE MarketOutcomes WITH
    Horizons <- OutcomeHorizons, Delay <- OutcomeDelay, Ahead <- OutcomeAhead,
    MaxTime <- OutcomeTime, MaxAlerts <- OutcomeAlerts, deep <- c1, pulse <- c2,
    remote <- c3, history <- c4, now <- c5

AL == INSTANCE AlertEvidence WITH
    Window <- WaveWindow, MaxMerged <- WaveMaxMerged, MaxKept <- WaveMaxKept,
    MaxTime <- WaveTime, PerSecond <- WavePerSecond, Waves <- WaveTraits, traded <- c1,
    read <- c2, covered <- c3, buffer <- c4, omitted <- c5, truncated <- c6, alert <- c7,
    now <- c8

LI == INSTANCE PositionLineage WITH
    Accounts <- {"a", "b", "c"}, Owner <- "a", MaxDepth <- 1, MaxAddresses <- 3,
    PageSize <- 1, Prior <- First, Moves <- Tried, MaxAmount <- 2, MaxTxs <- 3,
    chain <- c1, truth <- c2, receipt <- c3, indexed <- c4, queue <- c5, told <- c6,
    page <- c7, got <- c8, limited <- c9, result <- c10

BA == INSTANCE ActivityBaseline WITH
    MaxGap <- QuietGap, MinQuiet <- QuietLength, MinSamples <- QuietSamples,
    Memory <- QuietMemory, Hour <- QuietHour, Day <- QuietDay, MaxTime <- QuietTime,
    MaxRuns <- QuietRuns, MaxFaults <- QuietFaults, now <- c1, saved <- c2, row <- c3,
    run <- c4, runs <- c5, faults <- c6

GR == INSTANCE RunGrant WITH
    Limit <- GrantLimit, Ceiling <- GrantCeiling, Costs <- GrantCosts, Tries <- GrantTries,
    Budget <- GrantBudget, MaxMonth <- GrantMonths, MaxRuns <- GrantRuns, month <- c1,
    doc <- c2, ckpt <- c3, run <- c4, call <- c5, sent <- c6, others <- c7, runs <- c8

DI == INSTANCE ScanDispatch WITH
    ScanTicks <- 5, PulseTicks <- 1, FreshDeep <- 5, FreshTargeted <- 3, Stale <- 9,
    Cooldown <- 5, Pace <- 22, From <- 30, MaxTime <- 65, MaxFaults <- 1, now <- c1,
    todo <- c2, up <- c3, running <- c4, pending <- c5, sent <- c6, claimed <- c7,
    report <- c8, recent <- c9, faults <- c10

-----------------------------------------------------------------------------
\* The cells that a part leaves unused are empty.
Init ==
    \/ part = "state" /\ ST!Init
       /\ c9 = 0 /\ c10 = 0
    \/ part = "lane" /\ LA!Init
       /\ c7 = 0 /\ c8 = 0 /\ c9 = 0 /\ c10 = 0
    \/ part = "history" /\ HI!Init
       /\ c9 = 0 /\ c10 = 0
    \/ part = "thesis" /\ TH!Init
       /\ c9 = 0 /\ c10 = 0
    \/ part = "routing" /\ RO!Init
       /\ c7 = 0 /\ c8 = 0 /\ c9 = 0 /\ c10 = 0
    \/ part = "chain" /\ CH!Init
       /\ c9 = 0 /\ c10 = 0
    \/ part = "flow" /\ FL!Init
       /\ c7 = 0 /\ c8 = 0 /\ c9 = 0 /\ c10 = 0
    \/ part = "migration" /\ MI!Init
       /\ c9 = 0 /\ c10 = 0
    \/ part = "recovery" /\ RE!Init
    \/ part = "evaluation" /\ EV!Init
       /\ c6 = 0 /\ c7 = 0 /\ c8 = 0 /\ c9 = 0 /\ c10 = 0
    \/ part = "outcomes" /\ OU!Init
       /\ c6 = 0 /\ c7 = 0 /\ c8 = 0 /\ c9 = 0 /\ c10 = 0
    \/ part = "evidence" /\ AL!Init
       /\ c9 = 0 /\ c10 = 0
    \/ part = "lineage" /\ LI!Init
    \/ part = "baseline" /\ BA!Init
       /\ c7 = 0 /\ c8 = 0 /\ c9 = 0 /\ c10 = 0
    \/ part = "grant" /\ GR!Init
       /\ c9 = 0 /\ c10 = 0
    \/ part = "dispatch" /\ DI!Init

Next ==
    /\ UNCHANGED part
    /\ \/ part = "state" /\ ST!Next /\ UNCHANGED <<c9, c10>>
       \/ part = "lane" /\ LA!Next /\ UNCHANGED <<c7, c8, c9, c10>>
       \/ part = "history" /\ HI!Next /\ UNCHANGED <<c9, c10>>
       \/ part = "thesis" /\ TH!Next /\ UNCHANGED <<c9, c10>>
       \/ part = "routing" /\ RO!Next /\ UNCHANGED <<c7, c8, c9, c10>>
       \/ part = "chain" /\ CH!Next /\ UNCHANGED <<c9, c10>>
       \/ part = "flow" /\ FL!Next /\ UNCHANGED <<c7, c8, c9, c10>>
       \/ part = "migration" /\ MI!Next /\ UNCHANGED <<c9, c10>>
       \/ part = "recovery" /\ RE!Next
       \/ part = "evaluation" /\ EV!Next /\ UNCHANGED <<c6, c7, c8, c9, c10>>
       \/ part = "outcomes" /\ OU!Next /\ UNCHANGED <<c6, c7, c8, c9, c10>>
       \/ part = "evidence" /\ AL!Next /\ UNCHANGED <<c9, c10>>
       \/ part = "lineage" /\ LI!Next
       \/ part = "baseline" /\ BA!Next /\ UNCHANGED <<c7, c8, c9, c10>>
       \/ part = "grant" /\ GR!Next /\ UNCHANGED <<c9, c10>>
       \/ part = "dispatch" /\ DI!Next

Spec == Init /\ [][Next]_<<part, c1, c2, c3, c4, c5, c6, c7, c8, c9, c10>>

-----------------------------------------------------------------------------
\* The variables of the part at hand have their types.
PartsTypeOK ==
    CASE part = "state" -> ST!TypeOK
      [] part = "lane" -> LA!TypeOK
      [] part = "history" -> HI!TypeOK
      [] part = "thesis" -> TH!TypeOK
      [] part = "routing" -> RO!TypeOK
      [] part = "chain" -> CH!TypeOK
      [] part = "flow" -> FL!TypeOK
      [] part = "migration" -> MI!TypeOK
      [] part = "recovery" -> RE!TypeOK
      [] part = "evaluation" -> EV!TypeOK
      [] part = "outcomes" -> OU!TypeOK
      [] part = "evidence" -> AL!TypeOK
      [] part = "lineage" -> LI!TypeOK
      [] part = "baseline" -> BA!TypeOK
      [] part = "grant" -> GR!TypeOK
      [] part = "dispatch" -> DI!TypeOK

\* What a job saved reaches the next job whichever single store fails
\* (load_runtime_checkpoint, runtime_cache.validate).
SavedWorkKept == part = "state" => ST!SavedWorkKept

\* A loaded state is never refused by the file beside it (load_runtime_checkpoint,
\* save_json_if_changed).
NeverRefused == part = "state" => ST!NeverRefused

\* No eligible pool waits longer than rotation allows (select_scan_targets).
EveryPoolHasItsTurn == part = "lane" => LA!EveryPoolHasItsTurn

\* What a history calls covered has been read and parsed, but for the two cases that
\* the module names (collect_history).
CoveredIsParsed == part = "history" => HI!CoveredIsParsed

\* What a wallet may still hold is exactly what sales and reads leave it
\* (record_thesis_sales, recheck_signal_thesis).
CapIsExact == part = "thesis" => TH!CapIsExact

\* A thesis is confirmed only by a whole cycle of reads (recheck_signal_thesis).
ConfirmedByReads ==
    [][part = "thesis" => TH!OnlyByReads]_<<part, c1, c2, c3, c4, c5, c6, c7, c8, c9, c10>>

\* A pool never spends what belongs to those after it (fair_pool_rpc_budget).
SharesAreLeft == part = "routing" => RO!SharesAreLeft

\* What a buyer is said to keep is proved on the chain, while no reorganization went
\* unnoticed (robinhood.scan).
KeptIsProven == part = "chain" => CH!KeptIsProven

\* Tokens are attributed to the cohort only if it must have moved them
\* (replay_position).
AttributedIsReal == part = "flow" => FL!AttributedIsReal

\* A verified destination is complete and stays so (migrate_storage.verify).
VerifiedIsComplete == part = "migration" => MI!VerifiedIsComplete

\* Published recovery points survive failed backups (prune_releases).
PointsSurvive == part = "recovery" => RE!PointsSurvive

\* A signal is compared with what was known when it was captured
\* (signal_evaluation.build_report).
PairsArePointInTime == part = "evaluation" => EV!PairsArePointInTime

\* A measured horizon keeps its measure (update_signal_outcomes, deduplicate_events).
MeasuredStaysKept ==
    [][part = "outcomes" => OU!MeasuredIsKept]_<<part, c1, c2, c3, c4, c5, c6, c7, c8, c9, c10>>

\* An actionable alert rests on a complete reading of its wave (update_alerts).
ActionableIsComplete == part = "evidence" => AL!ActionableIsComplete

\* Tokens of a purchase are where its lineage says, in the amounts it bounds
\* (analyze_position).
LineageIsReal == part = "lineage" => LI!LineageIsReal

\* A confirmed reactivation rests on a quiet regime that was observed
\* (activity_context_from_history).
QuietIsObserved == part = "baseline" => BA!QuietIsObserved

\* Every unit a run sent was charged beforehand, to its month
\* (scan_with_shared_ledger, PreallocatedRpcBudget).
PaidIsCharged == part = "grant" => GR!PaidIsCharged

\* Deep reports stay young whatever is dispatched between them
\* (discoveryDispatchGuard, watchdog_decision).
DeepStaysFresh == part = "dispatch" => DI!DeepStaysFresh
=============================================================================
