# Solana Radar: a verification development

Solana Radar scans new Solana pools (and a Robinhood Chain), keeps evidence about tokens and wallets, and
publishes a dashboard. A Python scanner runs in short scheduled jobs; a Cloudflare Worker
(`cloudflare/scan-dispatcher`) schedules the jobs, stores the runtime checkpoints and the history in
Turso (SQLite) and R2, and guards what each of those services may cost. This directory holds TLA+
models of that system, the TLC configurations that check them on small instances, and TLAPS proofs.

Contents: 1 inventory, 2 how the parts interact, 3 the modules, 4 runs and bounds, 5 proofs,
6 findings, 7 what is not modelled, 8 plan, 9 how to run.

## 1. Inventory

Paths are relative to `src/`; `dispatcher/` stands for `cloudflare/scan-dispatcher/src/`.

| Component | Source | State it keeps | What makes it correct | Module |
|---|---|---|---|---|
| R2 budget guard | `dispatcher/r2-budget.js` | one account record, one row per object, notices | the bill stays inside the free allowance; a row covers its object | `R2Budget` |
| History queue | `dispatcher/history-sql-queue.js`, `migrations-storage/0003`, `0005` | one row per event, one meta row with counters and the daily budget | an event is delivered once in effect, in episode order, inside the daily budget | `HistoryQueue`, `HistoryDelivery` |
| Runtime documents | `dispatcher/runtime-sql.js`, `runtime-documents.js`, `runtime_checkpoint.py`, `scanner.py` | content-addressed parts, manifests, references | a published manifest never names a part that is gone, and never goes back | `RuntimeDocuments` |
| Paid RPC ledger | `rpc_budget.py`, `scanner.py`, `dispatcher/runtime-sql.js` | the monthly ledger, the grant of a scan, the cached state | no unit is spent that the durable ledger has not charged | `RpcLedger` |
| Cold outbox | `scanner.py`, `cold_outbox.py`, `tools/recover_storage.py`, `dispatcher/cold-outbox.js` | snapshots on disk, their cursors, their archive | what was built reaches the queue or the archive, and the outbox drains | `SnapshotOutbox` |
| State between jobs | `scanner.py`, `runtime_checkpoint.py`, `tools/runtime_cache.py`, `tools/recover_storage.py` | state file, cache, durable checkpoint, report | one lost store loses no saved work, and no job is locked out | `ScanState` |
| Deep scan selection | `scanner.py`, `gmgn_discovery.py` | dates and failures of each pool, the discovery queue | every eligible pool has its turn | `ScanLane` |
| Pool histories | `pool_history.py`, `gmgn_discovery.py`, `scanner.py` | covered seconds, tasks with cursors, signature gaps | what is called covered was read and parsed | `PoolHistory` |
| Alerts | `scanner.py`, `noise_cut.py` | the wave's buffer, what was omitted, tiers | an actionable alert rests on complete data | `AlertEvidence` |
| Signal theses | `scanner.py` | a cohort and what each wallet may still hold | a credit is neither restored nor taken twice | `SignalThesis` |
| Market outcomes | `scanner.py` | prices at horizons and extremes | a measured horizon is kept | `MarketOutcomes` |
| Activity baselines | `scanner.py` | a quiet regime, hourly samples, the last break | a confirmed reactivation follows an observed quiet regime | `ActivityBaseline` |
| Signal evaluation | `signal_evaluation.py`, `prospective_evidence.py` | frozen rows, their horizons | pairs are compared on what was known at the time | `SignalEvaluation` |
| RPC routing | `scanner.py`, `rpc_routing.py` | cooldowns, circuits, capabilities, budgets | a pool never spends the share of the pools after it | `RpcRouting` |
| Position lineage | `solana_position_lineage.py`, `position_history_rpc.py` | a frozen receipt, pages of histories | bounds on where bought tokens are hold | `PositionLineage` |
| Robinhood scanner | `robinhood.py`, `robinhood_store.py`, `position_evidence.py`, `rpc_budget.py` | checkpoint and cohorts in a database, the run's grant | what is kept is proved on the canonical chain; what is sent was charged | `Robinhood`, `PositionFlow`, `RunGrant` |
| Storage migration | `tools/migrate_storage.py` | receipts, lock and status in the destination, a manifest | a verified destination is complete | `StorageMigration` |
| Backups | `tools/storage_backup.py`, `tools/archive_backup.py` | draft and published releases, tags | failed backups never take the place of recovery points | `RecoveryPoints` |
| Token retirement | `dispatcher/token-retirement.js`, `token_retirement.py` | low-cap watches, retirement markers | a retired token never returns | in part: `HistoryQueue`, `RuntimeDocuments` |
| History progress | `dispatcher/history-progress.js`, `history-clusters.js` | resumable phases of one event, a cluster lock | a resumed event ends as an uninterrupted one | planned |
| Legacy queue, cutover | `dispatcher/runtime-history.js`, `history-sql-queue.js` | Durable Object rows, a generation | nothing acknowledged is lost on the way | planned |
| Dispatcher | `dispatcher/index.js`, `tools/scan_watchdog.py`, `tools/workflow_plan.py`, `scan_scheduling.py` | claimed buckets, the runs of a concurrency group | deep scans go on whatever is dispatched between them | `ScanDispatch` |
| Archives, maintenance, retention | `dispatcher/archive.js`, `evidence-archive.js`, `history-maintenance.js`, `storage-retention.js` | objects and receipts, a leased job, cursors | nothing that is still needed is pruned | planned |

`PROJECT.json` lists the rest (scoring heuristics, adapters, the dashboard in the browser, research
tools) with the reason why each is left out, and the hazards of the code, each at its line.

## 2. How the parts interact

- **A job** (GitHub Actions) restores the cached state file, takes the durable checkpoint instead when that is
  newer (`ScanState`), merges its cached RPC usage with the durable ledger and charges a grant (`RpcLedger`,
  `RunGrant`), chooses pools (`ScanLane`), reads their histories (`PoolHistory`) within each pool's share of the RPC
  budget (`RpcRouting`), and keeps the evidence: quiet regimes (`ActivityBaseline`), waves and alerts (`AlertEvidence`), theses and lineages
  (`SignalThesis`, `PositionLineage`), outcomes and evaluation rows (`MarketOutcomes`, `SignalEvaluation`). It saves the state, publishes
  summary, dashboard and checkpoint (`RuntimeDocuments`), and delivers history events through its outbox
  (`SnapshotOutbox`) to the queue (`HistoryQueue`). The Robinhood scan is a job of its own (`Robinhood`, `PositionFlow`).
- Workflows that write state share one concurrency group, so jobs follow one another; their HTTP
  requests do not, because one that timed out at the client may still be executing at the server.
- **The Worker** keeps no state in memory. Durable Objects serialise their requests (the R2 guard);
  Turso executes a *batch* atomically but anything can happen between two batches of one request.
- **A flush** of the history queue is a cron or a request. Several can overlap, and each may die after
  any statement: the lease on the row and the saved cursor are all that survives.
- **Retirement** of a token crosses components: it marks the episode, changes what the queue does with
  its events, and rewrites the stored dashboard.
- **Operators** run the migration once and the backups daily, against the same database and archive, and rerun what
  stopped half way.

In the models an action is one atomic step of that world: one storage transaction, one SQL batch, one request leaving or
arriving, one handler of a sequential scan, one tick of the clock. Two stores of evidence meet in three places, and the
models are cut there: a scan's rows enter `HistoryQueue` by `Enqueue` where `SnapshotOutbox` says "accepted"; the readings
`AlertEvidence` assumes of each second are what `PoolHistory` establishes (`CoveredIsParsed`, with its two exemptions); the units that `RunGrant`
calls charged are those that `RpcLedger` writes ahead.

## 3. The modules

### R2Budget

`acct` is the record `budget:v1`, `catalogue` the `object:<key>` rows, `inventory` the listing a bootstrap
has made, `client` the invocations with the operations they reserved (each `held`, `issued` or `done`),
`bucket` and `billed` the world: what R2 stores and has billed. One request to the Durable Object is one
action (`BootstrapCommit`, `ReserveSingle`, `ReserveBatch`, `Deleted`, `Ack`, `ClaimDispatch`), and each
first evaluates the account at the present time (`Current`): window pruning, release of a rolling
pause, month rollover, new pause, notices, in the order of `evaluate`. `Issue`, `Land` and `NoEffect` are
the native R2 calls: an issued call may land at any later time or have no effect, a client may leave at
any time, and a deletion is reported only if the invocation survives. Time has a day, a calendar month and
a billing cycle that is shifted against it (`CycleOffset`).

- `CatalogueCovers`: the row of a stored object is at least the object. What makes it hard is a
  deletion overlapping a later PUT of the same key; the code marks such rows (`retained`).
- `BilledWithinFree`: no cycle is billed more than the allowance although the counters restart at the calendar month.
- `PauseHolds`: a pause for an exhausted allowance lasts for the month. `PauseNotified` (the operator hears of it) and
  `IssuedOnChargedDay` (no grant is carried over midnight) are proved.

One assumption about the callers is stated as `DeleteAssumption`: only the runtime archive deletes
objects, and it writes them through batches, so no key is written by a single reservation and deleted.

### HistoryQueue, HistoryDelivery

`row` is `history_sql_queue_events`, `hist` the budget columns of the meta row, `lock` the cluster lock,
`effect` how many phases of an event have reached the history tables, `flush` the invocations. `Select`
(the read before a claim) and `Claim` (its batch) are two actions, and a claim is decided on the clock
that was read before it (`Latency`). `TakeLock` and `Advance` do one phase of `history-progress.js`;
`CheckRetirement`, `Stop`, `SaveProgress`, `Finish` follow `flush`; `Die` ends it anywhere. `Enqueue`,
`Promote`, `Archived`, `DropRetired`, `Retire`, `CleanupCheck` and `Cleanup` are the other callers. Costs
are write units; payloads are not modelled, an event is its episode, its source time and its list of phases.
Four variables are history: `spent` (units per day), `overtaken` (events accepted after a newer one of their episode had
begun), `openings` (how often a day's budget was started) and `belated` (events a statement ran for after its lease).

`HistoryDelivery` is what a producer is promised: an accepted event is applied step by step and
delivered after its last step; a receipt can be forgotten only after that; a withdrawn (retired) event may
end early or vanish. `HistoryQueue` implements it under the mapping written in `Delivery`.

- `DeliveredComplete`: no receipt without all phases, although cursor, work and receipt are separate writes.
- `EpisodeOrder`: no work on an event while an older one of its episode is pending.
- `AllowanceKept`: a day's work fits the allowance as often as the day's counter was started, and a counter started once keeps
  the share of live events too, across reservations, refunds and flushes that die with theirs. `DailyBudget`, the promise
  of one allowance for one day, is a finding: a late claim starts a day twice.
- `WithinCapacity`: row and receipt ceilings, with the places kept for live episodes.
- `LockOwnerOpen`: the holder of the structural lock keeps its pending row, unless its episode is retired or a statement for it
  ran after its lease had ended; `LockOwnerPending`, without these exceptions, is a finding.

### RuntimeDocuments

`touched` holds the content-addressed parts with their `touched_at`, `root` the row of the manifest,
`refs` the reference rows, `pub` the publications, `gc` the collector between its SELECT and its DELETE,
`reader` the restores. A publication probes, uploads what is missing (an already stored part is
touched only if it is unreferenced), compares, commits in one batch and reads back; it can repeat a
request whose answer was lost, or be abandoned. With `Kind = "dashboard"` it publishes a summary
revision before the complete one, and with `Retirement` the Worker rewrites the stored dashboard first.
`Repair` is the republication of the same state in another layout.

- `ManifestComplete`: every part of the stored manifest is stored and referenced, whatever the collector does.
- `RestoreComplete`: what a restore relies on outlives the grace.
- `NeverBack`: source time and revision of the stored root never decrease.
- `Published`: who is told "stored" or "stale" is right about it.

### RpcLedger

`doc` is the durable ledger document, `scan` a scanner with its local ledger, its grant and the commit in
progress, `flight` the commit requests on their way (the Worker's read and its compare-and-set are the two
steps `Read` and `Write`), `cache` the usage in the saved state, `spent` the units really sent. A scan
starts from the cache or from nothing, merges the durable ledger, and reserves a chunk; before any unit
of it is spent the new ledger is written, and an answer that was lost is replaced by a read-back.

- `Ledgered`: spent units and the rest of an active grant are in the durable ledger (write-ahead).
- `WithinLimit`: no month is overspent.
- `NeverRefunded` (proved): the durable counters never decrease, although old requests arrive late.

That scans run one after another is the guard of `Start`; the code relies on the concurrency group for it
(two scans that grant from the same base would write equal ledgers, which the Worker accepts).

### SnapshotOutbox

`box` is the outbox directory on the runner, `cache` the copy the workflow saved last, `queue` the rows the history queue
accepted, `cold` the archive with its progress, `job` the job that holds the writer lock. `StartScan` builds a
snapshot and chooses it and the two oldest files; `Send`, `Release`, `Keep` and `ScanArchive` are one file's turn; `StartRecovery`,
`RecoverArchive`, `RecoverStop` and `Replay` are the recovery job; `EndJob` and `Save` its end; `Interrupt` and `Lose` a signal and
a lost machine.

- `CursorsAreAcknowledged`: no cursor, on disk, in the cache or in the archive, is ahead of the queue.
- `NothingIsDropped`: a file leaves the saved outbox only with a receipt for each row, or with its archive.
- `OutboxDrains` (liveness): a file that fits the archive leaves the outbox for good, also behind one that never can.
  `Fairness` assumes that a machine which is not lost runs its job to the end, that cron keeps starting scans, and
  that an archive request repeated for ever is answered once. With the oldest file alone, instead of the oldest two, it fails.
- `CompletedIsAcknowledged` is the finding of section 6.

`TypeOK` of this module and of `R2Budget` are stated for the reader; no run spends its time on them.

### ScanState

`file`, `cache`, `remote` and `report` are the four places a state is kept, each with revision, time, the date of the deep
scan and the set of jobs whose work it holds. `Load` compares by time then revision, the save by revision then time.

- `SavedWorkKept`: after one fault of any kind, the next job starts from a state with the work of every job that saved.
- `NeverRefused`: a state that was loaded is never older, by the other order, than the file beside it; that would lock
  every later job out. It is claimed of two faults, and three independent ones break it: with `MaxFaults = 3`, a
  job that finds neither cache nor checkpoint uploads revision 1 with a later time, and when its own cache is lost too, the next
  job loads that checkpoint beside the older file of revision 2.

### ScanLane, RpcRouting

`ScanLane` is `select_scan_targets` with the pass around it (`Select`, `Sweep`, `Scan`, `ScanFails`, `Defer`, `EndPass`) and the
discovery that fills the queue. `EveryPoolHasItsTurn`: with the reserve that is kept for rotation, no eligible pool waits
longer than the rest of the pools take; without it (`NoReserve`) new and due pools starve it.

`RpcRouting` is the failover of one request over the providers of a method: `Provider`, `Answer`, `Retry`, `Transient`, `Denied`,
`ClientError`, `Failover`; `Turn` and `EndTurn` cut each provider's budget to the pool's share. `SharesAreLeft`: however a
pool's requests fail, every later pool finds at least the share it had at the start of the pass.

### PoolHistory, AlertEvidence

`PoolHistory` reads a pool by pages: `head` first, then one task of `tasks`, verification and parsing, or the
signature route with its `gaps`. A scan that meets an error restores the state it started from (`Restored`).
`CoveredIsParsed`: the transactions of a covered second below the newest observed one were parsed. A second may go on after it
was read, and a decode error may be forgotten by a fallback to signatures; the history variable `doubt` records both, and the property exempts
a late transaction whose second a read was cut in, and an undecoded one whose scan did not go back. `OverlapIsRead` and
`FailuresHoldBack`, without the one exemption and the other, are false (section 6).

`AlertEvidence` is the wave's buffer with its two limits (`Merge`, `Compacted`), the judgement of the data (`Complete`, `Lowered`), and
the tier when the all-time high becomes known (`Refreshed`). `ActionableIsComplete`: an actionable alert was computed
from every trade between its first and its last one, is confirmed, and has the all-time high its tier asks for.

### SignalThesis, MarketOutcomes, ActivityBaseline, SignalEvaluation

Four state machines over long sequences of runs, each of one token (evaluation: of three).

- `CapIsExact`: what a wallet is credited with is the least balance read, or what its sales leave, whichever is less.
  `ConfirmedByReads`: a thesis is confirmed only by one whole cycle of reads after seasoning.
- `MeasuredStaysKept`: through deep scans, pulses, crashes and the remote row, a measured horizon keeps its price until the
  token turns out to have been caught earlier.
- `QuietIsObserved`: a confirmed reactivation follows a quiet regime that observations without a long gap cover. A run merges what it
  can read: its own checkpoint, the other job's, the remote row (`LoadDeep`, `LoadPulse`); in the ordinary case a pulse merges its checkpoint and the row.
- `PairsArePointInTime`: both rows of a pair are first observations, their prices were on time, no control serves twice,
  and no training pair saw anything at or after the start of the holdout. A cohort is cut to `MaxRows` at the end of each run, and the
  first clause exempts the tokens that lost a row to it (`dropped`); `OnlyEarliestCounts`, without the exemption, is false (section 6).

### PositionLineage, PositionFlow

Both follow fungible tokens; which of its mixed tokens a wallet really sent is a variable of the model only (`truth`, `course`),
and is chosen freely. `PositionLineage` reads Solana token accounts page by page and says at least and at most how many of the
tokens are in each; `LineageIsReal` compares that with the truth. `PositionFlow` is the replay of the Robinhood
scanner. `Transfer` is the chain's; `Begin` fixes the head and chooses the wallets to follow (`position_check`), `Replay` takes one
turn of the loop of `replay_position`, `Finish` puts the new checkpoint, and `Fail` is any of the errors after which the old one stays.
`course` holds the truth at the checkpoint and after every transfer since, so that transfers made during a check are the next one's.
`AttributedIsReal`: a checkpoint attributes to the cohort only what must have been moved.

### Robinhood, RunGrant

`Robinhood` is a scan over a chain whose last blocks may be taken back: `Begin`, `ReadLogs`, `Checkpoint`, `Inspect` and `Finish` are its
requests, in one database transaction that only `Finish` commits; `Reorganize` may come between any two; `Crash`, `Backup` and `Restore` lose work.
The logs and receipts of the window stay in the database, so each is read once (`read`).
`Reorganize` takes any block back with all after it. A database notices it by its history cursor, or because it rests on blocks before the
lost one only (`Notices`); the history variable `doubted` names the databases that did not. `KeptIsProven`: while the cursor of the committed database is
on the chain, and no reorganization went unnoticed, a buyer keeps what it says at the block it names. `ReorganizedFailsClosed`, of every
reorganization, is false (section 6).
`RunGrant` is the grant that the run charges beforehand and spends while it tries its endpoints, waits for the limiter and may
see the month turn; what is left of the endpoints (`routes`) is a set with the one to try first. `PaidIsCharged`: in each month, what is sent was charged to that month.

### StorageMigration, RecoveryPoints

`StorageMigration` runs the tool again and again: `Initialize`, `ImportPage`, `Prove`, `SetSequences`, `Proof`, `Upgrade`, `Final`, `Finish`. A write whose
reply is lost may have committed or commits later (`flight`, `Land`), and somebody may write to the destination (`Meddle`).
A write that was cut may land at any step of any later run. `VerifiedIsComplete`: a destination that says it is verified has every row and
nothing else, and no write that was given up can still change it. `SequencesPreserved` (a late write may set the sequences back
before the end) and `RerunResumes` are false (section 6).

`RecoveryPoints` is one backup after the other, while the source is written: `Begin`, `Read`, `Draft`, `Upload`, `Mark`, `Publish`, `List`, `Prune`, `Discard`,
each of whose requests may be lost. `PointsSurvive`: as many whole copies are kept as were published, up to `Keep`.

### ScanDispatch

The cron events of the Worker (`Fire`, `Skip`, `Redeliver`: guard, claim of a bucket; then `Post` or `PostFails`), the six-hourly `Recovery` run, the `Watchdog` and
`Manual` dispatches, over one concurrency group that keeps a running and one pending run (`Create`, `Finish`); a run begins with the freshness step
(`Scans`). `todo` holds the events of a slot of ten minutes that are still to come. `DeepStaysFresh`: the last deep report is at most
`Pace` slots old, and two hours more for each disturbance (a lost event or POST, an overtaken dispatch, a failed scan, an outage of the scheduler). It is a
bounded form of liveness: GitHub's starting a pending run, and the job timeouts, are the only progress it assumes. The promise does
not hold after a provider's refusal, which makes the jobs skip their scans for six hours.

### MCScannerParts

Sixteen of these modules share no variable, and each has one or two questions worth asking. One run asks them
all: its initial state chooses a `part`, whose variables are the first of ten cells, and its steps are the steps of that part.
The instances are thus checked one beside the other, not composed. Eleven of them (`ScanState`, `RpcRouting`, `StorageMigration`,
`RecoveryPoints`, `AlertEvidence`, `ActivityBaseline`, `RunGrant`, `Robinhood`, `PositionFlow`, `MarketOutcomes`, `SignalThesis`) take their constants from the constants of this module, under
named assumptions, so that the theorems about them hold for every value; the others have the values of section 4 written in.

### Variants

Definitions marked `Variant:` or `Mutant:` are not used by any specification. Each changes one definition the
way a plausible mistake would (a dropped guard, a missing mark, an unchecked compare) and is listed under
`mutants` in `PROJECT.json` with the property that must then fail.

## 4. Runs and bounds

| Run | Configuration | Shows |
|---|---|---|
| `r2_guard` | `R2Guard.cfg` | `CatalogueCovers`, the bill and the pauses, with two invocations on a key over a month and two shifted cycles |
| `history_delivery` | `HistoryDelivery.cfg` | `TypeOK`, complete delivery, order, the lock and the refinement; two flushes, one episode, retirement |
| `history_budget` | `HistoryBudget.cfg` | allowance and capacity, two flushes over the turn of a day |
| `history_midnight` | `HistoryMidnight.cfg` | finding: a late claim starts the day's budget again |
| `history_retired_lock` | `HistoryRetiredLock.cfg` | finding: a retired owner keeps the lock |
| `runtime_restore` | `RuntimeRestore.cfg` | a publisher, the collector and a restore over four ticks |
| `runtime_retirement` | `RuntimeRetirement.cfg` | dashboard publications and rewrites |
| `rpc_ledger` | `RpcLedger.cfg` | two scans, lost and late requests, a lagging clock, two months |
| `scan_delivery` | `SnapshotOutbox.cfg` | cursors, receipts and the draining of the outbox, under fairness |
| `outbox_replay` | `OutboxReplay.cfg` | finding: an interrupted replay skips a row |
| `scanner_parts` | `ScannerParts.cfg` | the eighteen properties of sixteen parts, and their types |
| `migration_resume` | `MigrationResume.cfg` | finding: a rerun that can never succeed |

Why the bounds are enough for the hazards:

- *R2*: a deletion race needs two invocations on one key. Days have one tick, months two days, the window three and the
  cycle is shifted by one day, so that a month turns inside a cycle and a cycle inside a month; the
  stop lines are 2 and 3 operations so that two invocations meet at them.
- *History*: the claim race, the expired lease and the order of an episode need two flushes and two
  events; two phases per event give a place to die between phases. The budget run has two flushes that may die with their
  reservations or claim over midnight, two days (`MaxTime` 3, `DayTicks` 2), and a budget of two units of
  which one is live. `Latency` 1 lets a batch run a tick after its clock was read. `LeaseTicks` 2 exceeds the latency,
  as the code's lease exceeds its request timeout.
- *Runtime*: one shared and one replaced part are enough for an incomplete manifest; the restore run's
  `Grace` 2 and `Latency` 1 let a deletion be selected before and executed after a publication.
- *RPC ledger*: a month limit of 3, chunks of 2 and prices of 1 and 2 make the last grant smaller than a chunk and a
  request larger than the rest; two scans and two requests in flight give the late commit of an ended scan.
- *Outbox*: three snapshots, so that the two oldest are not all; the first never fits the archive, the third has an invalid
  row. One row stands for a batch of 25; the replay run has two rows whose sorted order differs from the built one.
- *Scanner state*: three jobs and two faults; two different stores can fail one after the other.
- *Lane*: four pools, two slots, one of them the reserve, over five passes; one pool has a monitored alert.
- *Histories*: pages of one transaction, so that every read is cut; two scans, three transactions that may all land late in one second, and two
  faults, which a decode error and the head that lags behind it need. *Alerts*: two trades of one second against limits of two (merge) and one (compaction).
- *Theses*: two wallets, a sale reported once more, reads above and below what is left, a second alert.
  *Outcomes*: one horizon at the edge of its delay (a quote that is late but still counts needs a longer delay than the run's). *Baselines*: a gap of one
  second, three runs of either kind. *Evaluation*: three tokens, so that a control is wanted by two signals; one horizon, four times, one candle
  request, and a capacity of two rows, which the third signal or control exceeds.
- *Routing*: three pools, two providers, of which only one serves a method that costs three; two faults.
- *Dispatch*: slots of ten minutes from five o'clock on, six hours with one disturbance, so that the recovery run of 6:41 meets a
  pending deep scan; `Pace` 22 is the least for which the property holds, and the horizon lies beyond it by more than a disturbance's delay.
- *Lineage*: three accounts, three transactions, pages of one. *Flow*: three wallets, of which the original has two
  tokens, both bought or one, and at least one known to be; three transfers, two checks. *Chain*: a window of three blocks read one by one, no confirmations, so that a scan reads all
  three (the theorem holds for every depth), one reorganization and one fault; the finding's run has one confirmation and five blocks. *Grant*: two runs
  and two months, a limit that the second run cannot fill.
- *Migration*: three pages (two tables and the tracking table), three runs, two faults. A request that was cut lands at any later time;
  nobody else writes while a write is in flight. *Backups*: two parts, two copies kept, four runs, two faults.
- `MaxTime`, `MaxRevision`, `MaxFlight`, `MaxRuns`, `MaxScans` and the like only cut the state space; every clock-guarded action is
  reached within them.

`CHECK_DEADLOCK FALSE` in the runs without fairness: the clock is bounded and jobs end, so every instance stops.
Symmetry is used over flushes, invocations, parts and scans, which no definition tells apart; no run that uses it checks a
liveness property. Only `scan_delivery` assumes fairness (section 3).

## 5. Proofs

All are `Spec => []P` (or an action property, or a refinement), for every value of the constants that
satisfies the named assumptions of the module; TLC evaluates those assumptions in every run.

| Module | Theorem | Argument |
|---|---|---|
| `R2BudgetProofs` | `CatalogueAlwaysCovers` | `IInv` adds to the property what is in progress: every admitted PUT that has not landed is covered by its row (`Admitted`), a deletion that has taken effect leaves no uncovered object (`Removed`), who may write what (`Origin`, `Shapes`), nothing happens before bootstrap (`Unborn`) |
| `R2BudgetProofs` | `PausesAreNotified`, `PausesLast` | `PauseInv`: an account that is not bootstrapped is not paused, and a paused one has its notice. Every step changes the account in one of six forms (`AccountSteps`), and `Evaluated` says what an evaluation does: it ends in the present month, and a monthly pause of that month stays |
| `R2BudgetProofs` | `BatchesKeepTheirDay` | `Dated`: a batch in use was charged today or earlier, and its grant ends with that day; it needs that days do not go back and that an expiry does not pass midnight |
| `R2BudgetProofs` | `BillsStayFree` | `BillInv`: what a cycle has been or can still be billed was charged to days that the rolling window holds, and is within the allowance (`Covered`). A batch is issued on the day of its charge; a single reservation may still be issued on the day after it (`Lasting`, hence `SingleTicks` at most a day and a tick). Before the bootstrap nothing is charged: its LISTs are at most one a month, and two a cycle (`Unguarded`, `ListsDue`; hence the two units of room in `StartAssumption`). The counters' sums are cardinalities of sets of charged operations, so that a charge is a disjoint union |
| `HistoryQueueProofs` | `QueueTypes`, `DeliveredAlwaysComplete` | `IInv`: an event's saved cursor never passes its effect (`Saved`), effects stay within the phases (`Bounded`), and each flush's own cursor and outcome are justified by them (`Sound`), also when its lease is gone |
| `HistoryQueueProofs` | `QueueKeepsDelivery` | from `IInv`, each action is a step of `HistoryDelivery` or leaves the mapped variables alone |
| `HistoryQueueProofs` | `OrderOfEpisodes` | inductive with `IInv`: the claim looks for older events of the episode in the statement that takes the lease, and what is accepted later is `overtaken` by definition |
| `HistoryQueueProofs` | `LockIsGivenBack` | `LockInv`: an event that holds the lock has the phase that returns it still before it (`LockKept`), wherever its saved cursor is (`Releases`); a row that names a flush names its lease, and its cursor is not ahead of the flush (`OpenLease`) |
| `HistoryQueueProofs` | `QueueCapacity` | the rows are finite (`CapacityInv`), and `Enqueue` counts them in its transaction; cardinalities of unions by the library's theorems |
| `HistoryQueueProofs` | `DayAllowance` | `BudgetInv`: what a day has sent, what is left of the open reservations and what the counter holds add up within the allowances of the day (`DayWithin`); the reservations of any number of flushes are summed by a measure that the invariant asserts to be additive |
| `RuntimeDocumentsProofs` | `RuntimeTypes`, `ManifestsAreComplete` | `IInv`: clock readings lie in the past (`Clocked`), so that a deletion, which requires the selected `touched_at` and no reference, cannot meet the commit that re-checks presence |
| `RuntimeDocumentsProofs` | `RootsNeverGoBack` | only `Commit` changes the root, and it compares within its batch |
| `RuntimeDocumentsProofs` | `RestoresFindTheirParts` | `Fresh`: a part that a restore still needs is referenced, or was stamped after the manifest was read, less the latency; a page to delete holds only older ones |
| `RuntimeDocumentsProofs` | `AcknowledgedIsStored` | `Honest`, without retirements: documents are as old as the scan they carry, the last one of a publication carries its scan, and a newer root is later for all who were told of the old one. With retirements it is false (section 6) |
| `SnapshotOutboxProofs` | `CursorsStayBehind` | `OutboxInv`: files, saved files and sorted originals are covered (`Cursors`), and so is what a send has learned and not written yet (`Working`) |
| `SnapshotOutboxProofs` | `NothingSavedIsDropped` | `Held`: a file of the saved outbox that is gone from the machine has its `Reason`, and one in quarantine has all valid rows accepted, which the loss of the machine in any state needs |
| `RpcLedgerProofs` | `LedgerTypes`, `SpendingIsLedgered`, `NoMonthIsOverspent`, `UnitsAreNeverRefunded` | `IInv`: the ledger and the cache are capped by the limit, each scan's local ledger, grant and pending grant are covered (`Sound`), every request in flight carries a ledger that was allocated legitimately (`Carried`), one scan is active (`Serial`) |
| `ScannerScanProofs` | `LaterPoolsKeepTheirShares` | `RoutingShares`: within its turn a pool spends at most its cap, and the cap leaves the equal shares of the pools after it; between turns every pool left has its share. The arithmetic of the quotients is in lemmas of its own (`ShareLeavesTheRest`) |
| `ScannerScanProofs` | `ActionableRestsOnTheWholeWave` | `WaveCovered`: a covered second was read, and what was read and is not in the buffer is marked as omitted or has left the window; `WaveAlert`: a complete alert has its whole wave in the buffer, and its tier is the one of its traits |
| `ScannerScanProofs` | `ConfirmedRegimesWereQuiet` | `QuietChain`: the snapshots of a quiet regime follow one another within the gap, in every copy; `QuietBreak`: an activation that is remembered ended one; `QuietRegimes`: no copy is from the future, and a run records later than the last snapshot of its copy |
| `ScannerScanProofs` | `MeasuredOutcomesStay` | `OutcomeKept`: every copy of an outcome is sane (its counted prices were on time and its extremes lie before), and a copy updated later, which may take the place of another, goes on from it: the remote row and the pulse's from the deep scan's, the pulse's from the row |
| `ScannerScanProofs` | `CapsAreExact`, `ReadsConfirm` | `ThesisInv`, of the thesis and the pending one. `ThesisOrigin`: each comes from one of the alerts, and only what became unknown takes a confirmation back. `ThesisCycle`: the wallets done in a cycle were read since it began. `ThesisExact`: what is sold is the reported tokens up to what was bought, and the cap the least read or the rest. What is reported is the cardinality of a set of tokens, which a larger report extends |
| `ScannerStoreProofs` | `OneFaultLosesNothing` | `StateKept`: at each phase of a job, what at least one of the file, the cache and the checkpoint holds after one fault, and that they agree before it; `StateClock`: the stores date from earlier jobs |
| `ScannerStoreProofs` | `LoadedIsNotRefused` | `StateOrder`: without a fault the stores are of one age (`SameAge`); one fault leaves one of them behind the others by time and by revision (`Behind`), so that both orders agree (`Aligned`); after two, which stores may be `Inverted` and that no job meets them together. Only a third fault brings them together |
| `ScannerStoreProofs` | `VerifiedDestinationIsComplete` | `MigrationCourse`: how far the destination is at each step of a run, whatever else is in flight; the marker of the end is sent only when the destination was whole (`Whole`), late pages and upgrades are refused by the receipts it then has (`WholeStays`), and once verified it refuses every write |
| `ScannerChainProofs` | `KeptIsProvenOnTheChain` | `ChainInv`: a database is proved by the chain while its checkpoint is on it and nothing it used was lost unnoticed, cached receipts included (`ChainValid`), and what it stores is sound whatever became of its blocks (`ChainSound`); a scan under way adds only what its head covers (`ChainScanning`) |
| `ScannerChainProofs` | `AttributedTokensAreReal` | `FlowInv`: the course follows the transfers, each of which the chain allowed (`Linked`); bought tokens are part of what a wallet holds (`Mixed`); the checkpoint is right about the first point of the course, and a check under way about the point it has replayed to (`Attributed`). The part of a transfer beyond the unattributed rest of a balance was bought, since that rest is at least what was not bought (`FlowGuarantees`) |
| `ScannerChainProofs` | `PublishedPointsSurvive` | `RecoveryInv`: how far the release of a run is at each of its steps (`RecoveryCourse`), so that a marked one is a whole copy (`MarkedIsWhole`); and the copies that neither a prune in progress has doomed nor the run has made are enough (`Staying`) |
| `ScannerStoreProofs` | `PaidUnitsAreCharged` | `GrantCovered`: in each month the durable ledger covers what was sent and what is left of the grant in use, and a grant charged but not yet in use is covered by the run's own ledger |

An invariant alone is not inductive in any of them: `CatalogueCovers`, for example, says nothing about a
PUT that is still on its way, and the step in which it lands needs that its row was raised before.

`PauseNotified`, `IssuedOnChargedDay` and `NeverRefunded` are proved and no longer repeated by a run.

Only model-checked: `OutboxDrains`, which is liveness; and of the sixteen parts their types and five properties:

- `LineageIsReal` and `PairsArePointInTime` compare what a fold over a history computes (a search through accounts, a matching of pairs) with a reference; what folds return for every input needs induction over data;
- `EveryPoolHasItsTurn` and `DeepStaysFresh` are bounded forms of liveness whose bounds are tuned to the instance;
- `CoveredIsParsed` rests on the reconciliation of tasks with covered seconds (`Fitted`), a fold over any number of tasks.

Out of reach of the proof system, and left to TLC: liveness under fairness and `ENABLED`, what recursive definitions compute by
induction over data, and any module that declares a RECURSIVE operator (none does here).

## 6. Findings

1. `history_midnight`: the claim resets the daily counter when `hist_day` *differs* (`history-sql-queue.js:302`), so a claim
   prepared before midnight that runs after the first claim of the new day sets the day back, and the next starts the allowance again.
   `MIGRATION_AND_REPAIR.md:160-161` says repeated calls cannot raise daily budgets.
2. `history_retired_lock`: the flush of a retired episode delivers its event without the phase
   `unlock`. If it held the structural lock, the lock keeps a job nobody runs, and every other event that needs the
   lock yields for good. `MIGRATION_AND_REPAIR.md` says no path removes a pending owner.
3. `outbox_replay`: a replay sorts the rows of an archived snapshot only while its cursor is 0 and does not keep the sorted body. When it is
   cut between two rows, the next replay applies the cursor to the built order: a row is never sent, and the entry is completed.
4. `migration_resume`: the reply to the schema upgrade is lost after it committed. Each rerun first resets the sequence of the
   migration tracking to the export's value and then expects the value after the upgrade: a mismatch, for ever.

Five more statements of the documents are properties of their modules that TLC finds violated with the configuration named here. They are the
claims that the properties of section 4 exempt by name:

- `SequencesPreserved` (`MigrationLate.cfg`): a sequence write whose reply was lost lands in a later run, behind the last verification
  (`tools/migrate_storage.py:937`): the guard row looks at the status alone, so the write commits and the destination is marked verified
  with sequences that its proof would refuse. `STORAGE_MIGRATION.md:83-84` says they are preserved.
- `ReorganizedFailsClosed` (`RobinhoodReorganized.cfg`): a scan compares only the block of its history cursor with the chain (`robinhood.py:902`), while a cohort is
  checked at the scan's head, above the cursor as long as history is left to read. When just the blocks in between are replaced, which takes a
  reorganization deeper than the confirmations, nothing notices and the bound of the lost blocks stays. After a scan that failed past its checkpoint the same happens to cached
  receipts, when the start of the window moves back. `ROBINHOOD.md:73-75` says reorganized history fails closed.
- `OverlapIsRead` (`HistoryOverlap.cfg`): a transaction lands late in a covered second, and the next head is cut above it. What is unread of the head is
  reconciled with what was covered before (`pool_history.py:169`), so the rest of the overlap is no task, and the next overlap begins
  later. `README.md:427-432` promises the overlap, and that a second of a cut page stays uncovered.
- `FailuresHoldBack` (`HistoryFallback.cfg`): the coverage of a probe is kept before its transactions are decoded. When the repair of the same scan meets a lagging head, the
  scan falls back to signatures (`scanner.py:11909`), whose success keeps the probe's cursor: the transaction that did not decode is never
  asked for again. `README.md:422` says parser failures never advance the checkpoint.
- `OnlyEarliestCounts` (`EvaluationCapacity.cfg`): a cohort over its capacity forgets its oldest rows (`prospective_evidence.py:209`), and with them that the token was observed before:
  its later row, or a new capture, becomes primary. `SIGNAL_EVALUATION.md:262-264` says later episodes cannot replace the first.

Also seen while modelling, each with the instance that shows it where there is one:

- *Queue*: the statement that takes the structural lock (`history-progress.js:93`) is fenced only by a look at the lease before it is
  sent (`history-sql-queue.js:437`). Run late, after another flush has delivered the event, it locks for an event that
  nobody resumes (`LockOwnerOpen` without `belated`).
- *Dashboard*: the rewrite of the stored dashboard carries the Worker's clock; the scan that caused it publishes with its
  earlier `generated_at` and is answered `stale_checkpoint` (`Published`, in `RuntimeRetirement.cfg`).
- *Histories*: a quiet pool always takes the signature route, and one transaction that cannot be decoded holds a pool's history back, by design.
- *State*: a deep scan dates itself before its last steps; when one of them fails, the failed attempt saves that date and the next
  targeted pass publishes it, against `RUNTIME_ARCHITECTURE.md:23`.
- *Outbox*: two files at the head that never fit the archive keep the rest from being tried; recovery stops at the first file it cannot
  archive.
- *Lane*: pools that fail for ever and are at least as many as the reserve starve rotation (`scanner.py:15063`); the bound of
  `EveryPoolHasItsTurn` grows with the faults for this reason.
- *Routing*: a method's streak of failures is cleared when its cooldown ends, so that method circuits never open through routed
  calls. The scans of a pass share what the head sweep has left.
- *Theses*: nothing sets `invalidated` any more. *Outcomes*: a re-anchored outcome has no `updated_at`, so an older remote copy may
  replace it until history anchors it again; an ATH once valid is trusted again when the observed cap falls back.
- *Baselines*: a snapshot of the deep scan that is not sent to the remote row (the token is not hot and was sent lately) is not seen by a
  pulse that has a checkpoint, so a busy one is lost when the pulse's newer copy is merged; and a pulse whose checkpoint was restored from its durable copy does
  not read the row at all. The remote row of a queue item is compared by fields the item does not have
  (`scanner.py:1941`), so the remote one always wins.
- *Lineage*: no caller passes witnesses of a swap, so nothing is ever proved sold. *Grant*: the final validation of a
  block has one reserved request; one failed attempt ends it.
- *Dispatch*: the six-hourly recovery run is no dispatch, so neither the guard nor the watchdog sees it: it can replace a pending deep scan, and a
  targeted scan can be dispatched behind it. A guard that read the runs before a deep scan was queued lets its own dispatch replace that scan, against
  `README.md:124-125`. The watchdog yields to any dispatched run, a targeted one of :37 too, and looks for attempts
  in a `scan_profile` that the scan status never has (`scanner.py:538-548`). All this is why `Pace` is 3 h 40 min in an hourly schedule.
- *Backups*: pruning a marked draft deletes its release and then fails at its tag, which has none; a tag whose deletion fails stays.
- Documents name a 48-hour grace for unreferenced parts where the configured default is 60 minutes, and chunk sizes in the
  Worker's README differ from those in the code; `Grace` and the chunks are parameters.

## 7. What is not modelled

- Byte ceilings next to row ceilings, payload sizes and formats, hashing (a digest is its content).
- The statements inside a phase of history work, and the search for a component of wallets; archive consumer
  leases and the daily archive quota of the queue; cutover and legacy import; maintenance and retention jobs.
- For the dispatch: publication and UI runs, which have a group of their own; targeted scans started by hand; a freshness
  step that cannot read the dashboard (the run then scans); the `auto` mode that asks GitHub for its status first is a lost event.
- A statement that executes later than `Latency` after its clock was read, except where `Latency` allows it
  (a RPC ledger request may arrive arbitrarily late). The collector's limit of queries per run (it only ends earlier).
- For the ledger: several providers in one document, changes of the configured limit, concurrent scans.
- For the state: the pulse's own checkpoint (its baselines and outcomes are in `ActivityBaseline` and `MarketOutcomes`).
- For the evidence: scores, medians, calipers and wording; the legacy (not attention) mode of the scanner; all-time-high
  fetching; promotion of legacy theses; a fixed start of the holdout; several versions of rows.
- For lineages: failed transactions, fees, several accounts of one owner, `annotate_pool_activity`; the capture of a receipt is merged with its
  check, and a page may fail at any point (which covers an exhausted page budget).
- For the Robinhood chain: discovery and ordering of pools, token age, legacy cohorts, transaction preparation (relay, LI.FI).
- For the tools: parsing of exports, the local build, the encoding of a backup, the restore of a backup.
- Wall clocks that go backward. Machines may lag (`Skew`), each by a constant.

## 8. Plan

Built, in this order: `R2Budget`, `HistoryDelivery` and `HistoryQueue`, `RuntimeDocuments`, `RpcLedger`, with their proofs;
`SnapshotOutbox`; `ScanState`, `ScanLane`, `PoolHistory`, `RpcRouting`; `SignalThesis`, `AlertEvidence`, `MarketOutcomes`,
`ActivityBaseline`, `SignalEvaluation`; `PositionLineage`, `PositionFlow`, `Robinhood`, `RunGrant`; `StorageMigration`, `RecoveryPoints`; `ScanDispatch`. Next:

1. `HistoryArchive`: the lease of the archive consumer, quota, compaction; it refines `Archived` of `HistoryQueue`.
2. `HistoryCutover`, `HistoryProgress`, `HistoryMaintenance`, `TokenRetirement`.

Theorems to add: `CoveredIsParsed` and `LineageIsReal`, with the reconciliation and the search written as steps instead of folds.

## 9. How to run

In this directory: `tlc -config R2Guard.cfg MCR2Budget` (likewise for the other runs; `PROJECT.json` names the
module of each, and the configurations of section 6 are of `MCStorageMigration`, `Robinhood`, `PoolHistory` and `SignalEvaluation`), `tlapm R2BudgetProofs.tla` for the proofs
(likewise for the other modules of section 5; the three `Scanner*Proofs` take about fifteen minutes each, the others a few). The longest run takes about three minutes with two workers.
