---------------------------- MODULE HistoryQueue ----------------------------
(***************************************************************************)
(* The durable history queue in Turso                                      *)
(* (cloudflare/scan-dispatcher/src/history-sql-queue.js) and the work its  *)
(* flushes do for an event (history-progress.js).                          *)
(*                                                                         *)
(* A flush selects an event, leases it together with a share of the daily  *)
(* write budget, advances it phase by phase, saves its progress and        *)
(* finishes.  Every one of these is a SQL batch of its own: between two    *)
(* of them other flushes run, leases expire, the day turns, a token is     *)
(* retired, or the flush dies.  A batch is atomic and is decided on the    *)
(* clock its invocation read before sending it.                            *)
(***************************************************************************)
EXTENDS Integers, Sequences, FiniteSets, FiniteSetsExt

CONSTANTS
  Events, Episodes,
  Episode,          \* the episode of each event
  SourceAt,         \* its source time
  Prioritized,      \* the events whose episodes producers may name as priorities
  Rank,             \* its place in the order (source_at, event_id)
  Phases,           \* the phases of its history work: plain, locked or unlock
  Cost,             \* the write units of a phase of each kind
  Flushers,         \* concurrent flush invocations
  Latency,          \* how long after its clock reading a statement may run
  Retirement,       \* TOKEN_RETIREMENT_ENABLED
  LeaseTicks, DayTicks, LiveTicks, MaxBackoff, RetentionTicks,
  Budget,           \* daily history write units
  LiveUnits,        \* of which only live episodes may use these
  FlushUnits,       \* the most one flush reserves
  ColdRows, LiveRows, MaxReceipts,
  MaxTime           \* bound of the clock

Kinds == {"plain", "locked", "unlock"}
Never == -1
NoFlusher == "no flusher"
NoEvent == "no event"
Unlocked == "unlocked"

ASSUME EventAssumption ==
  /\ Episode \in [Events -> Episodes]
  /\ SourceAt \in [Events -> Int]
  /\ Rank \in [Events -> Nat]
  /\ Prioritized \subseteq Events
  /\ Phases \in [Events -> Seq(Kinds)]
  /\ \A e, f \in Events : Rank[e] = Rank[f] => e = f
  /\ \A e, f \in Events : SourceAt[e] < SourceAt[f] => Rank[e] < Rank[f]
  /\ NoEvent \notin Events /\ Unlocked \notin Events /\ NoFlusher \notin Flushers

(* Every path of resumeHistoryEvent from a phase that takes the lock leads *)
(* through the phase that gives it back.                                   *)
ASSUME LockAssumption ==
  \A e \in Events : \A i \in DOMAIN Phases[e] :
    Phases[e][i] = "locked" => \E j \in DOMAIN Phases[e] : j > i /\ Phases[e][j] = "unlock"

(* An event whose largest phase exceeds the daily budget is refused at     *)
(* enqueue (history_event_exceeds_atomic_daily_allowance).                 *)
ASSUME UnitAssumption ==
  /\ {LeaseTicks, DayTicks, LiveTicks, MaxBackoff, FlushUnits} \subseteq Nat \ {0}
  /\ {RetentionTicks, Budget, LiveUnits, ColdRows, LiveRows, MaxReceipts, MaxTime} \subseteq Nat
  /\ LiveUnits <= Budget /\ Latency \in 0 .. LeaseTicks - 1 /\ Retirement \in BOOLEAN
  /\ Cost \in [Kinds -> Nat \ {0}]
  /\ \A e \in Events : \A i \in DOMAIN Phases[e] : Cost[Phases[e][i]] <= Budget

VARIABLES
  now,       \* the clock
  row,       \* history_sql_queue_events
  hist,      \* hist_day and hist_writes of history_sql_queue_meta
  lock,      \* history_cluster_lock: the event that holds it
  effect,    \* per event, the phases whose writes are in the history tables
  retired,   \* retired_episode_ids
  flush,     \* the flush invocations
  cleaning,  \* a retirement cleanup has found the lock free
  spent,     \* history: units sent to the database, per budget day and class
  overtaken, \* history: events accepted after a newer one of their episode
  openings,  \* history: how often the budget of a day was started
  belated    \* history: events a statement ran for after its lease had ended

vars == <<now, row, hist, lock, effect, retired, flush, cleaning, spent, overtaken, openings, belated>>

-----------------------------------------------------------------------------
Days == 0 .. (MaxTime \div DayTicks)
Day(t) == t \div DayTicks
MaxRows == ColdRows + LiveRows
Classes == {"live", "cold"}

NoRow ==
  [status |-> "absent", live |-> Never, next |-> 0, holder |-> NoFlusher, until |-> Never,
   step |-> 0, locked |-> FALSE, archive |-> FALSE, at |-> Never]

Pending == {e \in Events : row[e].status = "pending"}
Delivered == {e \in Events : row[e].status = "delivered"}
Occupied == {e \in Events : row[e].status = "pending" \/ row[e].archive}

Older(e) == {f \in Events : Episode[f] = Episode[e] /\ Rank[f] < Rank[e]}

(* History: some work of the event is done, or may be on its way.          *)
Started(f) ==
  \/ effect[f] > 0
  \/ \E w \in Flushers : flush[w].phase \in {"claimed", "working"} /\ flush[w].event = f

(* live_episode: some pending event of the episode is fresh or prioritized.*)
LiveAt(e, t) ==
  \E f \in Pending : Episode[f] = Episode[e] /\ (SourceAt[f] >= t - LiveTicks \/ row[f].live >= t)

(* What a claim may charge up to, and the least it must be able to charge. *)
Allowance(live) == IF live THEN Budget ELSE Budget - LiveUnits
Minimum(e, step) == IF step = Len(Phases[e]) THEN 0 ELSE Cost[Phases[e][step + 1]]

(* The budget after the reset a claim of day d performs.                   *)
Reset(d) == IF hist.day = d THEN hist ELSE [day |-> d, writes |-> 0]

(* An event may be leased at t: due, not leased, first of its episode.     *)
(* Variant: the claim does not look at older events again.                 *)
ClaimableOutOfOrder(e, t) ==
  /\ row[e].status = "pending" /\ row[e].next <= t /\ SourceAt[e] <= t
  /\ row[e].holder = NoFlusher \/ row[e].until <= t
Claimable(e, t) ==
  /\ row[e].status = "pending" /\ row[e].next <= t /\ SourceAt[e] <= t
  /\ row[e].holder = NoFlusher \/ row[e].until <= t
  /\ Older(e) \cap Pending = {}

Holds(w, e, t) == row[e].status = "pending" /\ row[e].holder = w /\ row[e].until > t

(* The delay after a failure doubles with the attempts, up to a ceiling;   *)
(* the attempts are not counted here, any such delay may come.             *)
Backoff == 1 .. MaxBackoff

Idle ==
  [phase |-> "idle", event |-> NoEvent, clock |-> 0, live |-> FALSE, day |-> Never, until |-> Never,
   reserved |-> 0, used |-> 0, step |-> 0, locked |-> FALSE, outcome |-> "none"]

Set(w, state) == flush' = [flush EXCEPT ![w] = state]

(* The clock readings the statement running now may have been sent on: not *)
(* before the previous one returned, nor longer ago than the timeout of a  *)
(* request.                                                                *)
Readings(w) == Max({flush[w].clock, now - Latency}) .. now

Init ==
  /\ now = 0
  /\ row = [e \in Events |-> NoRow]
  /\ hist = [day |-> Never, writes |-> 0]
  /\ lock = Unlocked
  /\ effect = [e \in Events |-> 0]
  /\ retired = {}
  /\ flush = [w \in Flushers |-> Idle]
  /\ cleaning = FALSE
  /\ spent = [d \in Days |-> [c \in Classes |-> 0]]
  /\ overtaken = {}
  /\ openings = [d \in Days |-> 0]
  /\ belated = {}

-----------------------------------------------------------------------------
(* Producers.                                                              *)

(* Variant: the status of a removed row is not looked at.                  *)
ExpiredAnyStatus(t) ==
  LET old == {e \in Events : ~row[e].archive /\ row[e].at < t - RetentionTicks} IN
  {e \in old : \A f \in old : row[e].at <= row[f].at}
(* The oldest receipt beyond its retention, if there is one: an insertion  *)
(* removes it.                                                             *)
Expired(t) ==
  LET old == {e \in Delivered : ~row[e].archive /\ row[e].at < t - RetentionTicks} IN
  {e \in old : \A f \in old : row[e].at <= row[f].at}

(* The capacity triggers, after the removal of gone: a cold row needs room *)
(* below the cold ceiling (the v2 trigger).                                *)
(* Variant: cold rows may take the reserved places as well.                *)
RoomForAny(cold, gone) ==
  /\ Cardinality(Occupied \ gone) + 1 <= MaxRows
  /\ Cardinality((Pending \cup Delivered) \ gone) + 1 <= MaxReceipts
Room(cold, gone) ==
  /\ Cardinality(Occupied \ gone) + 1 <= IF cold THEN Min({ColdRows, MaxRows}) ELSE MaxRows
  /\ Cardinality((Pending \cup Delivered) \ gone) + 1 <= MaxReceipts

(* A submitted event is live when its source is fresh or its episode is    *)
(* named as a priority.                                                    *)
Fresh(e) == SourceAt[e] >= now - LiveTicks
SubmittedLive(e) == IF Fresh(e) THEN {TRUE} ELSE IF e \in Prioritized THEN BOOLEAN ELSE {FALSE}

(* enqueue() of a new event; a live one stays live for a day.              *)
Enqueue(e, live) ==
  /\ row[e].status = "absent"
  /\ Episode[e] \notin retired
  /\ \E gone \in SUBSET Expired(now) :
       /\ Cardinality(gone) = Min({1, Cardinality(Expired(now))})
       /\ Room(~live, gone)
       /\ row' = [f \in Events |->
            IF f = e THEN [NoRow EXCEPT !.status = "pending", !.next = now,
                                        !.live = IF live THEN now + LiveTicks ELSE Never]
            ELSE IF f \in gone THEN NoRow ELSE row[f]]
  /\ overtaken' =
       IF \E f \in Events : e \in Older(f) /\ Started(f)
       THEN overtaken \cup {e} ELSE overtaken
  /\ UNCHANGED <<now, hist, lock, effect, retired, flush, cleaning, spent, openings, belated>>

(* A known pending event that is submitted again as live is promoted.      *)
Promote(e) ==
  /\ LiveRows > 0 \/ LiveUnits > 0
  /\ TRUE \in SubmittedLive(e)
  /\ row[e].status = "pending"
  /\ Episode[e] \notin retired
  /\ row' = [row EXCEPT ![e].live = Max({@, now + LiveTicks})]
  /\ UNCHANGED <<now, hist, lock, effect, retired, flush, cleaning, spent, overtaken, openings, belated>>

-----------------------------------------------------------------------------
(* A flush: select, claim, work, save, finish.                             *)

(* The selection of claim(): among the due events the first, live episodes *)
(* before cold ones, that the budget left can advance.                     *)
Affordable(t) ==
  LET writes == IF hist.day = Day(t) THEN hist.writes ELSE 0 IN
  {e \in Events : Claimable(e, t) /\ Minimum(e, row[e].step) <= Allowance(LiveAt(e, t)) - writes}

Preferred(e, f, t) ==
  \/ LiveAt(e, t) /\ ~LiveAt(f, t)
  \/ (LiveAt(e, t) <=> LiveAt(f, t)) /\ Rank[e] <= Rank[f]

Select(w) ==
  /\ flush[w].phase = "idle"
  /\ \E e \in Affordable(now) :
       /\ \A f \in Affordable(now) : Preferred(e, f, now)
       /\ Set(w, [Idle EXCEPT !.phase = "selected", !.event = e, !.clock = now, !.live = LiveAt(e, now),
                              !.used = Minimum(e, row[e].step)])
  /\ UNCHANGED <<now, row, hist, lock, effect, retired, cleaning, spent, overtaken, openings, belated>>

(* The state of a flush that has leased its event, with the cursor of the  *)
(* row.                                                                    *)
Leased(f, reserved) ==
  [phase |-> IF Retirement THEN "claimed" ELSE "working", event |-> f.event, clock |-> now, live |-> f.live,
   day |-> Day(f.clock), until |-> f.clock + LeaseTicks, reserved |-> reserved, used |-> 0,
   step |-> row[f.event].step, locked |-> row[f.event].locked, outcome |-> "none"]

(* The claim batch: it runs later than the selection, on the same clock    *)
(* reading.  It resets the budget at a new day, leases the event if it is  *)
(* still free and affordable, and charges the reservation.                 *)
Claim(w) ==
  LET e == flush[w].event
      t == flush[w].clock
      meta == Reset(Day(t))
      left == Allowance(flush[w].live) - meta.writes
  IN
  /\ flush[w].phase = "selected" /\ now <= t + Latency
  /\ IF Claimable(e, t) /\ left >= flush[w].used
     THEN \E maximum \in 1 .. FlushUnits :
            LET reserved == Min({maximum, left}) IN
            /\ row' = [row EXCEPT ![e] = [@ EXCEPT !.holder = w, !.until = t + LeaseTicks, !.next = t + LeaseTicks]]
            /\ hist' = [meta EXCEPT !.writes = @ + reserved]
            /\ Set(w, Leased(flush[w], reserved))
     ELSE hist' = meta /\ Set(w, Idle) /\ UNCHANGED row
  /\ openings' = IF hist.day = Day(t) THEN openings ELSE [openings EXCEPT ![Day(t)] = @ + 1]
  /\ UNCHANGED <<now, lock, effect, retired, cleaning, spent, overtaken, belated>>

Conclude(w, outcome) == Set(w, [flush[w] EXCEPT !.phase = "saving", !.clock = now, !.outcome = outcome])

(* Variant: statements are not counted against the reservation.            *)
UncountedStatement(w, units) ==
  \E t \in Readings(w) : Day(t) = flush[w].day /\ t < flush[w].until

(* checkedHistoryDb: a statement is sent only on the day of the            *)
(* reservation, inside it, and before the lease expires; it is counted     *)
(* when it is sent.                                                        *)
Statement(w, units) ==
  /\ flush[w].used + units <= flush[w].reserved
  /\ \E t \in Readings(w) : Day(t) = flush[w].day /\ t < flush[w].until

Spend(w, units) ==
  /\ belated' = IF flush[w].until <= now THEN belated \cup {flush[w].event} ELSE belated
  /\ spent' = [spent EXCEPT ![flush[w].day][IF flush[w].live THEN "live" ELSE "cold"] = @ + units]

Working(w, kind) ==
  /\ flush[w].phase = "working"
  /\ flush[w].step < Len(Phases[flush[w].event])
  /\ Phases[flush[w].event][flush[w].step + 1] = kind

(* An event of a retired episode counts as delivered with nothing left to  *)
(* do, its history lock untouched.                                         *)
Discard(w) ==
  Set(w, [flush[w] EXCEPT !.phase = "saving", !.clock = now, !.outcome = "retired",
                          !.step = Len(Phases[flush[w].event])])

(* eventIsRetired(), once before the work.                                 *)
CheckRetirement(w) ==
  /\ flush[w].phase = "claimed"
  /\ IF Episode[flush[w].event] \in retired THEN Discard(w)
     ELSE Set(w, [flush[w] EXCEPT !.phase = "working", !.clock = now])
  /\ UNCHANGED <<now, row, hist, lock, effect, retired, cleaning, spent, overtaken, openings, belated>>

(* The triggers of migration 0007 abort a later write of a retired episode *)
(* (token_episode_retired).                                                *)
FencedWrite(w) ==
  /\ \/ Working(w, "plain")
     \/ Working(w, "locked") /\ flush[w].locked
  /\ Episode[flush[w].event] \in retired
  /\ Discard(w)
  /\ UNCHANGED <<now, row, hist, lock, effect, retired, cleaning, spent, overtaken, openings, belated>>

(* The structural lock is taken before the first locked phase; a busy lock *)
(* yields.                                                                 *)
TakeLock(w) ==
  LET e == flush[w].event IN
  /\ Working(w, "locked") /\ ~flush[w].locked
  /\ Statement(w, 1)
  /\ Spend(w, 1)
  /\ IF lock \in {Unlocked, e}
     THEN /\ lock' = e
          /\ Set(w, [flush[w] EXCEPT !.clock = now, !.locked = TRUE, !.used = @ + 1])
     ELSE /\ Set(w, [flush[w] EXCEPT !.phase = "saving", !.clock = now, !.used = @ + 1, !.outcome = "deferred"])
          /\ UNCHANGED lock
  /\ UNCHANGED <<now, row, hist, effect, retired, cleaning, overtaken, openings>>

(* One phase: its idempotent writes reach the history tables, then either  *)
(* the cursor moves on or the answer is lost.  The writes of a retired     *)
(* episode are fenced off, but for some of the cluster tables.             *)
Advance(w) ==
  LET e == flush[w].event
      kind == Phases[e][flush[w].step + 1]
  IN
  /\ \/ Working(w, "plain") /\ Episode[e] \notin retired
     \/ Working(w, "locked") /\ flush[w].locked
     \/ Working(w, "unlock")
  /\ Statement(w, Cost[kind])
  /\ Spend(w, Cost[kind])
  /\ effect' = [effect EXCEPT ![e] = Max({@, flush[w].step + 1})]
  /\ lock' = IF kind = "unlock" /\ lock = e THEN Unlocked ELSE lock
  /\ \/ Set(w, [flush[w] EXCEPT !.clock = now, !.used = @ + Cost[kind], !.step = @ + 1,
                                !.locked = @ /\ kind # "unlock"])
     \/ Set(w, [flush[w] EXCEPT !.phase = "saving", !.clock = now, !.used = @ + Cost[kind], !.outcome = "failed"])
  /\ UNCHANGED <<now, row, hist, retired, cleaning, overtaken, openings>>

(* Variant: an event that yields is taken for delivered.                   *)
StopDelivered(w) ==
  /\ flush[w].phase = "working"
  /\ Conclude(w, "delivered")
  /\ UNCHANGED <<now, row, hist, lock, effect, retired, cleaning, spent, overtaken, openings, belated>>
(* The work ends early: it yields to its query, request or write budget,   *)
(* or fails: a new day, an expired lease, an error of the database.        *)
Stop(w) ==
  /\ flush[w].phase = "working"
  /\ \/ flush[w].step < Len(Phases[flush[w].event]) /\ \E outcome \in {"deferred", "failed"} : Conclude(w, outcome)
     \/ flush[w].step = Len(Phases[flush[w].event]) /\ Conclude(w, "delivered")
  /\ UNCHANGED <<now, row, hist, lock, effect, retired, cleaning, spent, overtaken, openings, belated>>

(* saveProgress(): the cursor is saved only under the lease; without it    *)
(* the flush throws and leaves everything as it is.                        *)
SaveProgress(w) ==
  LET e == flush[w].event IN
  /\ flush[w].phase = "saving"
  /\ \E t \in Readings(w) :
       IF Holds(w, e, t)
       THEN /\ row' = [row EXCEPT ![e] = [@ EXCEPT !.step = flush[w].step, !.locked = flush[w].locked]]
            /\ Set(w, [flush[w] EXCEPT !.phase = "finishing", !.clock = now])
       ELSE Set(w, Idle) /\ UNCHANGED row
  /\ UNCHANGED <<now, hist, lock, effect, retired, cleaning, spent, overtaken, openings, belated>>

(* Variant: the whole reservation is refunded.                             *)
RefundWhole(w, e, t) ==
  IF hist.day = flush[w].day /\ Holds(w, e, t)
  THEN [hist EXCEPT !.writes = @ - flush[w].reserved] ELSE hist
(* The refund of finish(): only of its own day, and only under the lease.  *)
Refund(w, e, t) ==
  IF hist.day = flush[w].day /\ Holds(w, e, t)
  THEN [hist EXCEPT !.writes = @ - Max({0, flush[w].reserved - flush[w].used})]
  ELSE hist

(* finish(): refund and receipt in one batch; the CHECK of the counter     *)
(* aborts it whole, as a lost lease leaves the row alone.  Delivered rows  *)
(* keep their payload while an archive copy is due.                        *)
Finished(w, e, t) ==
  CASE flush[w].outcome \in {"delivered", "retired"} ->
         {[row[e] EXCEPT !.status = "delivered", !.archive = due, !.step = 0, !.locked = FALSE,
                         !.holder = NoFlusher, !.until = Never, !.at = t] :
            due \in IF flush[w].outcome = "retired" THEN {FALSE} ELSE BOOLEAN}
    [] flush[w].outcome = "deferred" ->
         {[row[e] EXCEPT !.holder = NoFlusher, !.until = Never, !.next = t + 1]}
    [] OTHER ->
         {[row[e] EXCEPT !.holder = NoFlusher, !.until = Never, !.next = t + delay] : delay \in Backoff}

Finish(w) ==
  LET e == flush[w].event IN
  /\ flush[w].phase = "finishing"
  /\ \E t \in Readings(w) :
       IF Refund(w, e, t).writes >= 0
       THEN /\ hist' = Refund(w, e, t)
            /\ IF Holds(w, e, t) THEN \E next \in Finished(w, e, t) : row' = [row EXCEPT ![e] = next]
               ELSE UNCHANGED row
       ELSE UNCHANGED <<hist, row>>
  /\ Set(w, Idle)
  /\ UNCHANGED <<now, lock, effect, retired, cleaning, spent, overtaken, openings, belated>>

(* The invocation is killed, or an answer does not reach it.               *)
Die(w) ==
  /\ flush[w].phase # "idle"
  /\ Set(w, Idle)
  /\ UNCHANGED <<now, row, hist, lock, effect, retired, cleaning, spent, overtaken, openings, belated>>

-----------------------------------------------------------------------------
(* The archive consumer has stored the payload (flushArchives).            *)
Archived(e) ==
  /\ row[e].archive
  /\ row' = [row EXCEPT ![e].archive = FALSE]
  /\ UNCHANGED <<now, hist, lock, effect, retired, flush, cleaning, spent, overtaken, openings, belated>>

(* It drops the row of an episode it finds retired.                        *)
DropRetired(e) ==
  /\ row[e].archive /\ Episode[e] \in retired
  /\ row' = [row EXCEPT ![e] = NoRow]
  /\ UNCHANGED <<now, hist, lock, effect, retired, flush, cleaning, spent, overtaken, openings, belated>>

(* token-retirement.js: a token is retired with the episodes caught before.*)
Retire(p) ==
  /\ Retirement
  /\ retired' = retired \cup {p}
  /\ UNCHANGED <<now, row, hist, lock, effect, flush, cleaning, spent, overtaken, openings, belated>>

(* cleanupRetirements() looks at the lock once and then removes the queue  *)
(* rows of the retired episodes, one after the other.                      *)
CleanupCheck ==
  /\ Retirement
  /\ cleaning' = (lock = Unlocked)
  /\ UNCHANGED <<now, row, hist, lock, effect, retired, flush, spent, overtaken, openings, belated>>

Cleanup(p) ==
  /\ cleaning /\ p \in retired
  /\ row' = [e \in Events |-> IF Episode[e] = p THEN NoRow ELSE row[e]]
  /\ cleaning' \in BOOLEAN
  /\ UNCHANGED <<now, hist, lock, effect, retired, flush, spent, overtaken, openings, belated>>

Tick ==
  /\ now < MaxTime
  /\ now' = now + 1
  /\ UNCHANGED <<row, hist, lock, effect, retired, flush, cleaning, spent, overtaken, openings, belated>>

Next ==
  \/ Tick \/ CleanupCheck
  \/ \E e \in Events : (\E live \in SubmittedLive(e) : Enqueue(e, live)) \/ Promote(e)
                         \/ Archived(e) \/ DropRetired(e)
  \/ \E p \in Episodes : Retire(p) \/ Cleanup(p)
  \/ \E w \in Flushers :
       \/ Select(w) \/ Claim(w) \/ CheckRetirement(w) \/ FencedWrite(w) \/ TakeLock(w) \/ Advance(w)
       \/ Stop(w) \/ SaveProgress(w) \/ Finish(w) \/ Die(w)

Spec == Init /\ [][Next]_vars

-----------------------------------------------------------------------------
(* Properties.                                                             *)

Row ==
  [status : {"absent", "pending", "delivered"}, live : Int, next : Int,
   holder : Flushers \cup {NoFlusher}, until : Int, step : Nat, locked : BOOLEAN,
   archive : BOOLEAN, at : Int]

Flush ==
  [phase : {"idle", "selected", "claimed", "working", "saving", "finishing"}, event : Events \cup {NoEvent},
   clock : Nat, live : BOOLEAN, day : Int, until : Int, reserved : Int, used : Nat, step : Nat,
   locked : BOOLEAN, outcome : {"none", "delivered", "retired", "deferred", "failed"}]

(* Every variable keeps its shape, the budget counter never goes below     *)
(* zero (the CHECK of migration 0003), and no flush uses more units than   *)
(* it has reserved.                                                        *)
TypeOK ==
  /\ now \in 0 .. MaxTime
  /\ row \in [Events -> Row]
  /\ hist \in [day : Int, writes : Nat]
  /\ lock \in Events \cup {Unlocked}
  /\ effect \in [Events -> Nat]
  /\ retired \subseteq Episodes
  /\ flush \in [Flushers -> Flush]
  /\ \A w \in Flushers :
       flush[w].phase \in {"working", "saving", "finishing"} => flush[w].used <= flush[w].reserved
  /\ cleaning \in BOOLEAN
  /\ spent \in [Days -> [Classes -> Nat]]
  /\ overtaken \subseteq Events /\ openings \in [Days -> Nat] /\ belated \subseteq Events

(* The queue keeps the promise of HistoryDelivery, whatever leases expire  *)
(* and whichever flushes die between two of their statements.              *)
Delivery ==
  INSTANCE HistoryDelivery WITH
    Steps <- [e \in Events |-> Len(Phases[e])],
    receipt <- [e \in Events |-> row[e].status],
    applied <- effect,
    withdrawn <- {e \in Events : Episode[e] \in retired}
DeliveryKept == Delivery!Spec

(* A delivered event has had all of its work done: a saved cursor is never *)
(* ahead of the writes it stands for.                                      *)
DeliveredComplete ==
  \A e \in Delivered : Episode[e] \in retired \/ effect[e] = Len(Phases[e])

(* No work of an event is done while an older one of its episode is        *)
(* pending, unless the older one came in when the work had begun.          *)
EpisodeOrder ==
  \A f \in Events : \A e \in Older(f) \ overtaken :
    row[e].status = "pending" => ~Started(f)

(* The history work of one UTC day stays inside the daily allowance:       *)
(* repeated flushes add throughput, not budget.                            *)
DailyBudget == \A d \in Days : spent[d]["live"] + spent[d]["cold"] <= Budget

(* A day's work stays inside one allowance for every time its counter was  *)
(* started, through refunds, crashed flushes and lost leases; a counter    *)
(* that was started once also keeps the share of the live episodes.  (A    *)
(* claim that was sent before midnight and runs after another flush has    *)
(* started the new day turns the counter back, and the next one starts it  *)
(* once more: claim() resets on hist_day != day.)                          *)
AllowanceKept ==
  \A d \in Days :
    /\ spent[d]["live"] + spent[d]["cold"] <= openings[d] * Budget
    /\ openings[d] <= 1 => spent[d]["cold"] <= Budget - LiveUnits

(* The queue never holds more rows than its ceiling, and rows accepted as  *)
(* cold leave the live places free: deliveries that wait for their archive *)
(* copy keep their place.                                                  *)
WithinCapacity ==
  /\ Cardinality(Occupied) <= MaxRows
  /\ Cardinality({e \in Occupied : row[e].live = Never}) <= ColdRows
  /\ Cardinality(Pending \cup Delivered) <= MaxReceipts

(* The structural lock is held only for an event that is still pending, so *)
(* that some later flush of it can give it back.                           *)
LockOwnerPending == lock # Unlocked => row[lock].status = "pending"

(* Two things can leave the structural lock with an event that no flush    *)
(* will resume: a retirement, and a statement that reached the database    *)
(* after the lease it was sent under.  Whatever else flushes do, die,      *)
(* overlap or lose an answer, the holder keeps its row until it has given  *)
(* the lock back (resumeHistoryEvent).                                     *)
LockOwnerOpen ==
  lock # Unlocked =>
    row[lock].status = "pending" \/ Episode[lock] \in retired \/ lock \in belated
=============================================================================
