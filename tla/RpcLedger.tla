----------------------------- MODULE RpcLedger -----------------------------
(***************************************************************************)
(* The durable ledger of the paid RPC units (rpc_budget.py, the ledger     *)
(* functions of scanner.py and the rpc_ledger document of                  *)
(* cloudflare/scan-dispatcher/src/runtime-sql.js), for one provider.       *)
(*                                                                         *)
(* A scan reserves a small grant in the ledger and writes the ledger to    *)
(* the Worker before it spends a unit of the grant.  Scans run one after   *)
(* the other (the concurrency group of the workflows), but a request of a  *)
(* scan that is over may still reach the Worker, answers get lost, and the *)
(* clocks of the machines differ.                                          *)
(***************************************************************************)
EXTENDS Integers, FiniteSets, FiniteSetsExt

CONSTANTS
  Scans,      \* the scans; each runs at most once
  Limit,      \* the monthly limit of the provider
  Chunk,      \* rpc_durable_grant_units of the provider
  Costs,      \* the units of a request
  MonthTicks, \* length of a month
  Skew,       \* how far the clock of a machine may lag
  MaxFlight,  \* bound of the requests on their way
  MaxTime     \* bound of the clock

ASSUME LedgerAssumption ==
  /\ {Limit, Skew, MaxFlight, MaxTime} \subseteq Nat
  /\ {Chunk, MonthTicks} \subseteq Nat \ {0}
  /\ Costs \subseteq Nat \ {0}
  /\ Scans # {} /\ "nobody" \notin Scans

VARIABLES
  now,    \* the clock
  doc,    \* the rpc_ledger document
  scan,   \* the scans
  flight, \* the requests that are on their way to the Worker or back
  cache,  \* rpc_monthly_usage of the saved state
  spent   \* the units that were sent to the provider, per month

vars == <<now, doc, scan, flight, cache, spent>>

-----------------------------------------------------------------------------
Month(t) == t \div MonthTicks
Months == 0 .. Month(MaxTime)
Nothing == [m \in Months |-> 0]
NoGrant == [month |-> 0, left |-> 0]

(* The payload of a commit: the ledger with its source time and revision.  *)
NoDoc == [by |-> "nobody", used |-> Nothing, source |-> -1, rev |-> 0]

(* The digest of the payload tells allocations apart, not source times.    *)
Content(d) == <<d.by, d.used>>
Unseen == Content(NoDoc)

Newer(d, c) == d.source > c.source \/ (d.source = c.source /\ d.rev > c.rev)

New ==
  [phase |-> "new", lag |-> 0, local |-> Nothing, rev |-> 0, grant |-> NoGrant, failed |-> FALSE,
   next |-> NoGrant, payload |-> NoDoc, attempt |-> 0]

Over == [New EXCEPT !.phase = "over"]

Active(w) == scan[w].phase \notin {"new", "over"}
Set(w, state) == scan' = [scan EXCEPT ![w] = state]

(* A clock of a machine lags behind by a constant.                         *)
Clock(w) == Max({0, now - scan[w].lag})

Init ==
  /\ now = 0
  /\ doc = NoDoc
  /\ scan = [w \in Scans |-> New]
  /\ flight = {}
  /\ cache = Nothing
  /\ spent = Nothing

-----------------------------------------------------------------------------
(* A scan starts from its saved state, or from nothing if that is lost.    *)
Start(w) ==
  /\ scan[w].phase = "new"
  /\ \A v \in Scans : ~Active(v)
  /\ \E local \in {cache, Nothing}, lag \in 0 .. Skew :
       Set(w, [New EXCEPT !.phase = "load", !.local = local, !.lag = lag])
  /\ UNCHANGED <<now, doc, flight, cache, spent>>

Merge(local, durable) == [m \in Months |-> Max({local[m], durable[m]})]

(* load_durable_rpc_ledger(); if it fails, the paid routes are disabled.   *)
LoadLedger(w) ==
  /\ scan[w].phase = "load"
  /\ \/ Set(w, [scan[w] EXCEPT !.phase = "ready", !.local = Merge(@, doc.used), !.rev = doc.rev])
     \/ Set(w, [scan[w] EXCEPT !.phase = "ready", !.failed = TRUE])
  /\ UNCHANGED <<now, doc, flight, cache, spent>>

Remaining(w) == Max({0, Limit - scan[w].local[Month(Clock(w))]})

(* PreallocatedRpcBudget.allows(): a grant ends with its month.            *)
(* Variant: it does not.                                                   *)
AllowsAnyMonth(w, units) == units <= scan[w].grant.left
(* Variant: a grant is good for its whole month.                           *)
AllowsExhausted(w, units) == scan[w].grant.month = Month(Clock(w))
Allows(w, units) ==
  units <= scan[w].grant.left /\ scan[w].grant.month = Month(Clock(w))

(* A request is paid from the grant.                                       *)
Spend(w) ==
  /\ scan[w].phase = "ready" /\ ~scan[w].failed
  /\ \E units \in Costs :
       /\ Allows(w, units)
       /\ Set(w, [scan[w] EXCEPT !.grant.left = @ - units])
       /\ spent' = [spent EXCEPT ![Month(Clock(w))] = @ + units]
  /\ UNCHANGED <<now, doc, flight, cache>>

(* allocate_run_budget(): the next grant is charged to the local ledger    *)
(* and the ledger is to be committed.  There are no units left for a       *)
(* larger grant than what remains of the month.                            *)
Amount(w, units) == Min({Remaining(w), Max({Chunk, units})})

Allocate(w) ==
  LET month == Month(Clock(w)) IN
  /\ scan[w].phase = "ready" /\ ~scan[w].failed
  /\ \E units \in Costs :
       /\ ~Allows(w, units)
       /\ units <= Remaining(w)
       /\ LET amount == Amount(w, units)
              used == [scan[w].local EXCEPT ![month] = @ + amount]
          IN Set(w, [scan[w] EXCEPT !.phase = "post", !.local = used, !.attempt = 0,
                       !.next = [month |-> month, left |-> amount],
                       !.payload = [by |-> w, used |-> used, source |-> Clock(w), rev |-> scan[w].rev + 1]])
  /\ UNCHANGED <<now, doc, flight, cache, spent>>

-----------------------------------------------------------------------------
(* commit_durable_rpc_ledger(): at most two attempts, each with a readback *)
(* when it has not been acknowledged.                                      *)
Request(w) ==
  [payload |-> scan[w].payload, attempt |-> scan[w].attempt, stage |-> "sent", seen |-> Unseen]

Post(w) ==
  /\ scan[w].phase = "post"
  /\ Cardinality(flight) < MaxFlight
  /\ flight' = flight \cup {Request(w)}
  /\ Set(w, [scan[w] EXCEPT !.phase = "waiting"])
  /\ UNCHANGED <<now, doc, cache, spent>>

(* The grant that has been committed replaces the rest of the last one.    *)
Granted(w) ==
  Set(w, [scan[w] EXCEPT !.phase = "ready", !.grant = scan[w].next, !.rev = scan[w].payload.rev,
            !.next = NoGrant, !.payload = NoDoc, !.attempt = 0])

(* A grant that may have been committed stays charged, and is not used.    *)
Refused(w) ==
  Set(w, [scan[w] EXCEPT !.phase = "ready", !.failed = TRUE, !.next = NoGrant, !.payload = NoDoc, !.attempt = 0])

(* Variant: an answer that is lost counts as an acknowledgement.           *)
RetryGranted(w) == Granted(w)
(* The write is sent again once.                                           *)
TryAgain(w) == Set(w, [scan[w] EXCEPT !.phase = "post", !.attempt = 1])

Answered(w) ==
  /\ scan[w].phase = "waiting"
  /\ \E f \in flight :
       /\ f.payload = scan[w].payload /\ f.attempt = scan[w].attempt
       /\ f.stage \in {"yes", "no"}
       /\ flight' = flight \ {f}
       /\ IF f.stage = "yes" THEN Granted(w) ELSE Set(w, [scan[w] EXCEPT !.phase = "readback", !.attempt = 1])
  /\ UNCHANGED <<now, doc, cache, spent>>

(* No answer: the request may be lost, or still on its way.                *)
Timeout(w) ==
  /\ scan[w].phase = "waiting"
  /\ Set(w, [scan[w] EXCEPT !.phase = "readback"])
  /\ UNCHANGED <<now, doc, flight, cache, spent>>

(* Only this grant, with its counters and source version, is recovered;    *)
(* there is no second attempt after an error that is not transient.        *)
Readback(w) ==
  /\ scan[w].phase = "readback"
  /\ \/ doc = scan[w].payload /\ Granted(w)
     \/ scan[w].attempt = 0 /\ TryAgain(w)
     \/ Refused(w)
  /\ UNCHANGED <<now, doc, flight, cache, spent>>

-----------------------------------------------------------------------------
(* The Worker reads the stored ledger, and writes if it is still there.    *)

Regresses(used) == \E m \in Months : used[m] < doc.used[m]

Move(f, stage, seen) == flight' = (flight \ {f}) \cup {[f EXCEPT !.stage = stage, !.seen = seen]}

Read(f) ==
  /\ f.stage = "sent"
  /\ IF Regresses(f.payload.used) THEN Move(f, "no", Unseen)
     ELSE IF Content(f.payload) = Content(doc) THEN Move(f, "yes", Unseen)
     ELSE Move(f, "read", Content(doc))
  /\ UNCHANGED <<now, doc, scan, cache, spent>>

Unchanged(f) == Content(doc) = f.seen

Write(f) ==
  /\ f.stage = "read"
  /\ doc' = IF Unchanged(f) /\ Newer(f.payload, doc) THEN f.payload ELSE doc
  /\ Move(f, IF Content(doc') = Content(f.payload) THEN "yes" ELSE "no", Unseen)
  /\ UNCHANGED <<now, scan, cache, spent>>

Lose(f) ==
  /\ flight' = flight \ {f}
  /\ UNCHANGED <<now, doc, scan, cache, spent>>

-----------------------------------------------------------------------------
(* A scan ends or is killed, with its ledger saved last or not.            *)
End(w) ==
  /\ Active(w)
  /\ cache' \in {cache, scan[w].local}
  /\ Set(w, Over)
  /\ UNCHANGED <<now, doc, flight, spent>>

Tick ==
  /\ now < MaxTime
  /\ now' = now + 1
  /\ UNCHANGED <<doc, scan, flight, cache, spent>>

Next ==
  \/ Tick
  \/ \E w \in Scans :
       \/ Start(w) \/ LoadLedger(w) \/ Spend(w) \/ Allocate(w) \/ Post(w) \/ Answered(w)
       \/ Timeout(w) \/ Readback(w) \/ End(w)
  \/ \E f \in flight : Read(f) \/ Write(f) \/ Lose(f)

Spec == Init /\ [][Next]_vars

-----------------------------------------------------------------------------
(* Properties.                                                             *)

Ledger == [Months -> Nat]
Grant == [month : Months, left : Nat]
Document == [by : Scans \cup {"nobody"}, used : Ledger, source : Int, rev : Nat]
Scan ==
  [phase : {"new", "load", "ready", "post", "waiting", "readback", "over"}, lag : Nat, local : Ledger,
   rev : Nat, grant : Grant, failed : BOOLEAN, next : Grant, payload : Document, attempt : {0, 1}]
Message ==
  [payload : Document, attempt : {0, 1}, stage : {"sent", "read", "yes", "no"},
   seen : (Scans \cup {"nobody"}) \X Ledger]

(* Every variable keeps its shape: no counter and no grant goes below      *)
(* zero, which would be an allowance out of nothing.                       *)
TypeOK ==
  /\ now \in 0 .. MaxTime
  /\ doc \in Document
  /\ scan \in [Scans -> Scan]
  /\ flight \subseteq Message
  /\ cache \in Ledger
  /\ spent \in Ledger

Left(grant, m) == IF grant.month = m THEN grant.left ELSE 0

(* Write-ahead: what was spent, and what an active grant may still spend,  *)
(* is in the durable ledger, whatever was lost, repeated or late.          *)
Ledgered ==
  \A m \in Months, w \in Scans :
    spent[m] + Left(scan[w].grant, m) <= doc.used[m]

(* No month is overspent, over all the scans of the month.                 *)
WithinLimit == \A m \in Months : spent[m] <= Limit

(* The durable counters never go back: no write that is late or that read  *)
(* an older ledger gives units back.                                       *)
NeverRefunded == [][\A m \in Months : doc.used[m] <= doc'.used[m]]_doc
=============================================================================
