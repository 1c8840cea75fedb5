-------------------------------- MODULE RunGrant --------------------------------
(***************************************************************************)
(* The paid requests of the Robinhood scan (src/robinhood.py               *)
(* scan_with_shared_ledger, Rpc.call, Rpc.request; src/rpc_budget.py       *)
(* allocate_run_budget, PreallocatedRpcBudget).                            *)
(*                                                                         *)
(* The scan charges one grant to the ledger it shares with the Solana      *)
(* scans, which spend from grants of their own, and spends it locally: a   *)
(* request tries its endpoints in turn, each a few times, may wait for the *)
(* limiter, and is paid when it is sent.  Runs follow one another.         *)
(***************************************************************************)
EXTENDS Integers, FiniteSets, FiniteSetsExt

CONSTANTS Limit,      \* units of a month
          Ceiling,    \* units of a run
          Costs,      \* units of a request; probing the chain costs none
          Tries,      \* attempts at one endpoint
          Budget,     \* requests of a run
          MaxMonth, MaxRuns    \* bounds

VARIABLES month,
          doc,       \* the durable ledger: units charged in each month
          ckpt,      \* the ledger in the checkpoint of the Solana scan
          run,       \* the Robinhood run
          call,      \* its request under way
          sent,      \* units really sent to the provider in each month
          others,    \* units of the Solana scans' grants
          runs

vars == <<month, doc, ckpt, run, call, sent, others, runs>>

Endpoints == {"paid", "free"}
Months == 0..MaxMonth
Nothing == [m \in Months |-> 0]
Units == 0..(Limit + Ceiling)
NoGrant == [month |-> 0, left |-> 0, on |-> FALSE]
NoCall == [routes |-> {}, first |-> "paid", cost |-> 0, probe |-> FALSE, tries |-> 0,
           waiting |-> FALSE]
Idle == [phase |-> "idle", local |-> Nothing, grant |-> NoGrant, calls |-> 0,
         verified |-> {}, dropped |-> {}]

TypeOK ==
    /\ month \in Months /\ runs \in 0..MaxRuns
    /\ {doc, ckpt, sent, others} \subseteq [Months -> Units]
    /\ run.phase \in {"idle", "open", "charged", "saved", "ready"}
    /\ run.local \in [Months -> Units] /\ run.calls \in 0..Budget
    /\ run.grant \in [month : Months, left : 0..Ceiling, on : BOOLEAN]
    /\ run.verified \subseteq Endpoints /\ run.dropped \subseteq Endpoints
    /\ call.routes \subseteq Endpoints /\ call.cost \in Costs \cup {0} /\ call.tries \in 0..Tries

Init ==
    /\ month = 0 /\ doc = Nothing /\ ckpt = Nothing /\ run = Idle /\ call = NoCall
    /\ sent = Nothing /\ others = Nothing /\ runs = 0

-----------------------------------------------------------------------------
NextMonth ==
    /\ month < MaxMonth /\ month' = month + 1
    /\ UNCHANGED <<doc, ckpt, run, call, sent, others, runs>>

Merged(a, b) == [m \in Months |-> Max({a[m], b[m]})]

\* A Solana scan is granted units and spends some; its checkpoint may not be saved.
OtherScan(units, saves) ==
    /\ run.phase = "idle" /\ runs < MaxRuns /\ runs' = runs + 1
    /\ LET local == [Merged(ckpt, doc) EXCEPT ![month] = @ + units]
       IN /\ local[month] <= Limit
          /\ doc' = local /\ ckpt' = IF saves THEN local ELSE ckpt
    /\ others' = [others EXCEPT ![month] = @ + units]
    /\ UNCHANGED <<month, run, call, sent>>

-----------------------------------------------------------------------------
\* The run restores the checkpoint and the durable ledger; without either it pays
\* nothing.
Start(restored) ==
    /\ run.phase = "idle" /\ runs < MaxRuns /\ runs' = runs + 1
    /\ run' = IF restored THEN [Idle EXCEPT !.phase = "open", !.local = Merged(ckpt, doc)]
                          ELSE [Idle EXCEPT !.phase = "ready"]
    /\ UNCHANGED <<month, doc, ckpt, call, sent, others>>

\* Its grant is charged to the local ledger.
Allocate ==
    /\ run.phase = "open"
    /\ LET amount == Min({Ceiling, Max({0, Limit - run.local[month]})})
       IN run' = [run EXCEPT !.phase = "charged", !.local[month] = @ + amount,
                             !.grant = [month |-> month, left |-> amount, on |-> FALSE]]
    /\ UNCHANGED <<month, doc, ckpt, call, sent, others, runs>>

\* The checkpoint is saved; if that is not acknowledged, saved or not, nothing is paid.
SaveCharge(stored, acknowledged) ==
    /\ run.phase = "charged" /\ (acknowledged => stored)
    /\ ckpt' = IF stored THEN run.local ELSE ckpt
    /\ run' = [run EXCEPT !.phase = IF acknowledged THEN "saved" ELSE "ready"]
    /\ UNCHANGED <<month, doc, call, sent, others, runs>>

\* The durable ledger is written, and the grant handed out if that is acknowledged.
Commit(stored, acknowledged) ==
    /\ run.phase = "saved" /\ (acknowledged => stored)
    /\ doc' = IF stored THEN run.local ELSE doc
    /\ run' = [run EXCEPT !.phase = "ready", !.grant.on = acknowledged]
    /\ UNCHANGED <<month, ckpt, call, sent, others, runs>>

\* The run ends and saves its ledger, or it dies.
Finish(saves) ==
    /\ run.phase = "ready" /\ call = NoCall
    /\ ckpt' = IF saves THEN Merged(ckpt, run.local) ELSE ckpt
    /\ run' = Idle
    /\ UNCHANGED <<month, doc, call, sent, others, runs>>

Crash ==
    /\ run.phase # "idle"
    /\ run' = Idle /\ call' = NoCall
    /\ UNCHANGED <<month, doc, ckpt, sent, others, runs>>

-----------------------------------------------------------------------------
\* As Allows, for a grant of any month.
AllowsAnyMonth(cost) == run.grant.on /\ cost <= run.grant.left

\* A grant pays in its own month only, probes included.
Allows(cost) == run.grant.on /\ run.grant.month = month /\ cost <= run.grant.left

\* The endpoint in turn: the preferred one as long as it is to be tried.
Endpoint(c) == IF c.first \in c.routes THEN c.first ELSE CHOOSE e \in c.routes : TRUE

\* What an attempt costs there.
Price(c) == IF c.probe \/ Endpoint(c) = "free" THEN 0 ELSE c.cost

\* An endpoint not yet known to serve this chain is probed first.
Turn(c) == IF c.routes = {} THEN NoCall
           ELSE [c EXCEPT !.probe = Endpoint(c) \notin run.verified,
                          !.tries = 0, !.waiting = FALSE]
NextRoute(c) == Turn([c EXCEPT !.routes = @ \ {Endpoint(c)}])

\* A request may use the endpoints not dropped, the preferred one first.
Call(cost, first) ==
    /\ run.phase = "ready" /\ call = NoCall /\ run.calls < Budget
    /\ call' = Turn([NoCall EXCEPT !.cost = cost, !.first = first, !.routes = Endpoints \ run.dropped])
    /\ UNCHANGED <<month, doc, ckpt, run, sent, others, runs>>

\* The endpoint is not tried again: the grant does not pay for it, the run is out of
\* requests or of time.
GiveUp ==
    /\ call # NoCall
    /\ call' = NextRoute(call)
    /\ UNCHANGED <<month, doc, ckpt, run, sent, others, runs>>

\* The attempt waits for the provider's limiter.
Acquire ==
    /\ call # NoCall /\ ~call.waiting /\ run.calls < Budget
    /\ Endpoint(call) = "paid" => Allows(call.cost) /\ Allows(Price(call))
    /\ call' = [call EXCEPT !.waiting = TRUE]
    /\ UNCHANGED <<month, doc, ckpt, run, sent, others, runs>>

\* The attempt is paid and sent; the wait may have crossed into the next month.
Sent ==
    /\ call # NoCall /\ call.waiting
    /\ Endpoint(call) = "paid" => Allows(Price(call))
    /\ sent' = [sent EXCEPT ![month] = @ + Price(call)]
    /\ UNCHANGED <<month, doc, ckpt, others, runs>>
Paid == [run EXCEPT !.calls = @ + 1, !.grant.left = @ - Price(call)]

Answered ==
    /\ Sent
    /\ run' = [Paid EXCEPT !.verified = @ \cup {Endpoint(call)}]
    /\ call' = IF call.probe THEN [call EXCEPT !.probe = FALSE, !.tries = 0, !.waiting = FALSE]
                             ELSE NoCall

\* The endpoint is busy: the attempt is repeated and paid again.
Busy ==
    /\ Sent /\ call.tries + 1 < Tries
    /\ run' = Paid
    /\ call' = [call EXCEPT !.tries = @ + 1, !.waiting = FALSE]

\* The endpoint refuses, for this request or, on the wrong chain, for the run.
Refused(forever) ==
    /\ Sent
    /\ run' = [Paid EXCEPT !.dropped = IF forever THEN @ \cup {Endpoint(call)} ELSE @]
    /\ call' = NextRoute(call)

Next ==
    \/ NextMonth
    \/ \E units \in 1..Ceiling, saves \in BOOLEAN : OtherScan(units, saves)
    \/ \E restored \in BOOLEAN : Start(restored)
    \/ Allocate
    \/ \E stored, acknowledged \in BOOLEAN : SaveCharge(stored, acknowledged)
    \/ \E stored, acknowledged \in BOOLEAN : Commit(stored, acknowledged)
    \/ \E saves \in BOOLEAN : Finish(saves)
    \/ Crash
    \/ \E cost \in Costs, first \in Endpoints : Call(cost, first)
    \/ GiveUp \/ Acquire \/ Answered \/ Busy
    \/ \E forever \in BOOLEAN : Refused(forever)

Spec == Init /\ [][Next]_vars

-----------------------------------------------------------------------------
\* Every unit that was sent in a month is covered by what the durable ledger had been
\* charged for that month, beside the grants of the other scans, and the ledger stays
\* within the month's limit (scan_with_shared_ledger: "Persist a bounded run grant
\* before paid requests so process termination cannot lose consumption").
PaidIsCharged ==
    \A m \in Months : sent[m] + others[m] <= doc[m] /\ doc[m] <= Limit
=================================================================================
