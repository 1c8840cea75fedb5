------------------------------ MODULE SignalThesis ------------------------------
(***************************************************************************)
(* The thesis the scanner keeps of a pool: the wallets of a signal and     *)
(* what they still hold of it (src/scanner.py capture_signal_thesis,       *)
(* record_thesis_sales, recheck_signal_thesis, refresh_signal_thesis,      *)
(* bootstrap_signal_theses, monitor_due_cohorts).                          *)
(*                                                                         *)
(* Each step is a pass over the pool at a later time.  A pass captures     *)
(* alerts, counts the sales it observed and may read wallets' balances, as *)
(* many as its budget and the RPC allow; what a read returns is arbitrary. *)
(* Every wallet bought Bought tokens.                                      *)
(***************************************************************************)
EXTENDS Naturals, FiniteSets, FiniteSetsExt, Functions

CONSTANTS Owners, Bought,
          Season,              \* time after the signal before retention counts
          MaxAge,              \* age at which a cycle of balance checks restarts
          Sigs, SellerOf,      \* transactions of sales, and whose they are
          Amounts, Reads,      \* what a sale may be known to have sold, and a read return
          Kinds,               \* alerts: of a wave or of classified wallets, how confirmed, and
                               \* what each wallet still held
          MaxTime, MaxAlerts   \* bounds

VARIABLES thesis,    \* the pool's thesis, or None
          pending,   \* a newer thesis waiting behind it, or None
          alerts,    \* the pool's alerts so far
          pass,      \* a pass that has captured and must still check balances
          now,
          low,       \* least balance read of each wallet since the signal
          readAt,    \* time of the last read of each wallet
          told       \* largest amount of each sale reported since the signal

vars == <<thesis, pending, alerts, pass, now, low, readAt, told>>
truth == <<low, readAt, told>>

Times == 0..MaxTime
None == [at |-> 0]
NoCycle == [at |-> 0, done |-> {}]

Alert == [at : 1..MaxTime, kind : Kinds]
Thesis == [at : 1..MaxTime, wave : BOOLEAN, conf : {"confirmed", "unseasoned", "other"},
           eligible : 0..(MaxTime + Season), known : BOOLEAN,
           status : {"intact", "weakening", "unknown", "invalidated"},
           cohort : SUBSET Owners,
           cap : [Owners -> 0..Bought], checked : [Owners -> Times],
           sold : [Owners -> 0..Bought], seen : [Sigs -> 0..Bought],
           cycle : [at : Times, done : SUBSET Owners]]

TypeOK ==
    /\ thesis \in Thesis \cup {None} /\ pending \in Thesis \cup {None}
    /\ alerts \subseteq Alert
    /\ pass \in {"idle", "must", "may"}
    /\ now \in Times
    /\ low \in [Owners -> 0..Bought] /\ readAt \in [Owners -> Times] /\ told \in [Sigs -> 0..Bought]

-----------------------------------------------------------------------------
Share(part, whole, pct) == 100 * part >= pct * whole

\* mark_thesis_sale_history_unknown
Unknown(t) ==
    [t EXCEPT !.known = FALSE,
              !.conf = IF t.conf = "confirmed" THEN "other" ELSE t.conf,
              !.status = IF t.status = "intact" THEN "unknown" ELSE t.status]

\* A wave's balances were verified with the signal; classified wallets' were not.
Fresh(a) ==
    [at |-> a.at, wave |-> a.kind.wave, conf |-> a.kind.conf,
     eligible |-> IF a.kind.conf = "unseasoned" THEN a.at + Season ELSE 0,
     known |-> TRUE,
     status |-> IF ~a.kind.wave THEN "unknown" ELSE IF Share(a.kind.kept, Bought, 60) THEN "intact" ELSE "weakening",
     cohort |-> Owners,
     cap |-> [o \in Owners |-> IF a.kind.wave THEN a.kind.kept ELSE Bought],
     checked |-> [o \in Owners |-> IF a.kind.wave THEN a.at ELSE 0],
     sold |-> [o \in Owners |-> 0], seen |-> [s \in Sigs |-> 0],
     cycle |-> NoCycle]

\* An alert captured long after it was raised: sales in between are not known.
Incoming(a) == IF now = a.at THEN Fresh(a) ELSE Unknown(Fresh(a))

Latest(C) == CHOOSE c \in C : \A d \in C : d.at <= c.at
Earliest(C) == CHOOSE c \in C : \A d \in C : c.at <= d.at
Preferred(C) ==
    LET confirmed == {c \in C : c.conf = "confirmed"}
        waves == {c \in C : c.wave}
    IN  IF confirmed # {} THEN confirmed ELSE IF waves # {} THEN waves ELSE C

\* recover_original_cohort: the wallets a former version left out come back with
\* the alert itself, to be checked afresh; those it had keep their caps.
Recovered(t, A) ==
    IF \E a \in A : a.at = t.at /\ t.cohort # Owners
    THEN Unknown([t EXCEPT !.cohort = Owners, !.status = "unknown", !.cycle = NoCycle])
    ELSE t

\* Whether an incoming thesis takes the place of the one the pool has.
Replaces(new, old) ==
    \/ old.status = "invalidated" /\ new.at > old.at
    \/ /\ old.conf # "confirmed" /\ old.known
       /\ new.conf = "confirmed" \/ (new.wave /\ ~old.wave)

\* capture_signal_thesis: the thesis and the pending one after the alerts A.
\* (A closed thesis of a former version has none pending.)
Captured(A) ==
    LET C == {Incoming(a) : a \in A}
        old == IF thesis = None THEN None ELSE Recovered(thesis, A)
        new == IF old = None THEN Earliest(Preferred(C)) ELSE Latest(Preferred(C))
    IN  IF A = {} THEN <<old, pending>>
        ELSE IF old = None THEN <<new, IF Latest(C).at > new.at THEN Latest(C) ELSE None>>
        ELSE IF Replaces(new, old) THEN <<new, None>>
        ELSE <<old, IF new.at > old.at /\ new.at > pending.at THEN new ELSE pending>>

-----------------------------------------------------------------------------
\* Mutant: a sale reported again is counted again.
SoldTwice(t, s, amount) ==
    LET o == SellerOf[s]
        sold == Min({Bought, t.sold[o] + amount})
    IN  [t EXCEPT !.seen[s] = amount, !.sold[o] = sold, !.cap[o] = Min({@, Bought - sold}),
                  !.cycle = NoCycle]

\* Mutant: balances read before the sale still count in the cycle.
SoldInCycle(t, s, amount) ==
    LET o == SellerOf[s]
        more == IF amount > t.seen[s] THEN amount - t.seen[s] ELSE 0
        sold == Min({Bought, t.sold[o] + more})
    IN  IF o \notin t.cohort \/ more = 0 \/ t.sold[o] >= Bought THEN t
        ELSE [t EXCEPT !.seen[s] = amount, !.sold[o] = sold, !.cap[o] = Min({@, Bought - sold})]

\* record_thesis_sales: what a transaction is now known to have sold beyond what
\* it was known to; the balance checks start over.
Sold(t, s, amount) ==
    LET o == SellerOf[s]
        more == IF amount > t.seen[s] THEN amount - t.seen[s] ELSE 0
        sold == Min({Bought, t.sold[o] + more})
    IN  IF o \notin t.cohort \/ more = 0 \/ t.sold[o] >= Bought THEN t
        ELSE [t EXCEPT !.seen = [t.seen EXCEPT ![s] = amount], !.sold = [t.sold EXCEPT ![o] = sold],
                       !.cap = [t.cap EXCEPT ![o] = Min({t.cap[o], Bought - sold})], !.cycle = NoCycle]

\* The owners whose check still counts: none in an old cycle, and none read
\* before retention counts once it does.
StillDone(t) ==
    IF t.cycle.at = 0 \/ now - t.cycle.at > MaxAge THEN {}
    ELSE IF t.conf # "confirmed" /\ t.eligible > 0 /\ now >= t.eligible
    THEN {o \in t.cycle.done : t.checked[o] >= t.eligible}
    ELSE t.cycle.done

\* The balances read: a token that is bought back restores nothing.
Read(t, read) ==
    [t EXCEPT !.cap = [o \in Owners |-> IF o \in DOMAIN read
                                       THEN Min({read[o], Bought - t.sold[o], t.cap[o]}) ELSE t.cap[o]],
              !.checked = [o \in Owners |-> IF o \in DOMAIN read THEN now ELSE t.checked[o]]]

\* A whole cohort is judged by what is left of it; a candidate that only had to
\* season is confirmed.
Judged(t) ==
    LET n == Cardinality(t.cohort)
        kept == SumFunctionOnSet(t.cap, t.cohort)
        holders == Cardinality({o \in t.cohort : Share(t.cap[o], Bought, 10)})
        whole == Share(n, Cardinality(Owners), 70)
        status == IF Share(kept, n * Bought, 60) /\ Share(holders, n, 50)
                  THEN IF t.known THEN "intact" ELSE "unknown"
                  ELSE IF whole THEN "weakening" ELSE "unknown"
        confirm == /\ t.conf = "unseasoned" /\ now >= t.eligible
                   /\ status = "intact" /\ whole
                   /\ Share(kept, n * Bought, 80) /\ Share(holders, n, 65)
                   /\ \A o \in t.cohort : t.checked[o] >= t.eligible
    IN  [t EXCEPT !.status = status, !.cycle = NoCycle, !.conf = IF confirm THEN "confirmed" ELSE t.conf]

\* recheck_signal_thesis: only a cycle that has read every wallet judges.
Rechecked(t, read) ==
    LET done == StillDone(t) \cup DOMAIN read
        start == IF t.cycle.at = 0 \/ now - t.cycle.at > MaxAge THEN now ELSE t.cycle.at
        u == Read(t, read)
    IN  IF done = t.cohort THEN Judged(u)
        ELSE [u EXCEPT !.status = "unknown", !.cycle = [at |-> start, done |-> done]]

-----------------------------------------------------------------------------
\* Nothing yet, or a thesis of a former version: some wallets only, its sales
\* unknown, perhaps closed.
Init ==
    /\ now = 1 /\ pass = "idle" /\ pending = None
    /\ \/ thesis = None /\ alerts = {}
       \/ \E kind \in Kinds, some \in SUBSET Owners \ {{}}, status \in {"unknown", "invalidated"} :
            LET a == [at |-> 1, kind |-> kind]
            IN  /\ kind.wave /\ alerts = {a}
                /\ thesis = [Unknown(Fresh(a)) EXCEPT !.cohort = some, !.status = status]
    /\ low = IF thesis = None THEN [o \in Owners |-> Bought] ELSE thesis.cap
    /\ readAt = [o \in Owners |-> IF thesis = None THEN 0 ELSE 1]
    /\ told = [s \in Sigs |-> 0]

Same(t) == thesis # None /\ t.at = thesis.at

\* A scan of the pool may raise an alert, leave a gap in the history it read,
\* and resolve a sale (refresh_signal_thesis, first part).
Scan ==
    /\ pass = "idle"
    /\ \E A \in {{}} \cup {{a} : a \in {x \in Alert : x.at = now}}, gap \in BOOLEAN,
          sales \in {<<>>} \cup (Sigs \X Amounts) :
         /\ A # {} => Cardinality(alerts) < MaxAlerts /\ \A a \in alerts : a.at < now
         /\ alerts' = alerts \cup A
         /\ Captured(A)[1] # None
         /\ LET c == Captured(A)
                t == IF gap THEN Unknown(c[1]) ELSE c[1]
                u == IF sales = <<>> THEN t ELSE Sold(t, sales[1], sales[2])
                news == {s \in Sigs : sales # <<>> /\ s = sales[1] /\ SellerOf[s] \in t.cohort}
                sellers == {SellerOf[s] : s \in news}
                was == IF Same(t) THEN <<low, readAt, told>>
                       ELSE <<[o \in Owners |-> t.cap[o]], t.checked, [s \in Sigs |-> 0]>>
            IN  /\ thesis' = u /\ pending' = c[2]
                /\ low' = was[1]
                /\ readAt' = [o \in Owners |-> IF o \in sellers /\ u # t THEN 0 ELSE was[2][o]]
                /\ told' = [s \in Sigs |-> IF s \in news THEN Max({was[3][s], sales[2]}) ELSE was[3][s]]
                /\ pass' = IF A # {} \/ u # t \/ ~Same(t) \/ t.cohort # thesis.cohort
                              \/ (t.cycle.at = 0 /\ \A o \in Owners : t.checked[o] = 0)
                           THEN "must" ELSE "may"
    /\ UNCHANGED now

\* A start captures the stored alerts anew (bootstrap_signal_theses).
Bootstrap ==
    /\ pass = "idle" /\ alerts # {}
    /\ LET c == Captured(alerts)
       IN  /\ thesis' = c[1] /\ pending' = c[2]
           /\ IF Same(c[1]) THEN UNCHANGED truth
              ELSE /\ low' = [o \in Owners |-> c[1].cap[o]]
                   /\ readAt' = c[1].checked /\ told' = [s \in Sigs |-> 0]
    /\ UNCHANGED <<alerts, pass, now>>

\* Balances are checked: after a scan, or of a thesis that is due, of as many
\* wallets as the budget allows and the RPC answers for.
Recheck ==
    /\ thesis # None
    /\ pass' = "idle"
    /\ IF thesis.status = "invalidated" THEN UNCHANGED <<thesis, low, readAt>>
       ELSE \E ok \in SUBSET (thesis.cohort \ StillDone(thesis)) : \E read \in [ok -> Reads] :
              /\ thesis' = Rechecked(thesis, read)
              /\ low' = [o \in Owners |-> IF o \in ok THEN Min({low[o], read[o]}) ELSE low[o]]
              /\ readAt' = [o \in Owners |-> IF o \in ok THEN now ELSE readAt[o]]
    /\ UNCHANGED <<pending, alerts, now, told>>

\* Nothing made the check necessary and none was due.
Skip == pass = "may" /\ pass' = "idle" /\ UNCHANGED <<thesis, pending, alerts, now, truth>>

Wait == pass = "idle" /\ now < MaxTime /\ now' = now + 1 /\ UNCHANGED <<thesis, pending, alerts, pass, truth>>

Next == Scan \/ Bootstrap \/ Recheck \/ Skip \/ Wait

Spec == Init /\ [][Next]_vars

-----------------------------------------------------------------------------
\* The tokens that a wallet's sales are known to have sold, each named by its
\* sale and a number.
Reported(o) ==
    Cardinality(UNION {{s} \X (1..told[s]) : s \in {s \in Sigs : SellerOf[s] = o}})

\* What a wallet is credited with is exactly the least balance ever read of it
\* since the signal, or what its reported sales leave if that is less: a buy
\* restores nothing, and a sale that several passes report is counted once
\* (record_thesis_sales, recheck_signal_thesis).
CapIsExact ==
    thesis # None =>
      \A o \in thesis.cohort :
        thesis.cap[o] =
            Min({low[o], IF Reported(o) > Bought THEN 0 ELSE Bought - Reported(o)})

Confirms ==
    /\ thesis # None /\ thesis'.at = thesis.at
    /\ thesis.conf # "confirmed" /\ thesis'.conf = "confirmed"
OnlyByReads ==
    Confirms => /\ thesis'.known
                /\ \A o \in thesis'.cohort :
                     /\ readAt'[o] >= thesis'.at + Season
                     /\ now - readAt'[o] <= MaxAge

\* A candidate is only confirmed by reads of every wallet in one cycle, all of
\* them made when retention counts and after the wallet's last reported sale,
\* with nothing missing in the history of its sales.
ConfirmedByReads == [][OnlyByReads]_vars
===============================================================================
