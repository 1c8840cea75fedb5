----------------------------- MODULE MarketOutcomes -----------------------------
(***************************************************************************)
(* What the price of a caught token did afterwards (src/scanner.py         *)
(* record_market_observations, update_signal_outcomes) and the states it   *)
(* is carried in: those of the deep scan and of the discovery pulse, and   *)
(* the remote row that both write and read back when a checkpoint is       *)
(* missing (load_remote_discovery_state, sync_remote_discovery_state).     *)
(*                                                                         *)
(* One token.  A price is abstracted to the time of its quote, and the     *)
(* extremes to the quotes they were taken over.  Runs hold one lock: a run *)
(* is a step that makes the writes it came to before it died, and the next *)
(* one comes a unit of time later.  Every catch has a price; nothing is    *)
(* retired, and no outcome is old enough to be pruned.                     *)
(***************************************************************************)
EXTENDS Naturals, FiniteSetsExt

CONSTANTS Horizons, Delay,     \* when a price is due, how late it still counts
          Ahead,               \* how far a provider's clock may be ahead
          MaxTime, MaxAlerts   \* bounds

VARIABLES deep,     \* the state that deep scans save
          pulse,    \* the state that discovery pulses save
          remote,   \* the remote row, and when it was written
          history,  \* the alerts kept
          now

vars == <<deep, pulse, remote, history, now>>

Times == 0..MaxTime
Quotes == 0..(MaxTime + Ahead)
NoEntry == [at |-> 0, stale |-> FALSE]
NoEnd == [at |-> 0, quality |-> "none", over |-> {}]
Caught(at) ==
    [at |-> at, updated |-> 0, shown |-> {}, ends |-> [h \in Horizons |-> NoEnd]]
NoOutcome == Caught(0)

Entry == [at : Quotes, stale : BOOLEAN]
End == [at : Times, quality : {"none", "complete", "delayed"}, over : SUBSET Times]
Outcome == [at : Times, updated : Times, shown : SUBSET Times, ends : [Horizons -> End]]

TypeOK ==
    /\ deep \in [entry : Entry, out : Outcome]
    /\ pulse \in [entry : Entry, out : Outcome]
    /\ remote \in [entry : Entry, out : Outcome, updated : Times]
    /\ history \subseteq Times
    /\ now \in Times

Init ==
    /\ deep = [entry |-> NoEntry, out |-> NoOutcome] /\ pulse = deep
    /\ remote = [entry |-> NoEntry, out |-> NoOutcome, updated |-> 0]
    /\ history = {} /\ now = 1

-----------------------------------------------------------------------------
\* record_market_observations: a quote older than the last one is passed over,
\* one too far in the future is stale.
Observed(e, q) ==
    IF q.at = 0 \/ q.at < e.at THEN e ELSE [at |-> q.at, stale |-> q.stale \/ q.at > now + Ahead]

\* refresh_caught_market_observations, refresh_recapture_market: a token that the
\* market no longer lists keeps its quote as a stale one.
Missed(e) == [e EXCEPT !.stale = TRUE]

\* outcome_market_snapshot: a quote that may be used.
Usable(e) == e.at > 0 /\ ~e.stale /\ e.at <= now

\* The earliest alert is the catch, in whatever order they are looked at; an
\* earlier one than the outcome knows starts it anew.
Recaught(o, alerts) ==
    IF alerts = {} \/ (o.at > 0 /\ o.at <= Min(alerts)) THEN o ELSE Caught(Min(alerts))

\* Each horizon is frozen at the first price shown after it is due.
Measured(o, e) ==
    IF o.at = 0 \/ ~Usable(e) \/ e.at < o.at THEN o
    ELSE LET shown == o.shown \cup {e.at} IN
         [o EXCEPT !.updated = now, !.shown = shown,
                   !.ends = [h \in Horizons |->
                      LET due == o.at + h IN
                      IF o.ends[h] # NoEnd \/ e.at < due THEN o.ends[h]
                      ELSE [at |-> e.at, over |-> shown,
                            quality |-> IF e.at - due <= Delay THEN "complete" ELSE "delayed"]]]

\* update_signal_outcomes: the alerts, then the price.
Updated(o, alerts, e) == Measured(Recaught(o, alerts), e)

\* What the summary counts.
Counted(o, h) == o.at > 0 /\ o.ends[h].quality = "complete" /\ o.ends[h].at - (o.at + h) <= Delay

-----------------------------------------------------------------------------
\* merge_discovery_state: the pulse's entry if it is newer.
Merged(s, p) == IF p.entry.at > s.entry.at THEN [s EXCEPT !.entry = p.entry] ELSE s

\* Mutant: an outcome is taken from the row whenever it has one.
LoadedAny(s) ==
    [entry |-> IF remote.entry.at > s.entry.at THEN remote.entry ELSE s.entry,
     out |-> IF remote.out.at > 0 THEN remote.out ELSE s.out]

\* load_remote_discovery_state: what is newer in the row.
Loaded(s) ==
    [entry |-> IF remote.entry.at > s.entry.at THEN remote.entry ELSE s.entry,
     out |-> IF remote.out.updated > s.out.updated THEN remote.out ELSE s.out]

\* ingestDiscoveryState: an older writer changes nothing, and what a row lacks is
\* kept.
Ingested(s) ==
    IF now < remote.updated THEN remote
    ELSE [entry |-> IF s.entry = NoEntry THEN remote.entry ELSE s.entry,
          out |-> IF s.out.at = 0 THEN remote.out ELSE s.out, updated |-> now]

\* sync_remote_discovery_state: the row goes out if it is due or active, and if the
\* request succeeds.
Posted(s, synced) == IF synced THEN Ingested(s) ELSE remote

\* What the market answers: nothing, a quote, or a quote known to be stale.
Answers == {[at |-> 0, stale |-> FALSE]} \cup
           {[at |-> t, stale |-> b] : t \in (IF now > 1 THEN now - 1 ELSE 1)..(now + Ahead), b \in BOOLEAN}

\* A deep scan: found is what it alerts on; it may die before it saves its state
\* or its alerts, of which only some are kept.
Deep(recovered, quote, missed, found, synced, saved) ==
    LET merged == Merged(deep, pulse)
        start == IF recovered THEN merged ELSE Loaded(merged)
        seen == Observed(start.entry, quote)
        entry == IF missed THEN Missed(seen) ELSE seen
        result == [entry |-> entry, out |-> Updated(start.out, history \cup found, entry)]
    IN  /\ missed => quote.at = 0
        /\ remote' = Posted(result, synced)
        /\ deep' = IF saved THEN result ELSE deep
        /\ \E kept \in SUBSET (history \cup found) : history' = IF saved THEN kept ELSE history
        /\ UNCHANGED pulse

\* A discovery pulse; without its file it starts from the deep scan's state.
Pulse(recovered, present, quote, synced, saved) ==
    LET file == IF present THEN pulse ELSE [entry |-> deep.entry, out |-> NoOutcome]
        start == IF recovered THEN file ELSE Loaded(file)
        result == [start EXCEPT !.entry = Observed(@, quote)]
    IN  /\ remote' = Posted(result, synced)
        /\ pulse' = IF saved THEN result ELSE pulse
        /\ UNCHANGED <<deep, history>>

\* An alert is caught by the quote of its scan, or at the window it is about.
Alerts == {{}} \cup {{t} : t \in 1..now}

Next ==
    /\ now < MaxTime /\ now' = now + 1
    /\ \E recovered, missed, synced, saved, present \in BOOLEAN, quote \in Answers :
         \/ \E found \in Alerts :
              /\ present /\ Cardinality(history \cup found) <= MaxAlerts
              /\ Deep(recovered, quote, missed, found, synced, saved)
         \/ ~missed /\ Pulse(recovered, present, quote, synced, saved)

Spec == Init /\ [][Next]_vars

-----------------------------------------------------------------------------
\* A measurement is never lost, and never taken again at a later time, whatever
\* states the runs start from and wherever they die: a horizon that a saved
\* outcome counts keeps its price until the token turns out to have been caught
\* earlier; and what it then counts is the first price shown to the outcome
\* after the horizon was due, with the extremes of the prices up to it
\* (update_signal_outcomes, load_remote_discovery_state).
MeasuredIsKept ==
    \A h \in Horizons :
      LET o == deep.out  p == deep'.out  e == p.ends[h]  due == p.at + h IN
      /\ Counted(o, h) => e = o.ends[h] \/ p.at < o.at
      /\ Counted(p, h) =>
           /\ due <= e.at /\ e.at <= due + Delay /\ e.at \in e.over
           /\ \A q \in e.over \ {e.at} : p.at <= q /\ q < due

MeasuredStaysKept == [][MeasuredIsKept]_vars
=================================================================================
