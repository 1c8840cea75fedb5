---------------------------- MODULE SignalEvaluation ----------------------------
(***************************************************************************)
(* The prospective evaluation of the signals                               *)
(* (src/prospective_evidence.py capture_evaluation_rows,                   *)
(* src/signal_evaluation.py evaluate_signals).                             *)
(*                                                                         *)
(* A run freezes a row for each alerted token and for some that it scanned *)
(* without an alert, the controls.  Later runs fill in the price at each   *)
(* horizon from a market snapshot or, when its window has closed, from a   *)
(* candle.  Signals are matched with controls, and the pairs are split in  *)
(* training and holdout by a cutoff that moves on with the signals.        *)
(*                                                                         *)
(* A price is abstracted to the time it was observed at.  All rows are of  *)
(* one version and family, and close enough to be matched; a candle lasts  *)
(* one unit of time.                                                       *)
(***************************************************************************)
EXTENDS Naturals, FiniteSets, FiniteSetsExt, Sequences, SequencesExt

CONSTANTS Tokens,              \* numbers: ties are broken by them
          Horizons, Delay,     \* when an outcome is due, how late it may be
          Gap,                 \* time between a signal and its control
          Attempts, Calls,     \* tries of one candle, requests of one run
          Controls,            \* controls of one run
          MaxRows,             \* rows that a cohort keeps
          MaxTime              \* bound

VARIABLES rows,     \* the dataset
          run,      \* the run under way: the next token, and what it may still ask and capture
          first,    \* the first observation of each token
          dropped,  \* the tokens that lost a row to the capacity
          now

vars == <<rows, run, first, dropped, now>>

Times == 0..MaxTime
Groups == {"signal", "control"}
NoEnd == [at |-> 0, quality |-> "none"]
NoRow == [at |-> 0, ends |-> [h \in Horizons |-> NoEnd], tries |-> [h \in Horizons |-> 0]]
Row == [at : Times, tries : [Horizons -> 0..Attempts],
        ends : [Horizons -> [at : Times, quality : {"none", "complete", "delayed"}]]]

Idle == [next |-> 0, mode |-> "deep", calls |-> 0, controls |-> 0]
NoAsk == <<>>

TypeOK ==
    /\ run \in [next : {0} \cup Tokens, mode : {"targeted", "deep", "candles"}, calls : 0..Calls, controls : 0..Controls]
    /\ rows \in [Groups -> [Tokens -> Row]]
    /\ first \in [Tokens -> [group : Groups \cup {"none"}, at : Times]]
    /\ dropped \subseteq Tokens
    /\ now \in Times

Init ==
    /\ rows = [g \in Groups |-> [t \in Tokens |-> NoRow]]
    /\ first = [t \in Tokens |-> [group |-> "none", at |-> 0]]
    /\ dropped = {} /\ now = 0 /\ run = Idle

-----------------------------------------------------------------------------
\* A snapshot's time, 0 if there is none to use: a capture needs a recent one.
Recent(s) == s > 0 /\ now - s <= Delay

OnTime(s, due) == due <= s /\ s <= due + Delay

\* A snapshot on time completes a horizon; once its window has closed a candle
\* is awaited, or a later snapshot taken as delayed.
Filled(r, s, kline) ==
    [r EXCEPT !.ends = [h \in Horizons |->
       LET due == r.at + h IN
       IF r.at = 0 \/ now < due \/ r.ends[h] # NoEnd THEN r.ends[h]
       ELSE IF OnTime(s, due) THEN [at |-> s, quality |-> "complete"]
       ELSE IF now <= due + Delay \/ (kline /\ r.tries[h] < Attempts) \/ s <= due THEN NoEnd
       ELSE [at |-> s, quality |-> "delayed"]]]

\* The horizons to ask a candle for: missing ones whose window has closed, and
\* delayed ones.
Pending(new) ==
    {q \in Groups \X Horizons :
       LET r == new[q[1]]  h == q[2] IN
       /\ r.at > 0 /\ now > r.at + h + Delay
       /\ r.ends[h].quality # "complete" /\ r.tries[h] < Attempts}

\* kline_checkpoint: the candle that contains the horizon is observed at its
\* close, the first one after it at its open; without a trade on time there is
\* none.
Candles(due) ==
    {NoEnd} \cup {[at |-> c, quality |-> "complete"] : c \in {due + 1} \cup ((due + 1)..(due + Delay))}

Answered(r, h, s, candle) ==
    IF candle # NoEnd THEN [r EXCEPT !.ends[h] = candle, !.tries[h] = 0]
    ELSE [r EXCEPT !.tries[h] = Attempts,
                   !.ends[h] = IF @ = NoEnd /\ s > r.at + h THEN [at |-> s, quality |-> "delayed"] ELSE @]
Failed(r, h) == [r EXCEPT !.tries[h] = @ + 1]

\* A run takes the tokens one by one; a deep one captures controls and may ask
\* for candles.
Begin(mode) ==
    /\ run = Idle /\ now < MaxTime /\ now' = now + 1
    /\ run' = [next |-> Min(Tokens), mode |-> mode, calls |-> Calls, controls |-> Controls]
    /\ UNCHANGED <<rows, first, dropped>>

\* The rows that a cohort may keep at the end of a run: the newest ones.
Newest(cohort) ==
    LET held == {t \in Tokens : cohort[t].at > 0}
    IN  {kept \in SUBSET held :
           /\ Cardinality(kept) = Min({MaxRows, Cardinality(held)})
           /\ \A t \in kept, u \in held \ kept : cohort[t].at >= cohort[u].at}

\* A new row is frozen for an alerted token, or for one scanned without an alert
\* that was no signal before; one request that fails ends the requests of the run.
\* Behind the last token each cohort is cut to its capacity.
Take(g, snapshot, ask, error) ==
    LET t == run.next
        kline == run.mode = "candles"
        new == [o \in Groups |-> IF o = g THEN [NoRow EXCEPT !.at = now] ELSE rows[o][t]]
        filled == [o \in Groups |-> Filled(new[o], snapshot, kline)]
        Done(o, candle) ==
            IF ask = NoAsk \/ ask[1] # o THEN filled[o]
            ELSE IF error THEN Failed(filled[o], ask[2]) ELSE Answered(filled[o], ask[2], snapshot, candle)
    IN  /\ t > 0
        /\ g # "none" => rows["signal"][t].at = 0 /\ Recent(snapshot)
        /\ g = "control" => rows["control"][t].at = 0 /\ run.mode # "targeted" /\ run.controls > 0
        /\ ask # NoAsk => kline /\ run.calls > 0 /\ ask \in Pending(filled)
        /\ error => ask # NoAsk
        /\ \E candle \in IF ask = NoAsk \/ error THEN {NoEnd} ELSE Candles(filled[ask[1]].at + ask[2]) :
             LET all == [o \in Groups |-> [rows[o] EXCEPT ![t] = Done(o, candle)]]
             IN  IF t < Max(Tokens) THEN rows' = all /\ UNCHANGED dropped
                 ELSE \E s \in Newest(all["signal"]), c \in Newest(all["control"]) :
                        LET kept == [o \in Groups |-> IF o = "signal" THEN s ELSE c]
                        IN  /\ rows' = [o \in Groups |-> [u \in Tokens |->
                                          IF u \in kept[o] THEN all[o][u] ELSE NoRow]]
                            /\ dropped' = dropped \cup {u \in Tokens : \E o \in Groups :
                                                          all[o][u].at > 0 /\ u \notin kept[o]}
        /\ first' = IF g = "none" \/ first[t].group # "none" THEN first
                    ELSE [first EXCEPT ![t] = [group |-> g, at |-> now]]
        /\ run' = IF t = Max(Tokens) THEN Idle
                  ELSE [run EXCEPT !.next = Min({u \in Tokens : u > t}),
                                   !.calls = IF error THEN 0 ELSE IF ask = NoAsk THEN @ ELSE @ - 1,
                                   !.controls = IF g = "control" THEN @ - 1 ELSE @]
        /\ UNCHANGED now

Next ==
    \/ \E mode \in {"targeted", "deep", "candles"} : Begin(mode)
    \/ \E g \in Groups \cup {"none"}, snapshot \in {0} \cup {s \in 1..now : now <= s + Delay} :
         \E ask \in {NoAsk} \cup (Groups \X Horizons), error \in BOOLEAN : Take(g, snapshot, ask, error)

Spec == Init /\ [][Next]_vars

-----------------------------------------------------------------------------
\* Mutant: a token is repeated only within its cohort.
PrimaryOfCohort(g, t) == rows[g][t].at > 0

\* _deduplicate: the earliest row of a token over both cohorts.
Primary(g, t) ==
    /\ rows[g][t].at > 0
    /\ \A o \in Groups \ {g} : rows[o][t].at > 0 => rows[g][t].at < rows[o][t].at

At(g, t) == rows[g][t].at
Primaries(g) == {t \in Tokens : Primary(g, t)}

\* The holdout begins with the last three tenths of the signals' times; 0 if
\* there is none.
Cutoff ==
    LET times == {At("signal", t) : t \in Primaries("signal")}
        n == Cardinality(times)
        index == Min({n - 1, Max({1, (7 * n) \div 10})})
    IN  IF n < 2 THEN 0
        ELSE CHOOSE x \in times : Cardinality({y \in times : y < x}) = index

Holdout(g, t) == Cutoff > 0 /\ At(g, t) >= Cutoff

\* A training row whose outcome could reach the cutoff is left out.
Purged(g, t, h) ==
    /\ ~Holdout(g, t) /\ Cutoff > 0
    /\ At(g, t) + h + Delay >= Cutoff \/ rows[g][t].ends[h].at >= Cutoff

Eligible(g, t, h) ==
    LET e == rows[g][t].ends[h] IN e.quality = "complete" /\ e.at <= now /\ e.at <= At(g, t) + h + Delay

\* _match: in the order of time each signal takes the nearest unused control of
\* its split.
Before(g, t, u) == At(g, t) < At(g, u) \/ (At(g, t) = At(g, u) /\ t < u)
Apart(s, c) == LET a == At("signal", s)  b == At("control", c) IN IF a > b THEN a - b ELSE b - a
Nearer(s, c, d) == Apart(s, c) < Apart(s, d) \/ (Apart(s, c) = Apart(s, d) /\ Before("control", c, d))
Paired(m, s) ==
    LET free == {c \in Primaries("control") : /\ \A p \in m : p[2] # c
                                              /\ Holdout("control", c) = Holdout("signal", s)
                                              /\ Apart(s, c) <= Gap}
    IN  IF free = {} THEN m
        ELSE m \cup {<<s, CHOOSE c \in free : \A d \in free \ {c} : Nearer(s, c, d)>>}
Matches ==
    FoldLeft(Paired, {}, SetToSortSeq(Primaries("signal"), LAMBDA t, u : Before("signal", t, u)))

\* _group_result: the pairs that count for a horizon of a split.
Pairs(h, holdout) ==
    {p \in Matches :
       /\ Holdout("signal", p[1]) = holdout
       /\ ~Purged("signal", p[1], h) /\ ~Purged("control", p[2], h)
       /\ Eligible("signal", p[1], h) /\ Eligible("control", p[2], h)}

\* A row is the first observation of its token.
IsFirst(g, t) == first[t] = [group |-> g, at |-> At(g, t)]

\* The pairs that the evaluation at the end of a run counts look ahead nowhere:
\* unless the capacity took a row of theirs away, both rows are the first ever seen
\* of their tokens, one frozen at a signal and the other without one; both prices
\* were observed within the delay after the horizon; no control serves two signals;
\* and nothing in a training pair was observed at or after the time at which the
\* holdout begins (capture_evaluation_rows, evaluate_signals).
PairsArePointInTime ==
    run = Idle => \A h \in Horizons, holdout \in BOOLEAN :
      /\ \A p \in Pairs(h, holdout) :
           /\ p[1] \in dropped \/ IsFirst("signal", p[1])
           /\ p[2] \in dropped \/ IsFirst("control", p[2])
           /\ \A x \in {<<"signal", p[1]>>, <<"control", p[2]>>} :
                LET due == At(x[1], x[2]) + h  end == rows[x[1]][x[2]].ends[h].at
                IN  /\ due <= end /\ end <= due + Delay /\ end <= now
                    /\ ~holdout /\ Cutoff > 0 => end < Cutoff
                    /\ holdout => At(x[1], x[2]) >= Cutoff
      /\ \A p, q \in Pairs(h, holdout) : p[2] = q[2] => p = q

\* SIGNAL_EVALUATION.md:262-265: "only the earliest observation per token across
\* both cohorts enters primary inference.  Later episodes cannot replace missing
\* first outcomes".  The capacity forgets the earliest observation, and a later one
\* takes its place (capture_evaluation_rows).
OnlyEarliestCounts ==
    run = Idle => \A h \in Horizons, holdout \in BOOLEAN : \A p \in Pairs(h, holdout) :
      IsFirst("signal", p[1]) /\ IsFirst("control", p[2])
=================================================================================
