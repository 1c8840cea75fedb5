---------------------------- MODULE ActivityBaseline ----------------------------
(***************************************************************************)
(* The quiet regime of one token and the break that ends it                *)
(* (src/scanner.py activity_context_from_history,                          *)
(* record_market_activity_baselines, merge_discovery_state,                *)
(* load_remote_discovery_state, sync_remote_discovery_state).              *)
(*                                                                         *)
(* The deep scan and the discovery pulse each keep a baseline in a         *)
(* checkpoint of their own and share a row of the remote database; a run   *)
(* starts from the newest it can see.  The two workflows share one         *)
(* concurrency group, so runs follow one another.                          *)
(***************************************************************************)
EXTENDS Integers, FiniteSets

CONSTANTS MaxGap,        \* longest pause between two observations of one regime
          MinQuiet,      \* how long a regime has to be quiet
          MinSamples,    \* hourly samples a baseline needs within a day
          Memory,        \* how long an activation is remembered
          Hour, Day,     \* the width of a sample, and how far samples reach back
          MaxTime, MaxRuns, MaxFaults    \* bounds

VARIABLES now,
          saved,     \* the baselines in the two checkpoints
          row,       \* the baseline of the remote row and when it was sent
          run,       \* the run under way
          runs, faults

vars == <<now, saved, row, run, runs, faults>>

Jobs == {"deep", "pulse"}
Times == 0..MaxTime                                    \* 0: never
Snapshot == [at : Times, quiet : BOOLEAN]
\* A baseline: last_snapshot_at, quiet_since, the hourly samples, when the
\* activation it remembers was seen; and the snapshots it was made of, which no
\* code keeps.
Baseline == [last : Times, since : Times, hours : SUBSET Times, at : Times,
             seen : SUBSET Snapshot]
Empty == [last |-> 0, since |-> 0, hours |-> {}, at |-> 0, seen |-> {}]
Idle == [job |-> "none", step |-> "none", base |-> Empty, burst |-> FALSE, quiet |-> FALSE,
         time |-> 0, read |-> Empty, attached |-> 0]

TypeOK ==
    /\ now \in 1..MaxTime
    /\ saved \in [Jobs -> Baseline] /\ row \in [base : Baseline, sent : Times]
    /\ run \in [job : Jobs \cup {"none"}, step : {"none", "loaded", "attached", "recorded"},
                base : Baseline, burst : BOOLEAN, quiet : BOOLEAN, time : Times,
                read : Baseline, attached : Times]
    /\ runs \in 0..MaxRuns /\ faults \in 0..MaxFaults

Init ==
    /\ now = 1 /\ saved = [j \in Jobs |-> Empty] /\ row = [base |-> Empty, sent |-> 0]
    /\ run = Idle /\ runs = 0 /\ faults = 0

-----------------------------------------------------------------------------
\* Samples of the last day.
Sampled(hours, t) == {h \in hours : h >= t - Day}

\* As Contiguous, after a pause of any length.
ContiguousAfterAny(base, t) == base.last # 0 /\ base.last <= t

\* An observation continues the regime only if it follows the last one closely.
Contiguous(base, t) == base.last # 0 /\ base.last <= t /\ t - base.last <= MaxGap

QuietSince(base, t) == IF Contiguous(base, t) THEN base.since ELSE 0

\* The quiet regime breaks now.
Breaks(base, burst, t) ==
    /\ Cardinality(Sampled(base.hours, t)) >= MinSamples
    /\ QuietSince(base, t) # 0 /\ t - QuietSince(base, t) >= MinQuiet
    /\ burst

\* When the activation was seen that the context confirms, 0 if it confirms none.
Activation(base, burst, t) ==
    CASE Breaks(base, burst, t) -> t
      [] ~Breaks(base, burst, t) /\ Contiguous(base, t) /\ base.at # 0
           /\ base.at <= t /\ t - base.at <= Memory -> base.at
      [] OTHER -> 0

\* A snapshot enters the baseline.
Recorded(base, quiet, burst, t) ==
    [last |-> t,
     since |-> CASE ~quiet -> 0
                 [] quiet /\ QuietSince(base, t) # 0 -> QuietSince(base, t)
                 [] OTHER -> t,
     hours |-> Sampled(base.hours, t) \cup {t - (t % Hour)},
     at |-> Activation(base, burst, t),
     seen |-> base.seen \cup {[at |-> t, quiet |-> quiet]}]

Newer(incoming, existing) == IF incoming.last > existing.last THEN incoming ELSE existing

-----------------------------------------------------------------------------
Tick ==
    /\ now < MaxTime /\ now' = now + 1
    /\ UNCHANGED <<saved, row, run, runs, faults>>

\* A run starts in a later second than the last snapshot.
Starts ==
    /\ run.job = "none" /\ runs < MaxRuns /\ runs' = runs + 1
    /\ row.base.last < now /\ \A j \in Jobs : saved[j].last < now

\* The deep scan loads its checkpoint and merges the discovery pulse's; when the
\* durable copy of the latter cannot be read, also the remote row, if that can be.
LoadDeep(own, other, remote) ==
    /\ Starts
    /\ faults' = faults + (IF own THEN 0 ELSE 1) + (IF other # remote THEN 0 ELSE 1)
    /\ faults' <= MaxFaults
    /\ LET mine == IF own THEN saved["deep"] ELSE Empty
           merged == IF other THEN Newer(saved["pulse"], mine) ELSE mine
       IN run' = [Idle EXCEPT !.job = "deep", !.step = "loaded",
                              !.base = IF remote THEN Newer(row.base, merged) ELSE merged]
    /\ UNCHANGED <<now, saved, row>>

\* The pulse loads its own checkpoint, and if it has none at all starts from the deep
\* scan's, if that is there.  It merges the remote row, unless its checkpoint was
\* restored from the durable copy or the row cannot be read.
LoadPulse(own, deep, remote) ==
    /\ Starts
    /\ own => ~deep
    /\ faults' = faults + (IF own THEN 0 ELSE 1) + (IF own \/ remote THEN 0 ELSE 1)
    /\ faults' <= MaxFaults
    /\ LET mine == CASE own -> saved["pulse"] [] deep -> saved["deep"] [] OTHER -> Empty
       IN run' = [Idle EXCEPT !.job = "pulse", !.step = "loaded",
                              !.base = IF remote THEN Newer(row.base, mine) ELSE mine]
    /\ UNCHANGED <<now, saved, row>>

\* The market is read and the context attached to the pool.
Attach(quiet, burst) ==
    /\ run.step = "loaded"
    /\ run' = [run EXCEPT !.step = "attached", !.quiet = quiet, !.burst = burst,
                          !.time = now, !.read = run.base, !.attached = Activation(run.base, burst, now)]
    /\ UNCHANGED <<now, saved, row, runs, faults>>

\* The baseline is recorded, by the deep scan at a later time, and sent to the remote
\* row if the token is hot or was not sent lately; the request may be lost.
Record(sent) ==
    /\ run.step = "attached"
    /\ LET t == IF run.job = "deep" THEN now ELSE run.time
           base == Recorded(run.base, run.quiet, run.burst, t)
       IN /\ run' = [run EXCEPT !.step = "recorded", !.base = base]
          /\ row' = IF sent /\ t >= row.sent THEN [base |-> base, sent |-> t] ELSE row
    /\ UNCHANGED <<now, saved, runs, faults>>

\* The state is saved; a deep scan saves it with or without a recording, when it has
\* nothing to check and when it fails.
Save ==
    /\ run.step = "recorded" \/ run.job = "deep"
    /\ saved' = [saved EXCEPT ![run.job] = run.base]
    /\ run' = Idle
    /\ UNCHANGED <<now, row, runs, faults>>

\* The job ends, or its checkpoint cannot be saved.
Crash ==
    /\ run.job # "none" /\ faults < MaxFaults /\ faults' = faults + 1
    /\ run' = Idle
    /\ UNCHANGED <<now, saved, row, runs>>

Next ==
    \/ Tick
    \/ \E own, other, remote \in BOOLEAN : LoadDeep(own, other, remote)
    \/ \E own, deep, remote \in BOOLEAN : LoadPulse(own, deep, remote)
    \/ \E quiet, burst \in BOOLEAN : Attach(quiet, burst)
    \/ \E sent \in BOOLEAN : Record(sent)
    \/ Save
    \/ Crash

Spec == Init /\ [][Next]_vars

-----------------------------------------------------------------------------
\* A regime was quiet before t: from some snapshot on, at least MinQuiet earlier,
\* every snapshot was quiet and none came later than MaxGap after the one before.
WasQuiet(seen, t) ==
    \E first \in seen :
        /\ first.at + MinQuiet <= t
        /\ \A x \in seen : first.at <= x.at /\ x.at < t =>
             /\ x.quiet
             /\ \E next \in {y.at : y \in seen} \cup {t} :
                  x.at < next /\ next <= t /\ next <= x.at + MaxGap

\* A confirmed reactivation rests on a continuous quiet regime of the required
\* length that was really observed, in the snapshots of the copy it was computed
\* from, and is never remembered past its time (activity_context_from_history:
\* "a ready, continuous quiet-regime baseline with a confirmed activity break").
QuietIsObserved ==
    /\ \A base \in {saved["deep"], saved["pulse"], row.base, run.base} : base.at # 0 =>
         WasQuiet(base.seen, base.at) /\ base.last - base.at <= Memory
    /\ run.attached # 0 => WasQuiet(run.read.seen, run.attached)
=================================================================================
