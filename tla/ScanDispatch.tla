------------------------------ MODULE ScanDispatch ------------------------------
(***************************************************************************)
(* When the scans run: the Worker's cron handler (dispatcher/src/index.js),*)
(* the concurrency group of the GitHub workflows, which keeps one running  *)
(* and one pending run, the freshness step of scan-and-pages.yml and the   *)
(* hourly watchdog (tools/scan_watchdog.py).                               *)
(*                                                                         *)
(* Time is counted in slots of ten minutes, six to the hour.  The events   *)
(* of a slot come in the order of their minutes; one of its two discovery  *)
(* events stands for both, as pulses younger than 14 minutes are skipped.  *)
(***************************************************************************)
EXTENDS Integers, Sequences

CONSTANTS ScanTicks, PulseTicks,      \* job timeouts
          FreshDeep, FreshTargeted,   \* the freshness step skips younger reports
          Stale, Cooldown,            \* thresholds of the watchdog
          Pace,                       \* an undisturbed schedule keeps deep reports younger
          From, MaxTime, MaxFaults    \* bounds

VARIABLES now,
          todo,      \* events of the slot that are still to come
          up,        \* the Worker's scheduler works
          running, pending,    \* the runs of the concurrency group
          sent,      \* dispatches past their guard and their claim
          claimed,   \* buckets claimed in this slot
          report,    \* the published dashboard
          recent,    \* when a deep scan was last dispatched
          faults

vars == <<now, todo, up, running, pending, sent, claimed, report, recent, faults>>

Hour == 6
Crons == {"discovery", "deep", "targeted"}
Kinds == Crons \cup {"recovery", "watchdog", "manual"}
Deep == {"deep", "watchdog", "manual"}
Dispatched == Deep \cup {"targeted"}
NoRun == [kind |-> "none", at |-> From, scans |-> FALSE]
Slots == From..MaxTime

\* The events of a slot: discovery */5; deep :07; targeted :22, :37, :52;
\* recovery :41 of every sixth hour; watchdog :43.
Agenda(t) ==
    <<"discovery">> \o
    CASE t % Hour = 0 -> <<"deep">>
      [] t % Hour \in {2, 3, 5} -> <<"targeted">>
      [] t % Hour = 4 -> (IF (t \div Hour) % 6 = 0 THEN <<"recovery">> ELSE <<>>)
                         \o <<"watchdog">>
      [] OTHER -> <<>>

TypeOK ==
    /\ now \in From..MaxTime /\ todo \in Seq(Kinds) /\ Len(todo) <= 3 /\ up \in BOOLEAN
    /\ running \in [kind : Kinds \cup {"none"}, at : Slots, scans : BOOLEAN]
    /\ pending \in Kinds \cup {"none"}
    /\ sent \subseteq Crons /\ claimed \subseteq Crons
    /\ report \in [deep : Slots, any : Slots, blocked : BOOLEAN]
    /\ recent \in Slots /\ faults \in 0..MaxFaults

Init ==
    /\ now = From /\ todo = Agenda(From) /\ up = TRUE
    /\ running = NoRun /\ pending = "none" /\ sent = {} /\ claimed = {}
    /\ report = [deep |-> From, any |-> From, blocked |-> FALSE] /\ recent = From
    /\ faults = 0

Fault == faults < MaxFaults /\ faults' = faults + 1

-----------------------------------------------------------------------------
\* The freshness step: a manual dispatch always scans, the recovery run never;
\* the back-off of six hours after a provider's refusal outlasts the horizon.
Scans(kind, rep) ==
    CASE kind = "manual" -> TRUE
      [] kind \in {"deep", "watchdog"} -> ~rep.blocked /\ now - rep.deep >= FreshDeep
      [] kind = "targeted" -> ~rep.blocked /\ now - rep.any >= FreshTargeted
      [] OTHER -> FALSE

Begun(kind, rep) == [kind |-> kind, at |-> now, scans |-> Scans(kind, rep)]

\* GitHub starts a run when the group is free, and keeps the newest pending one.
Create(kind) ==
    IF running = NoRun THEN running' = Begun(kind, report) /\ UNCHANGED pending
    ELSE pending' = kind /\ UNCHANGED running

\* Variant: only runs that have begun count.
ActiveIsRunning == running.kind \in Dispatched
\* The dispatches of the scan workflow that are queued or running.
Active == {running.kind, pending} \cap Dispatched # {}

\* dispatchScheduledScan up to its POST: discoveryDispatchGuard, claimDispatchBucket.
Fire(kind) ==
    /\ todo # <<>> /\ kind = Head(todo) /\ todo' = Tail(todo)
    /\ up /\ kind \notin claimed
    /\ kind # "deep" => ~Active
    /\ claimed' = claimed \cup {kind} /\ sent' = sent \cup {kind}
    /\ IF sent = {} THEN UNCHANGED faults ELSE Fault
    /\ UNCHANGED <<now, up, running, pending, report, recent>>

\* Nothing is dispatched: a run is active, the bucket is taken or the scheduler is
\* down; or, as a fault, the event is lost or no status is to be had.
Skip(kind) ==
    /\ todo # <<>> /\ kind = Head(todo) /\ todo' = Tail(todo)
    /\ IF up /\ kind \notin claimed /\ (kind # "deep" => ~Active)
       THEN Fault ELSE UNCHANGED faults
    /\ UNCHANGED <<now, up, running, pending, sent, claimed, report, recent>>

\* The event of a dispatch is delivered a second time.
Redeliver(kind) ==
    /\ Fault /\ kind \in claimed /\ Len(todo) < 3 /\ todo' = <<kind>> \o todo
    /\ UNCHANGED <<now, up, running, pending, sent, claimed, report, recent>>

Post(kind) ==
    /\ kind \in sent /\ sent' = sent \ {kind}
    /\ Create(kind)
    /\ recent' = IF kind = "deep" THEN now ELSE recent
    /\ UNCHANGED <<now, todo, up, claimed, report, faults>>

\* The POST fails; the bucket stays claimed.
PostFails(kind) ==
    /\ kind \in sent /\ sent' = sent \ {kind}
    /\ Fault
    /\ UNCHANGED <<now, todo, up, running, pending, claimed, report, recent>>

Recovery ==
    /\ todo # <<>> /\ Head(todo) = "recovery" /\ todo' = Tail(todo)
    /\ Create("recovery")
    /\ UNCHANGED <<now, up, sent, claimed, report, recent, faults>>

\* watchdog_decision and its dispatch; an unreachable dashboard counts as stale.  The
\* attempts it also looks for in the scan status carry no profile there.
Watchdog ==
    /\ todo # <<>> /\ Head(todo) = "watchdog" /\ todo' = Tail(todo)
    /\ \E reachable \in BOOLEAN :
          IF Active \/ (reachable /\ now - report.deep < Stale) \/ now - recent < Cooldown
          THEN UNCHANGED <<running, pending, recent, faults>>
          ELSE \/ Create("watchdog") /\ recent' = now /\ UNCHANGED faults
               \/ Fault /\ UNCHANGED <<running, pending, recent>>
    /\ UNCHANGED <<now, up, sent, claimed, report>>

Manual ==
    /\ Fault /\ Create("manual") /\ recent' = now
    /\ UNCHANGED <<now, todo, up, sent, claimed, report>>

\* The Worker's scheduler fails, and works again.
Outage ==
    /\ Fault /\ up /\ up' = FALSE
    /\ UNCHANGED <<now, todo, running, pending, sent, claimed, report, recent>>
Return ==
    /\ ~up /\ up' = TRUE
    /\ UNCHANGED <<now, todo, running, pending, sent, claimed, report, recent, faults>>

-----------------------------------------------------------------------------
\* What a scan publishes; a targeted one may have nothing to publish.
Published ==
    {[report EXCEPT !.any = t, !.blocked = FALSE, !.deep = IF running.kind \in Deep THEN t ELSE @] :
        t \in running.at..now}
Refused == {[report EXCEPT !.blocked = b] : b \in BOOLEAN}

\* The run ends and the pending one begins.
Finish ==
    /\ running # NoRun
    /\ IF ~running.scans THEN UNCHANGED <<report, faults>>
       ELSE \/ report' \in Published /\ UNCHANGED faults
            \/ running.kind = "targeted" /\ report' \in Refused \cup {report} /\ UNCHANGED faults
            \/ running.kind \in Deep /\ report' \in Refused /\ Fault
    /\ running' = IF pending = "none" THEN NoRun ELSE Begun(pending, report')
    /\ pending' = "none"
    /\ UNCHANGED <<now, todo, up, sent, claimed, recent>>

Limit(kind) == IF kind = "discovery" THEN PulseTicks ELSE ScanTicks

Tick ==
    /\ now < MaxTime /\ todo = <<>> /\ sent = {}
    /\ running = NoRun \/ now - running.at < Limit(running.kind)
    /\ now' = now + 1 /\ todo' = Agenda(now + 1) /\ claimed' = {}
    /\ UNCHANGED <<up, running, pending, sent, report, recent, faults>>

Next ==
    \/ \E kind \in Crons :
          Fire(kind) \/ Skip(kind) \/ Redeliver(kind) \/ Post(kind) \/ PostFails(kind)
    \/ Recovery \/ Watchdog \/ Manual \/ Outage \/ Return \/ Finish \/ Tick

Spec == Init /\ [][Next]_vars

-----------------------------------------------------------------------------
(***************************************************************************)
(* Unless a provider has refused the scans, the last deep report is as     *)
(* young as Pace allows, and a disturbance delays the next one by two      *)
(* hours at most: the guard (discoveryDispatchGuard) keeps the frequent    *)
(* dispatches from replacing a pending deep scan, the freshness step does  *)
(* not skip the hourly scan, and the watchdog stands in for a scheduler    *)
(* that is down.                                                           *)
(***************************************************************************)
DeepStaysFresh == report.blocked \/ now - report.deep <= Pace + 2 * Hour * faults
=============================================================================
