-------------------------------- MODULE ScanLane --------------------------------
(***************************************************************************)
(* The choice of the pools that one pass of a lane scans, and the scan of  *)
(* them (src/scanner.py select_scan_targets and scan_with_config;          *)
(* src/gmgn_discovery.py history_plan and record_history_check).           *)
(*                                                                         *)
(* A pass may scan Limit pools.  Some slots go to new candidates and to    *)
(* the discovery queue, to rechecks that are due, to monitored alerts and  *)
(* to history gaps, the rest to the market's priority, and a reserve to    *)
(* rotation by the oldest scan.  Time is counted in passes; scores, ranks  *)
(* and activity are abstracted to arbitrary choices.                       *)
(***************************************************************************)
EXTENDS Naturals, FiniteSets, FiniteSetsExt

CONSTANTS Pools, Limit,
          Alerted,               \* pools of recent alerts
          Checked,               \* passes before a pool without pending history is checked again
          MaxPasses, MaxFaults   \* bounds

VARIABLES pools,   \* what the state keeps of each pool
          queue,   \* pools of the discovery queue
          pass,    \* the pass under way
          now,     \* passes so far
          faults,
          wait     \* passes a pool was eligible for since its last scan

vars == <<pools, queue, pass, now, faults, wait>>

Times == 0..MaxPasses
Entry == [checked : Times, scanned : Times, due : 0..(MaxPasses + 1), gap : BOOLEAN]
Idle == [step |-> "idle", cached |-> {}, first |-> {}, last |-> {}]

TypeOK ==
    /\ pools \in [Pools -> Entry]
    /\ queue \subseteq Pools
    /\ pass \in [step : {"idle", "sweep", "scan"}, cached : SUBSET Pools,
                 first : SUBSET Pools, last : SUBSET Pools]
    /\ now \in Times /\ faults \in 0..MaxFaults
    /\ wait \in [Pools -> 0..MaxPasses]

Init ==
    /\ pools = [p \in Pools |-> [checked |-> 0, scanned |-> 0, due |-> 0, gap |-> FALSE]]
    /\ queue = {}
    /\ pass = Idle /\ now = 0 /\ faults = 0
    /\ wait = [p \in Pools |-> 0]

-----------------------------------------------------------------------------
\* Mutant: no slot is reserved.
NoReserve == 0

\* The slots: the reserve of rotation is a tenth, nine tenths are priority, and
\* each reserved share is of the whole pass, inside the priority.
Reserve == Min({Limit, Max({1, (10 * Limit + 50) \div 100})})
Priority == Min({Limit - Reserve, Max({1, (90 * Limit + 50) \div 100})})
Slots(share) == Min({Priority, Max({1, (share * Limit + 99) \div 100})})

\* history_plan at the next pass: pending history is retried at once.
Eligible ==
    {p \in Pools : pools[p].checked = 0 \/ pools[p].gap \/ now + 1 - pools[p].checked >= Checked}

\* The n pools of S with the smallest keys, ties broken either way; any n.
Any(S, n) == {T \in SUBSET S : Cardinality(T) = Min({n, Cardinality(S)})}
Firsts(S, key, n) == {T \in Any(S, n) : \A a \in T, b \in S \ T : key[a] <= key[b]}

Room(sel) == Priority - Cardinality(sel)

New(S) == {p \in S : pools[p].checked = 0}
Due(S) == {p \in S : pools[p].due > 0 /\ pools[p].due <= now + 1}
Gaps(S) == {p \in S : pools[p].gap}
DueAt == [p \in Pools |-> pools[p].due]
ScannedAt == [p \in Pools |-> pools[p].scanned]

\* A stage adds to what the stages before it took.
Then(chosen, more(_)) == UNION {{s \cup x : x \in more(s)} : s \in chosen}

PriorityOf(S) ==
    LET FromQueue(s)  == Any((queue \cap S) \ s, Min({Slots(40) - Cardinality(s), Room(s)}))
        FromDue(s)    == Firsts(Due(S) \ s, DueAt, Min({Slots(25), Room(s)}))
        FromAlerts(s) == Any((Alerted \cap S) \ s, Min({Slots(25), Room(s)}))
        FromGaps(s)   == Any(Gaps(S) \ s, Min({Slots(10), Room(s)}))
        FromMarket(s) == Any(S \ s, Room(s))
    IN  Then(Then(Then(Then(Then(Any(New(S), Slots(40)),
             FromQueue), FromDue), FromAlerts), FromGaps), FromMarket)

\* All of them, or the priority, filled up from the market, and rotation by the
\* oldest scan for the rest.
Targets(S) ==
    IF Cardinality(S) <= Limit THEN {<<S, {}>>}
    ELSE UNION {{<<f, r>> : r \in Firsts(S \ f, ScannedAt, Limit - Cardinality(f))} : f \in PriorityOf(S)}

Select ==
    /\ pass.step = "idle" /\ now < MaxPasses
    /\ now' = now + 1
    /\ \E t \in Targets(Eligible) :
         pass' = [step |-> "sweep", cached |-> {}, first |-> t[1], last |-> t[2]]
    /\ wait' = [p \in Pools |-> IF p \in Eligible THEN wait[p] + 1 ELSE wait[p]]
    /\ UNCHANGED <<pools, queue, faults>>

\* The heads of all targets are read first; a head may fail, or no route is left.
Sweep ==
    /\ pass.step = "sweep"
    /\ \/ pass' = [pass EXCEPT !.step = "scan", !.cached = pass.first \cup pass.last] /\ UNCHANGED faults
       \/ /\ faults < MaxFaults /\ faults' = faults + 1
          /\ \E bad \in {{p} : p \in pass.first \cup pass.last} \cup {pass.first \cup pass.last} :
               pass' = [pass EXCEPT !.step = "scan", !.cached = (pass.first \cup pass.last) \ bad]
    /\ UNCHANGED <<pools, queue, now, wait>>

\* Priority comes before rotation.
Turn == IF pass.first # {} THEN pass.first ELSE pass.last
Done(p) == [pass EXCEPT !.first = @ \ {p}, !.last = @ \ {p}]

\* scan_pool returns: the scan is dated, what is left of the history stays
\* pending, and a recheck is scheduled or not.
Scan(p) ==
    /\ pass.step = "scan" /\ p \in Turn
    /\ \E gap \in BOOLEAN, due \in {0, now + 1} :
         /\ gap => faults < MaxFaults
         /\ faults' = IF gap THEN faults + 1 ELSE faults
         /\ due > 0 => p \in Alerted
         /\ pools' = [pools EXCEPT ![p] = [checked |-> now, scanned |-> now, due |-> due, gap |-> gap]]
    /\ pass' = Done(p) /\ wait' = [wait EXCEPT ![p] = 0]
    /\ UNCHANGED <<queue, now>>

\* The scan fails: it is checked but not dated; missing wave data is retried.
ScanFails(p) ==
    /\ pass.step = "scan" /\ p \in Turn
    /\ faults < MaxFaults /\ faults' = faults + 1
    /\ pools' = [pools EXCEPT ![p].checked = now, ![p].gap = TRUE,
                              ![p].due = IF p \in Alerted THEN now + 1 ELSE @]
    /\ \/ pass' = Done(p)
       \/ pass' = Idle                      \* every provider's circuit is open
    /\ UNCHANGED <<queue, now, wait>>

\* No history route is left for a pool whose head was not read: it and the
\* targets after it are put off to the next pass.
Defer(p) ==
    /\ pass.step = "scan" /\ p \in Turn \ pass.cached
    /\ LET rest == pass.first \cup pass.last
       IN  pools' = [q \in Pools |-> IF q \in rest THEN [pools[q] EXCEPT !.due = now + 1, !.gap = TRUE]
                                     ELSE pools[q]]
    /\ pass' = Idle
    /\ UNCHANGED <<queue, now, faults, wait>>

EndPass ==
    /\ pass.step = "scan" /\ pass.first \cup pass.last = {}
    /\ pass' = Idle
    /\ UNCHANGED <<pools, queue, now, faults, wait>>

\* A discovery pulse replaces the queue by its best items; entries expire.
Discover ==
    /\ pass.step = "idle"
    /\ \E q \in Any(Pools, 1) : queue' = q /\ q # queue
    /\ UNCHANGED <<pools, pass, now, faults, wait>>

Next ==
    \/ Select \/ Sweep \/ EndPass \/ Discover
    \/ \E p \in Pools : Scan(p) \/ ScanFails(p) \/ Defer(p)

Spec == Init /\ [][Next]_vars

-----------------------------------------------------------------------------
\* Whatever the market, the queue, the alerts and the rechecks ask for, a pool
\* is scanned after at most as many of its turns as there are pools and faults:
\* the reserve of rotation reaches it (select_scan_targets, last_scanned_at).
EveryPoolHasItsTurn == \A p \in Pools : wait[p] <= Cardinality(Pools) - Limit + 1 + faults
===============================================================================
