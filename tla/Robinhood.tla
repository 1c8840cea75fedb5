------------------------------- MODULE Robinhood --------------------------------
(***************************************************************************)
(* The incremental Robinhood Chain scanner (src/robinhood.py scan,         *)
(* inspect_incremental, recheck_cohort; src/robinhood_store.py;            *)
(* src/tools/restore_robinhood_state.py), for one pool and one buyer of    *)
(* its cohort.                                                             *)
(*                                                                         *)
(* A scan reads the chain in several requests while blocks are mined and   *)
(* replaced.  Everything it writes is one database transaction, committed  *)
(* only if the block it fixed at its start is still there at its end.      *)
(***************************************************************************)
EXTENDS Naturals, FiniteSets, Sequences, FiniteSetsExt

CONSTANTS Confirm,      \* blocks left unread at the tip
          Window,       \* blocks of the observed window
          MaxLog,       \* blocks of logs read per scan
          MinKept,      \* tokens a buyer must provably keep to be frozen
          Mined,        \* what the blocks mined may do
          MaxBlocks, MaxForks, MaxFaults   \* bounds

VARIABLES chain,     \* the canonical chain: what each block does to the buyer
          work,      \* the database as the open transaction sees it
          saved,     \* the committed database
          backup,    \* the daily copy of it
          scan,      \* the scan under way
          forks, faults,
          doubted    \* history: the databases that rest on blocks which went unnoticed

vars == <<chain, work, saved, backup, scan, forks, faults, doubted>>

\* What a block does to the buyer: a buy, which its receipt must prove to have
\* reached his wallet, brings 2 tokens; a transfer moves 1.
Kinds == {"none", "buy", "in", "out"}
Blocks == 0..MaxBlocks
NoCohort == [bought |-> 0, lower |-> 0, from |-> 0, block |-> 0]
NoScan == [phase |-> "idle", head |-> 0, start |-> 0, end |-> 0, fork |-> 0]
Empty == [logs |-> {}, read |-> {}, block |-> 0, fork |-> 0, cohort |-> NoCohort]

Database ==
    [logs : SUBSET [block : Blocks, fork : 0..MaxForks],
     read : SUBSET [block : Blocks, fork : 0..MaxForks],     \* those whose receipts are cached
     block : Blocks, fork : 0..MaxForks,                     \* the history checkpoint
     cohort : [bought : 0..(2 * MaxBlocks), lower : 0..(2 * MaxBlocks), from : Blocks, block : Blocks]]

TypeOK ==
    /\ \A i \in DOMAIN chain : chain[i] \in [fork : 0..MaxForks, kind : Kinds]
    /\ Len(chain) \in Blocks
    /\ work \in Database /\ saved \in Database /\ backup \in Database
    /\ scan \in [phase : {"idle", "logs", "checkpoint", "cohort", "end"}, head : Blocks,
                 start : Blocks, end : Blocks, fork : 0..MaxForks]
    /\ forks \in 0..MaxForks /\ faults \in 0..MaxFaults
    /\ doubted \subseteq {"saved", "backup"}

Init ==
    /\ chain = <<>> /\ work = Empty /\ saved = Empty /\ backup = Empty
    /\ scan = NoScan /\ forks = 0 /\ faults = 0 /\ doubted = {}

-----------------------------------------------------------------------------
Having(kind, a, b) == {i \in a..b : i <= Len(chain) /\ chain[i].kind = kind}
Bought(a, b) == 2 * Cardinality(Having("buy", a, b))
Spent(a, b) == Cardinality(Having("out", a, b))
Balance(h) == Bought(1, h) + Cardinality(Having("in", 1, h)) - Spent(1, h)
Less(n, m) == IF n > m THEN n - m ELSE 0

\* The chain grows; nobody spends what he has not got.
Mine(kind) ==
    /\ Len(chain) < MaxBlocks
    /\ kind = "out" => Balance(Len(chain)) > 0
    /\ chain' = Append(chain, [fork |-> forks, kind |-> kind])
    /\ UNCHANGED <<work, saved, backup, scan, forks, faults, doubted>>

\* Blocks are taken back, any that there are.  A scan only looks again at the block
\* of its history checkpoint: a database that has used later ones, for the check of
\* its cohort or by a receipt, rests on blocks whose loss it does not notice.
Notices(db, i) == i <= db.block \/ (i > db.cohort.block /\ \A l \in db.read : i > l.block)
Reorganize ==
    /\ forks < MaxForks /\ forks' = forks + 1
    /\ \E i \in 1..Len(chain) :
         /\ chain' = SubSeq(chain, 1, i - 1)
         /\ doubted' = doubted \cup {name \in {"saved"} : ~Notices(saved, i)}
                              \cup {name \in {"backup"} : ~Notices(backup, i)}
    /\ UNCHANGED <<work, saved, backup, scan, faults>>

-----------------------------------------------------------------------------
Canonical(block, fork) == block = 0 \/ (block \in DOMAIN chain /\ chain[block].fork = fork)

\* The first block of the observed window.
Start(head) == Less(head, Window) + 1

\* The scan fixes its head, some blocks below the tip, and its window.
Begin ==
    /\ scan.phase = "idle" /\ Len(chain) > Confirm
    /\ LET head == Len(chain) - Confirm
       IN  scan' = [phase |-> "logs", head |-> head, start |-> Start(head), end |-> 0,
                    fork |-> chain[head].fork]
    /\ UNCHANGED <<chain, work, saved, backup, forks, faults, doubted>>

\* Nothing is read after a checkpoint that the chain has replaced or not reached.
MayRead == work.block <= scan.head /\ Canonical(work.block, work.fork)

ReadLogs ==
    /\ scan.phase = "logs" /\ MayRead
    /\ LET left == IF work.block = 0 THEN scan.start ELSE work.block + 1
           end == Min({scan.head, left + MaxLog - 1})
       IN  /\ work' = [work EXCEPT !.logs = @ \cup {[block |-> i, fork |-> chain[i].fork] :
                                                    i \in Having("buy", left, end)}]
           /\ scan' = [scan EXCEPT !.phase = "checkpoint", !.end = end]
    /\ UNCHANGED <<chain, saved, backup, forks, faults, doubted>>

Checkpoint ==
    /\ scan.phase = "checkpoint" /\ scan.end <= Len(chain)
    /\ work' = [work EXCEPT !.block = scan.end, !.fork = chain[scan.end].fork]
    /\ scan' = [scan EXCEPT !.phase = "cohort"]
    /\ UNCHANGED <<chain, saved, backup, forks, faults, doubted>>

\* The receipts of logged buys are read in the order of their blocks, as far as the
\* budget goes, each once; it must name the log's block.
Got(last) == {l \in work.logs : l.block \in scan.start..last}
MayInspect(last) ==
    /\ scan.head <= Len(chain)
    /\ \A l \in Got(last) \ work.read : Canonical(l.block, l.fork)

\* The first complete window in which the buyers of a wave kept enough freezes
\* them; for a routed wave only its own buys, and what left since it began.
Frozen(buys, from) ==
    LET bought == 2 * Cardinality(buys)
        lower == Min({Balance(scan.head), Less(bought, Spent(from, scan.head))})
    IN  IF scan.end = scan.head /\ lower >= MinKept
        THEN [bought |-> bought, lower |-> lower, from |-> from, block |-> scan.head]
        ELSE NoCohort

\* A frozen cohort is followed by what left its wallets since the last check.
Rechecked ==
    LET c == work.cohort
        lower == Less(c.lower, Spent(c.block + 1, scan.head))
    IN  IF scan.head <= c.block THEN c
        ELSE [c EXCEPT !.lower = Min({lower, c.bought, Balance(scan.head)}), !.block = scan.head]

\* Logs older than the window are dropped.
Inspect ==
    /\ scan.phase = "cohort"
    /\ \E last \in 0..scan.head, from \in scan.start..scan.head, to \in scan.start..scan.head :
         /\ MayInspect(last)
         /\ work' = [work EXCEPT
              !.cohort = IF @ = NoCohort THEN Frozen({l \in Got(last) : l.block \in from..to}, from)
                         ELSE Rechecked,
              !.logs = {l \in @ : l.block >= scan.start},
              !.read = {l \in @ \cup Got(last) : l.block >= scan.start}]
    /\ scan' = [scan EXCEPT !.phase = "end"]
    /\ UNCHANGED <<chain, saved, backup, forks, faults, doubted>>

\* A request fails: the pool is left as far as it got, perhaps with some receipts,
\* and the scan goes on.
PoolFails ==
    /\ scan.phase \in {"logs", "checkpoint", "cohort"}
    /\ IF \/ scan.phase = "logs" /\ ~MayRead
          \/ scan.phase = "checkpoint" /\ scan.end > Len(chain)
          \/ scan.phase = "cohort" /\ ~MayInspect(scan.head)
       THEN faults' = faults
       ELSE faults < MaxFaults /\ faults' = faults + 1
    /\ \/ work' = work
       \/ \E last \in scan.start..scan.head :
            /\ scan.phase = "cohort" /\ MayInspect(last)
            /\ work' = [work EXCEPT !.read = @ \cup Got(last)]
    /\ scan' = [scan EXCEPT !.phase = "end"]
    /\ UNCHANGED <<chain, saved, backup, forks, doubted>>

\* Mutant: the snapshot block is not read again.
FinishUnread ==
    /\ scan.phase = "end"
    /\ scan' = NoScan /\ saved' = work
    /\ UNCHANGED <<chain, work, backup, forks, faults, doubted>>

\* The transaction is committed only if the head is still the block it was.
Finish ==
    /\ scan.phase = "end" /\ scan' = NoScan
    /\ \/ Canonical(scan.head, scan.fork) /\ saved' = work /\ work' = work
       \/ ~Canonical(scan.head, scan.fork) /\ work' = saved /\ saved' = saved
    /\ UNCHANGED <<chain, backup, forks, faults, doubted>>

\* The job dies: its transaction is lost.
Crash ==
    /\ scan.phase # "idle" /\ faults < MaxFaults /\ faults' = faults + 1
    /\ scan' = NoScan /\ work' = saved
    /\ UNCHANGED <<chain, saved, backup, forks, doubted>>

Backup ==
    /\ scan.phase = "idle" /\ saved # backup /\ backup' = saved
    /\ doubted' = IF "saved" \in doubted THEN {"saved", "backup"} ELSE {}
    /\ UNCHANGED <<chain, work, saved, scan, forks, faults>>

\* The runner's cache is gone and the daily copy takes its place.
Restore ==
    /\ scan.phase = "idle" /\ saved # backup /\ faults < MaxFaults /\ faults' = faults + 1
    /\ saved' = backup /\ work' = backup
    /\ doubted' = IF "backup" \in doubted THEN {"saved", "backup"} ELSE {}
    /\ UNCHANGED <<chain, backup, scan, forks>>

Next ==
    \/ \E kind \in Mined : Mine(kind)
    \/ Reorganize
    \/ Begin \/ ReadLogs \/ Checkpoint \/ Inspect \/ PoolFails \/ Finish
    \/ Crash \/ Backup \/ Restore

Spec == Init /\ [][Next]_vars

-----------------------------------------------------------------------------
\* What the chain proves of a cohort: the buys it counts, less everything that left
\* since, and at most the balance.
Proven(c) ==
    /\ c.bought <= Bought(c.from, c.block)
    /\ c.lower <= Less(c.bought, Spent(c.from, c.block))
    /\ c.lower <= Balance(c.block)

\* What the database says a buyer provably kept is no more than what the chain
\* proves, whatever failed, was replaced under a scan or was restored on the way,
\* while its history checkpoint is on the chain and every loss of a block that it
\* has used was one of its checkpoint too (scan, inspect_incremental,
\* recheck_cohort, Store.finish).
KeptIsProven ==
    (/\ saved.cohort # NoCohort /\ Canonical(saved.block, saved.fork)
     /\ "saved" \notin doubted) => Proven(saved.cohort)

\* "Reorganized history fails closed and requires an explicit rebuild rather than
\* silently changing the original thesis" (ROBINHOOD.md:73-75): a scan goes on with
\* a frozen cohort only if the chain still proves it.
ReorganizedFailsClosed ==
    [][(/\ scan.phase = "end" /\ saved.cohort # NoCohort
        /\ saved'.cohort.block > saved.cohort.block) => Proven(saved.cohort)]_vars
===============================================================================
