---------------------------- MODULE StorageMigration ----------------------------
(***************************************************************************)
(* The offline migration of two database exports into one fresh database   *)
(* (src/tools/migrate_storage.py).                                         *)
(*                                                                         *)
(* Every write is one transaction over HTTP: a lost reply leaves it        *)
(* unknown whether it committed, and a stopped run is started again with   *)
(* the same plan.  The destination carries a lock with the status of the   *)
(* import, and a receipt beside the rows of each page.                     *)
(*                                                                         *)
(* The rows of a page are one element; the last table is the history's     *)
(* migration tracking, to which the upgrade adds a row of its own.         *)
(***************************************************************************)
EXTENDS Naturals, FiniteSets

CONSTANTS Pages,      \* pages of the exports, 1..Pages; the last is the tracking table
          MaxRuns, MaxFaults   \* bounds

VARIABLES dest,       \* the destination database
          flight,     \* writes whose reply was lost and which may still commit
          complete,   \* tables the manifest says are complete: "rows", "tracking"
          run,        \* the run of the tool: its step, page and end
          runs, faults,
          intact,     \* the export files are as the plan read them
          needs       \* the history export lacks the row of its third migration

vars == <<dest, flight, complete, run, runs, faults, intact, needs>>

Writes == ({"create", "seq", "upgrade", "finish"} \X {0}) \cup ({"page"} \X (1..Pages))
Steps == {"idle", "init", "import", "seq", "proof", "upgrade", "final", "finish", "created", "prove"}
Ends == {"none", "uncertain", "conflict", "source", "mismatch", "verified"}

TypeOK ==
    /\ dest \in [status : {"empty", "importing", "verified"}, rows : SUBSET (1..Pages),
                 receipts : SUBSET (1..Pages), foreign : 0..Pages,
                 seq : {"auto", "source", "next"}, upgraded : BOOLEAN]
    /\ flight \subseteq Writes
    /\ complete \subseteq {"rows", "tracking"}
    /\ run \in [step : Steps, page : 1..(Pages + 1), end : Ends]
    /\ runs \in 0..MaxRuns /\ faults \in 0..MaxFaults
    /\ intact \in BOOLEAN /\ needs \in BOOLEAN

Empty == [status |-> "empty", rows |-> {}, receipts |-> {}, foreign |-> 0,
          seq |-> "auto", upgraded |-> FALSE]

Init ==
    /\ dest = Empty /\ flight = {} /\ complete = {}
    /\ run = [step |-> "idle", page |-> 1, end |-> "none"]
    /\ runs = 0 /\ faults = 0 /\ intact = TRUE
    /\ needs \in BOOLEAN

-----------------------------------------------------------------------------
\* Mutant: the guard row does not look at the status.
CommitsUnlocked(w) ==
    IF w[1] = "create" THEN dest.status = "empty"
    ELSE /\ dest.status # "empty"
         /\ w[1] = "page" => w[2] \notin dest.receipts
         /\ w[1] = "upgrade" => ~dest.upgraded

\* Every write but the first begins with the guard row; a page's rows and its
\* receipt are plain inserts, so that a second insert rolls the transaction back.
Commits(w) ==
    IF w[1] = "create" THEN dest.status = "empty"
    ELSE /\ dest.status = "importing"
         /\ w[1] = "page" => w[2] \notin dest.receipts
         /\ w[1] = "upgrade" => ~dest.upgraded

Apply(w) ==
    CASE w[1] = "create"  -> [dest EXCEPT !.status = "importing"]
      [] w[1] = "page"    -> [dest EXCEPT !.rows = @ \cup {w[2]}, !.receipts = @ \cup {w[2]}]
      [] w[1] = "seq"     -> [dest EXCEPT !.seq = "source"]
      [] w[1] = "upgrade" -> [dest EXCEPT !.upgraded = TRUE, !.seq = IF needs THEN "next" ELSE @]
      [] w[1] = "finish"  -> [dest EXCEPT !.status = "verified"]

Stop(why) == run' = [run EXCEPT !.step = "idle", !.end = why]

\* A write commits and is answered (go on), is refused, or its reply is lost:
\* before it, after it, or while it is still under way.
Write(w, go, lost) ==
    \/ /\ Commits(w)
       /\ dest' = Apply(w) /\ run' = go
       /\ UNCHANGED <<flight, faults>>
    \/ /\ ~Commits(w)
       /\ Stop("conflict")
       /\ UNCHANGED <<dest, flight, faults>>
    \/ /\ faults < MaxFaults /\ faults' = faults + 1
       /\ run' = lost
       /\ \/ Commits(w) /\ dest' = Apply(w) /\ UNCHANGED flight
          \/ UNCHANGED <<dest, flight>>
          \/ flight' = flight \cup {w} /\ UNCHANGED dest

Lost == [run EXCEPT !.step = "idle", !.end = "uncertain"]

\* A request that was cut commits, if ever, at any later time: while the run that
\* sent it reads back, after it has stopped, or at any step of a rerun.
Land(w) ==
    /\ w \in flight
    /\ dest' = IF Commits(w) THEN Apply(w) ELSE dest
    /\ flight' = flight \ {w}
    /\ UNCHANGED <<complete, run, runs, faults, intact, needs>>

-----------------------------------------------------------------------------
Start ==
    /\ run.step = "idle" /\ run.end # "verified" /\ runs < MaxRuns
    /\ runs' = runs + 1
    /\ run' = [step |-> "init", page |-> 1, end |-> "none"]
    /\ UNCHANGED <<dest, flight, complete, faults, intact, needs>>

\* The marker of this plan and lock, or a fresh and empty database.
Initialize ==
    /\ run.step = "init"
    /\ LET go == [run EXCEPT !.step = "import"] IN
       IF ~intact
       THEN Stop("source") /\ UNCHANGED <<dest, flight, faults>>
       ELSE IF dest.status = "empty"
       THEN IF dest.foreign # 0
            THEN Stop("conflict") /\ UNCHANGED <<dest, flight, faults>>
            ELSE Write(<<"create", 0>>, go, [run EXCEPT !.step = "created"])
       ELSE /\ run' = IF dest.status = "verified" THEN [run EXCEPT !.step = "final"] ELSE go
            /\ UNCHANGED <<dest, flight, faults>>
    /\ UNCHANGED <<complete, runs, intact, needs>>

TableOf(p) == IF p = Pages THEN "tracking" ELSE "rows"
PagesOf(t) == {p \in 1..Pages : TableOf(p) = t}
\* The table is read again: its rows are the export's, no more and no fewer.
TableMatches(t) == PagesOf(t) \subseteq dest.rows /\ dest.foreign \notin PagesOf(t)

\* The rows in the key range of a page are the page's; the last page of a table
\* ends in the proof of the whole table.
Proved(p) ==
    IF p \in dest.rows /\ dest.foreign # p /\ (p + 1 \in PagesOf(TableOf(p)) \/ TableMatches(TableOf(p)))
    THEN /\ run' = [run EXCEPT !.step = "import", !.page = p + 1]
         /\ complete' = IF p + 1 \in PagesOf(TableOf(p)) THEN complete ELSE complete \cup {TableOf(p)}
    ELSE Stop("mismatch") /\ UNCHANGED complete

\* A page with a receipt is proved; a page without one is written, unless rows
\* lie in its range or an export has changed.  A table that the manifest calls
\* complete is proved again.
ImportPage ==
    /\ run.step = "import" /\ run.page <= Pages
    /\ LET p == run.page IN
       IF TableOf(p) \in complete
       THEN /\ IF TableMatches(TableOf(p))
               THEN run' = [run EXCEPT !.page = IF TableOf(p) = "rows" THEN Pages ELSE Pages + 1]
               ELSE Stop("mismatch")
            /\ UNCHANGED <<dest, flight, complete, faults>>
       ELSE IF p \in dest.receipts
       THEN Proved(p) /\ UNCHANGED <<dest, flight, faults>>
       ELSE IF p \in dest.rows \/ dest.foreign = p
       THEN Stop("conflict") /\ UNCHANGED <<dest, flight, complete, faults>>
       ELSE IF ~intact
       THEN Stop("source") /\ UNCHANGED <<dest, flight, complete, faults>>
       ELSE LET prove == [run EXCEPT !.step = "prove"]
            IN  Write(<<"page", p>>, prove, prove) /\ UNCHANGED complete
    /\ UNCHANGED <<runs, intact, needs>>

\* After a page is written, or may be: its receipt is read back.
Prove ==
    /\ run.step = "prove"
    /\ IF run.page \in dest.receipts
       THEN Proved(run.page)
       ELSE Stop("uncertain") /\ UNCHANGED complete
    /\ UNCHANGED <<dest, flight, runs, faults, intact, needs>>

\* The same for the schema and its marker.
Created ==
    /\ run.step = "created"
    /\ run' = IF dest.status = "empty" THEN Lost ELSE [run EXCEPT !.step = "import"]
    /\ UNCHANGED <<dest, flight, complete, runs, faults, intact, needs>>

\* The sequences of the exports are set after the last page.
SetSequences ==
    /\ run.step = "import" /\ run.page = Pages + 1
    /\ Write(<<"seq", 0>>, [run EXCEPT !.step = "proof"], Lost)
    /\ UNCHANGED <<complete, runs, intact, needs>>

\* verify: the exports, every table, and the sequence of the tracking table,
\* which is one higher after the upgrade has added its row.
Verified ==
    /\ intact
    /\ \A t \in {"rows", "tracking"} : TableMatches(t)
    /\ dest.seq = IF dest.upgraded /\ needs THEN "next" ELSE "source"

Proof ==
    /\ run.step = "proof"
    /\ IF Verified
       THEN run' = [run EXCEPT !.step = IF dest.upgraded THEN "final" ELSE "upgrade"]
       ELSE Stop(IF intact THEN "mismatch" ELSE "source")
    /\ UNCHANGED <<dest, flight, complete, runs, faults, intact, needs>>

Upgrade ==
    /\ run.step = "upgrade"
    /\ Write(<<"upgrade", 0>>, [run EXCEPT !.step = "final"], Lost)
    /\ UNCHANGED <<complete, runs, intact, needs>>

Final ==
    /\ run.step = "final"
    /\ run' = IF ~Verified THEN [run EXCEPT !.step = "idle", !.end = IF intact THEN "mismatch" ELSE "source"]
              ELSE IF dest.status = "verified" THEN [run EXCEPT !.step = "idle", !.end = "verified"]
              ELSE [run EXCEPT !.step = "finish"]
    /\ UNCHANGED <<dest, flight, complete, runs, faults, intact, needs>>

Finish ==
    /\ run.step = "finish"
    /\ Write(<<"finish", 0>>, [run EXCEPT !.step = "idle", !.end = "verified"], Lost)
    /\ UNCHANGED <<complete, runs, intact, needs>>

\* The machine stops between two steps; the manifest and the destination stay.
Crash ==
    /\ run.step # "idle" /\ faults < MaxFaults
    /\ faults' = faults + 1 /\ Stop("uncertain")
    /\ UNCHANGED <<dest, flight, complete, runs, intact, needs>>

\* A writer that was not paused adds a row in the range of page p, with no write
\* of a run under way.
Meddle(p) ==
    /\ run.step = "idle" /\ flight = {} /\ dest.status # "verified" /\ dest.foreign = 0
    /\ faults < MaxFaults /\ faults' = faults + 1
    /\ dest' = [dest EXCEPT !.foreign = p]
    /\ UNCHANGED <<flight, complete, run, runs, intact, needs>>

\* An export file changes.
Change ==
    /\ intact /\ faults < MaxFaults
    /\ faults' = faults + 1 /\ intact' = FALSE
    /\ UNCHANGED <<dest, flight, complete, run, runs, needs>>

Next ==
    \/ Start \/ Initialize \/ Created \/ ImportPage \/ Prove \/ SetSequences
    \/ Proof \/ Upgrade \/ Final \/ Finish \/ Crash \/ Change
    \/ \E p \in 1..Pages : Meddle(p)
    \/ \E w \in Writes : Land(w)

Spec == Init /\ [][Next]_vars

-----------------------------------------------------------------------------
\* A destination that says it is verified has every row of the exports and no
\* other, upgraded, and no write that was given up can still change it, whichever of
\* them landed during later runs (run, verify, guard).  Its sequences are set; when
\* the upgrade has added a row, a late write may have set them back before it.
VerifiedIsComplete ==
    dest.status = "verified" =>
        /\ dest.rows = 1..Pages /\ dest.foreign = 0 /\ dest.upgraded
        /\ dest.seq \in IF needs THEN {"source", "next"} ELSE {"source"}
        /\ \A w \in flight : ~Commits(w)

\* "Autoincrement sequences are preserved" (STORAGE_MIGRATION.md:83), and the final
\* proof checks them (STORAGE_MIGRATION.md:153): a destination that says it is
\* verified has the sequences that the proof asks for.
SequencesPreserved ==
    dest.status = "verified" => dest.seq = IF needs THEN "next" ELSE "source"

\* "Re-running the same command reconciles durable receipts and resumes"
\* (STORAGE_MIGRATION.md:143): with the exports as they were and no foreign row,
\* a run never finds a difference between them and what earlier runs wrote.
RerunResumes == intact /\ dest.foreign = 0 => run.end # "mismatch"
===============================================================================
