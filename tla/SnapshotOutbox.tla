---------------------------- MODULE SnapshotOutbox ----------------------------
(***************************************************************************)
(* Delivery of a scan's evidence to the history queue (src/scanner.py,     *)
(* src/cold_outbox.py, src/tools/recover_storage.py, and the archive route *)
(* src/cloudflare/scan-dispatcher/src/cold-outbox.js).                     *)
(*                                                                         *)
(* A scan writes its snapshot to a local outbox file, then works through   *)
(* that file and the two oldest ones: the rows of the file are sent in     *)
(* order, the file keeps the number of rows acknowledged, and a file is    *)
(* removed once all is acknowledged or its original is archived.  The      *)
(* outbox lives on a machine that is thrown away after the job; the        *)
(* workflow saves it in a cache that the next job restores.  A recovery    *)
(* job archives what is left and replays archived originals.  The jobs     *)
(* hold one writer lock, so they never overlap; what can interfere is a    *)
(* signal, the loss of the machine, and a lost reply.                      *)
(*                                                                         *)
(* The flags have the values of config.example.json: no legacy snapshot    *)
(* upload, cold outbox enabled, remote sync not required.  A batch of up   *)
(* to 25 rows is one row here.                                             *)
(***************************************************************************)
EXTENDS Naturals, Sequences, FiniteSets, SequencesExt, FiniteSetsExt

CONSTANTS Snapshots,    \* the snapshots, numbered by source time
          Rows,         \* rows of a snapshot
          Priority,     \* position -> row, after the recent episodes moved first
          Invalid,      \* rows history_event_error refuses, as <<snapshot, row>>
          Oversize,     \* snapshots beyond the archive's request capacity
          MaxFaults     \* bound on the signals, losses and failed saves

ASSUME OutboxAssumption ==
    /\ Snapshots \in SUBSET Nat /\ IsFiniteSet(Snapshots)
    /\ Rows \in Nat \ {0}
    /\ Priority \in [1..Rows -> 1..Rows]
    /\ \A r \in 1..Rows : \E i \in 1..Rows : Priority[i] = r
    /\ Invalid \subseteq Snapshots \X (1..Rows)
    /\ Oversize \subseteq Snapshots
    /\ MaxFaults \in Nat

VARIABLES box,     \* remote_outbox on the machine: snapshot -> file
          cache,   \* the copy the workflow saved last
          queue,   \* rows the history queue has accepted
          cold,    \* the archive: <<snapshot, order>> -> manifest
          job,     \* the job holding the writer lock
          fresh,   \* snapshots not built yet
          faults   \* signals, losses and failed saves so far

vars == <<box, cache, queue, cold, job, fresh, faults>>

\* A body keeps its rows as they were built until the first send moves the
\* recent episodes to the front.
Orders == {"built", "sorted"}
File == [at : {"none", "pending", "quarantine"}, sent : 0..Rows,
         order : Orders, dash : BOOLEAN]
NoFile == [at |-> "none", sent |-> 0, order |-> "built", dash |-> FALSE]

Manifest == [kept : BOOLEAN, sent : 0..Rows, completed : BOOLEAN]
NoManifest == [kept |-> FALSE, sent |-> 0, completed |-> FALSE]

Job == [kind : {"idle", "scan", "recover", "ending"}, todo : Seq(Snapshots),
        body : File, ended : {"no", "complete", "deferred", "error"}]
Idle == [kind |-> "idle", todo |-> <<>>, body |-> NoFile, ended |-> "no"]

RowAt(order, i) == IF order = "sorted" THEN Priority[i] ELSE i
Valid(s) == {r \in 1..Rows : <<s, r>> \notin Invalid}
\* The valid rows at the given positions of a body.
RowsOf(s, order, positions) ==
    {<<s, RowAt(order, i)>> : i \in positions} \ Invalid

Filed(at) == {s \in Snapshots : box[s].at = at}
Sorted(S) == SetToSortSeq(S, <)

TypeOK ==
    /\ box \in [Snapshots -> File]
    /\ cache \in [Snapshots -> File]
    /\ queue \subseteq Snapshots \X (1..Rows)
    /\ cold \in [Snapshots \X Orders -> Manifest]
    /\ job \in Job
    /\ fresh \subseteq Snapshots
    /\ faults \in 0..MaxFaults

Init ==
    /\ box = [s \in Snapshots |-> NoFile]
    /\ cache = box
    /\ queue = {}
    /\ cold = [e \in Snapshots \X Orders |-> NoManifest]
    /\ job = Idle
    /\ fresh = Snapshots
    /\ faults = 0

-----------------------------------------------------------------------------
(* The scan's delivery: sync_remote_snapshot *)

\* Mutant: only the oldest file is tried again.
SelectedOldest(current) ==
    LET files == Sorted(Filed("pending") \cup current)
        oldest == SubSeq(files, 1, Min({1, Len(files)}))
    IN  Sorted(current) \o SelectSeq(oldest, LAMBDA s : s \notin current)

\* The current snapshot first, then the two oldest files.
Selected(current) ==
    LET files == Sorted(Filed("pending") \cup current)
        oldest == SubSeq(files, 1, Min({2, Len(files)}))
    IN  Sorted(current) \o SelectSeq(oldest, LAMBDA s : s \notin current)

\* The dashboard is published or not; the snapshot is written to the outbox
\* either way.  Once every snapshot of the bound is built, a scan stands for
\* one whose own snapshot is delivered at once.
StartScan ==
    /\ job.kind = "idle"
    /\ \E dash \in BOOLEAN :
         LET current == IF fresh = {} THEN {} ELSE {Min(fresh)}
         IN  /\ box' = [s \in Snapshots |-> IF s \in current
                          THEN [at |-> "pending", sent |-> 0, order |-> "built", dash |-> dash]
                          ELSE box[s]]
             /\ job' = [Idle EXCEPT !.kind = "scan", !.todo = Selected(current)]
             /\ fresh' = fresh \ current
    /\ UNCHANGED <<cache, queue, cold, faults>>

\* Mutant: a row counts before its reply is heard.
SendRowsUnheard(body, s, archived) ==
    LET order == IF body.sent = 0 THEN "sorted" ELSE body.order
    IN  \E n \in body.sent..Rows, got \in 0..Rows :
          /\ got \in {n - 1, n} /\ got >= body.sent
          /\ queue' = queue \cup RowsOf(s, order, (body.sent + 1)..got)
          /\ job' = [job EXCEPT !.body = [body EXCEPT !.sent = n, !.order = order],
                                !.ended = IF n = Rows /\ archived THEN "complete" ELSE "error"]

\* send_remote_snapshot on the head of the list.  Rows n are acknowledged;
\* the next one may have arrived with its reply lost, or be refused: a quota
\* or a full queue defers the rest, any other failure raises.  A file whose
\* dashboard was not published stays incomplete after its last row.
SendRows(body, s, archived) ==
    LET order == IF body.sent = 0 THEN "sorted" ELSE body.order
    IN  \E n \in body.sent..Rows, unheard \in {0, 1}, end \in {"complete", "deferred", "error"} :
          /\ n + unheard <= Rows
          /\ unheard = 1 => end = "error"
          /\ n = Rows => end = IF body.dash \/ archived THEN "complete" ELSE "deferred"
          /\ n < Rows => end # "complete"
          /\ queue' = queue \cup RowsOf(s, order, (body.sent + 1)..(n + unheard))
          /\ job' = [job EXCEPT !.body = [body EXCEPT !.sent = n, !.order = order],
                                !.ended = end]

Send ==
    /\ job.kind = "scan" /\ job.todo # <<>> /\ job.ended = "no"
    /\ SendRows(box[Head(job.todo)], Head(job.todo), FALSE)
    /\ UNCHANGED <<box, cache, cold, fresh, faults>>

Next1 == [job EXCEPT !.todo = Tail(@), !.ended = "no", !.body = NoFile]

\* Mutant: the file goes although its invalid rows were never delivered.
ReleaseInvalid ==
    /\ job.kind = "scan" /\ job.ended = "complete"
    /\ box' = [box EXCEPT ![Head(job.todo)] = NoFile]
    /\ job' = Next1
    /\ UNCHANGED <<cache, queue, cold, fresh, faults>>

\* All acknowledged: the file goes, or moves to quarantine with its invalid rows.
Release ==
    /\ job.kind = "scan" /\ job.ended = "complete"
    /\ LET s == Head(job.todo)
       IN  box' = [box EXCEPT ![s] = IF Valid(s) = 1..Rows THEN NoFile
                                     ELSE [job.body EXCEPT !.at = "quarantine"]]
    /\ job' = Next1
    /\ UNCHANGED <<cache, queue, cold, fresh, faults>>

\* Not complete: the file keeps its progress (written before an archive is
\* tried when the send raised, after it when the send was deferred).
Keep ==
    /\ job.kind = "scan" /\ job.ended \in {"deferred", "error"}
    /\ box' = [box EXCEPT ![Head(job.todo)] = job.body]
    /\ job' = Next1
    /\ UNCHANGED <<cache, queue, cold, fresh, faults>>

-----------------------------------------------------------------------------
(* The cold archive: archive_snapshot and its route *)

\* An existing original is left as it is; progress only grows.
Archived(s, body) ==
    LET e == <<s, body.order>>
        was == cold[e]
    IN  [cold EXCEPT ![e] = [kept |-> TRUE, sent |-> Max({was.sent, body.sent}),
                             completed |-> was.completed]]

\* Stored and acknowledged, progress included: the file may go.
ArchiveKept(s, body) ==
    /\ s \notin Oversize
    /\ cold' = Archived(s, body)
    /\ box' = [box EXCEPT ![s] = NoFile]

\* The original may have arrived, with or without its progress, and no
\* verified receipt came back.
ArchiveUnverified(s, body) ==
    /\ s \notin Oversize
    /\ \E progress \in BOOLEAN :
         cold' = Archived(s, IF progress THEN body ELSE [body EXCEPT !.sent = 0])

ScanArchive ==
    /\ job.kind = "scan" /\ job.ended \in {"deferred", "error"}
    /\ ArchiveKept(Head(job.todo), job.body)
    /\ job' = Next1
    /\ UNCHANGED <<cache, queue, fresh, faults>>

ScanArchiveLost ==
    /\ job.kind = "scan" /\ job.ended \in {"deferred", "error"}
    /\ ArchiveUnverified(Head(job.todo), job.body)
    /\ box' = [box EXCEPT ![Head(job.todo)] = job.body]
    /\ job' = Next1
    /\ UNCHANGED <<cache, queue, fresh, faults>>

-----------------------------------------------------------------------------
(* The recovery job *)

StartRecovery ==
    /\ job.kind = "idle"
    /\ job' = [Idle EXCEPT !.kind = "recover",
                           !.todo = Sorted(Filed("pending")) \o Sorted(Filed("quarantine"))]
    /\ UNCHANGED <<box, cache, queue, cold, fresh, faults>>

RecoverArchive ==
    /\ job.kind = "recover" /\ job.todo # <<>>
    /\ ArchiveKept(Head(job.todo), box[Head(job.todo)])
    /\ job' = Next1
    /\ UNCHANGED <<cache, queue, fresh, faults>>

\* The first original that cannot be archived ends the pass.
RecoverStop ==
    /\ job.kind = "recover" /\ job.todo # <<>>
    /\ LET s == Head(job.todo)
       IN  ArchiveUnverified(s, box[s]) \/ UNCHANGED cold
    /\ job' = [job EXCEPT !.todo = <<>>]
    /\ UNCHANGED <<box, cache, queue, fresh, faults>>

\* Replay of one archived original: the rows after its cursor, in the order of
\* the archived body unless the cursor is 0; then the cursor is patched, or
\* the patch is lost.
Replay ==
    /\ job.kind = "recover" /\ job.todo = <<>>
    /\ \E e \in Snapshots \X Orders :
         LET m == cold[e]
             order == IF m.sent = 0 THEN "sorted" ELSE e[2]
         IN  /\ m.kept /\ ~m.completed
             /\ \E n \in m.sent..Rows, unheard \in {0, 1}, patched \in BOOLEAN :
                  /\ n + unheard <= Rows
                  /\ queue' = queue \cup RowsOf(e[1], order, (m.sent + 1)..(n + unheard))
                  /\ cold' = IF patched
                             THEN [cold EXCEPT ![e].sent = n, ![e].completed = (n = Rows)]
                             ELSE cold
    /\ UNCHANGED <<box, cache, job, fresh, faults>>

-----------------------------------------------------------------------------
(* The end of a job *)

EndJob ==
    /\ job.kind \in {"scan", "recover"} /\ job.todo = <<>>
    /\ job' = [Idle EXCEPT !.kind = "ending"]
    /\ UNCHANGED <<box, cache, queue, cold, fresh, faults>>

\* SIGTERM passes every handler of the delivery; the workflow still saves.
Interrupt ==
    /\ faults < MaxFaults
    /\ job.kind \in {"scan", "recover"} /\ job.todo # <<>>
    /\ job' = [Idle EXCEPT !.kind = "ending"]
    /\ faults' = faults + 1
    /\ UNCHANGED <<box, cache, queue, cold, fresh>>

Save ==
    /\ job.kind = "ending"
    /\ cache' = box
    /\ job' = Idle
    /\ UNCHANGED <<box, queue, cold, fresh, faults>>

\* The machine is lost, or the cache is not saved: the next job starts from
\* the copy saved before.
Lose ==
    /\ faults < MaxFaults
    /\ job.kind # "idle"
    /\ box' = cache
    /\ job' = Idle
    /\ faults' = faults + 1
    /\ UNCHANGED <<cache, queue, cold, fresh>>

Next ==
    \/ StartScan \/ Send \/ Release \/ Keep \/ ScanArchive \/ ScanArchiveLost
    \/ StartRecovery \/ RecoverArchive \/ RecoverStop \/ Replay
    \/ EndJob \/ Interrupt \/ Save \/ Lose

\* A started job goes on to its end, cron keeps starting scans, and an archive
\* request that is repeated for ever is answered some time.
JobStep ==
    \/ Send \/ Release \/ Keep \/ ScanArchive \/ ScanArchiveLost
    \/ RecoverArchive \/ RecoverStop \/ EndJob \/ Save
ArchiveOf(s) == ScanArchive /\ Head(job.todo) = s
Fairness ==
    /\ WF_vars(JobStep)
    /\ SF_vars(StartScan)
    /\ \A s \in Snapshots \ Oversize : SF_vars(ArchiveOf(s))

Spec == Init /\ [][Next]_vars
FairSpec == Spec /\ Fairness

-----------------------------------------------------------------------------
(* Properties *)

Accepted(s) == \A r \in Valid(s) : <<s, r>> \in queue
Kept(s) == \E o \in Orders : cold[<<s, o>>].kept

\* A file that is in the saved outbox stays in it until every valid row of it
\* is in the history queue and no row was invalid, or its original is in the
\* archive; a quarantined file has had its valid rows accepted
\* (sync_remote_snapshot, recover: unlink only after a receipt).
NothingIsDropped ==
    [][\A s \in Snapshots : cache[s].at # "none" =>
          \/ cache'[s].at = "pending"
          \/ cache'[s].at = "quarantine" /\ Accepted(s)'
          \/ cache'[s].at = "none" /\ (Kept(s) \/ (Accepted(s) /\ Valid(s) = 1..Rows))']_vars

\* A file's cursor, saved or not, never covers a row that the queue has not
\* accepted: a signal, a lost reply and the priority sort leave it behind the
\* queue, never ahead of it (send_remote_snapshot: progress after the reply).
CursorsAreAcknowledged ==
    \A s \in Snapshots : \A f \in {box[s], cache[s], cold[<<s, "sorted">>]} :
        LET order == IF "order" \in DOMAIN f THEN f.order ELSE "sorted"
        IN  RowsOf(s, order, 1..f.sent) \subseteq queue

\* "Completion is explicit, after the replay worker has acknowledged every
\* event (or its quarantine)" (cold-outbox.js:65): a completed archive entry
\* has all its valid rows in the queue.
CompletedIsAcknowledged ==
    \A e \in Snapshots \X Orders : cold[e].completed => Accepted(e[1])

\* Every file that can be archived leaves the outbox for good, even when the
\* file before it never can (sync_remote_snapshot: the oldest two are tried).
OutboxDrains ==
    \A s \in Snapshots \ Oversize :
        (cache[s].at = "pending") ~> [](cache[s].at # "pending")
===============================================================================
