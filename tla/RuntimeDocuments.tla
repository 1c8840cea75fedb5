-------------------------- MODULE RuntimeDocuments --------------------------
(***************************************************************************)
(* The runtime documents in Turso                                          *)
(* (cloudflare/scan-dispatcher/src/runtime-sql.js) with the scanner that   *)
(* publishes and restores them (scanner.py).                               *)
(*                                                                         *)
(* A root - the checkpoint of a scanner, or the dashboard - is a manifest  *)
(* of immutable, content-addressed parts.  A publication probes for the    *)
(* parts, uploads the missing ones and commits the manifest; meanwhile a   *)
(* collector removes parts nobody refers to, other publications commit,    *)
(* and a restore fetches the parts of the manifest it has read.            *)
(***************************************************************************)
EXTENDS Integers, FiniteSets, FiniteSetsExt

CONSTANTS
  Parts,        \* the content-addressed parts
  Publishers,   \* scanner processes that publish the root
  Readers,      \* processes that restore from it
  Kind,         \* which root: "checkpoint" or "dashboard"
  Revisions,    \* the revisions of a checkpoint's state
  Retirement,   \* whether a scan may retire tokens before it publishes
  Grace,        \* the grace of unreferenced parts (RUNTIME_GC_GRACE_MINUTES)
  Latency,      \* how long after its clock reading a statement may run
  MaxRevision,  \* bound of the revisions
  MaxTime       \* bound of the clock

Absent == -1

ASSUME RuntimeAssumption ==
  /\ Kind \in {"checkpoint", "dashboard"}
  /\ Revisions \subseteq Nat /\ Revisions # {}
  /\ Retirement \in BOOLEAN /\ (Retirement => Kind = "dashboard")
  /\ {Grace, Latency, MaxRevision, MaxTime} \subseteq Nat /\ Latency < Grace

VARIABLES
  now,     \* the clock
  touched, \* per part: touched_at of its row, or Absent
  root,    \* the row of the root
  refs,    \* runtime_sql_references of the root
  pub,     \* the publications
  gc,      \* the garbage collector
  reader   \* the restores

vars == <<now, touched, root, refs, pub, gc, reader>>

-----------------------------------------------------------------------------
(* A document: its source time and revision, the scan whose state it       *)
(* carries, and the parts it refers to.                                    *)
NoRoot == [source |-> Absent, rev |-> 0, gen |-> Absent, by |-> "nobody", parts |-> {}]

Present == {p \in Parts : touched[p] # Absent}

(* The clock readings a statement that runs now may carry.                 *)
Readings == Max({0, now - Latency}) .. now

(* A publication: the document its scan ends with, and the document it is  *)
(* sending.                                                                *)
Idle ==
  [phase |-> "idle", stage |-> "complete", scan |-> NoRoot, doc |-> NoRoot,
   todo |-> {}, sent |-> {}, since |-> 0, clock |-> 0]

Set(w, state) == pub' = [pub EXCEPT ![w] = state]

Newer(d, c) == d.source > c.source \/ (d.source = c.source /\ d.rev > c.rev)

(* The same state in another layout: only a checkpoint may be replaced so. *)
SameContent(d, c) == d.source = c.source /\ d.rev = c.rev /\ d.gen = c.gen /\ d.by = c.by

(* Variant: the last writer wins.                                          *)
SupersedesAlways(d, c) == TRUE
Supersedes(d, c) == Newer(d, c) \/ (Kind = "checkpoint" /\ SameContent(d, c))

Init ==
  /\ now = 0
  /\ touched = [p \in Parts |-> Absent]
  /\ root = NoRoot
  /\ refs = {}
  /\ pub = [w \in Publishers |-> Idle]
  /\ gc = [phase |-> "idle", cutoff |-> 0, page |-> {}]
  /\ reader = [r \in Readers |-> [phase |-> "idle", todo |-> {}, at |-> 0]]

-----------------------------------------------------------------------------
(* A scan ends with what it will publish.  A dashboard is published as a   *)
(* summary without parts and then complete; a scan that retires tokens     *)
(* first has the Worker rewrite the stored dashboard.                      *)
SummaryRevision == 4
CompleteRevision == 5

Summary(scan) == [scan EXCEPT !.rev = SummaryRevision, !.parts = {}]

Build(w) ==
  /\ pub[w].phase \in {"idle", "done"}
  /\ \E parts \in SUBSET Parts \ {{}} :
       \/ /\ Kind = "checkpoint"
          /\ \E rev \in Revisions :
               LET scan == [source |-> now, rev |-> rev, gen |-> now, by |-> w, parts |-> parts] IN
               Set(w, [Idle EXCEPT !.phase = "probe", !.scan = scan, !.doc = scan])
       \/ /\ Kind = "dashboard"
          /\ LET scan == [source |-> now, rev |-> CompleteRevision, gen |-> now, by |-> w, parts |-> parts] IN
             \/ Set(w, [Idle EXCEPT !.phase = "send", !.stage = "summary", !.scan = scan, !.doc = Summary(scan)])
             \/ /\ Retirement /\ root # NoRoot
                /\ Set(w, [Idle EXCEPT !.phase = "load", !.stage = "retire", !.scan = scan])
  /\ UNCHANGED <<now, touched, root, refs, gc, reader>>

(* The stored checkpoint is published again in another layout.             *)
Repair(w) ==
  /\ Kind = "checkpoint" /\ root # NoRoot
  /\ pub[w].phase \in {"idle", "done"}
  /\ \E parts \in SUBSET Parts \ {{}} :
       LET scan == [root EXCEPT !.parts = parts] IN
       Set(w, [Idle EXCEPT !.phase = "probe", !.scan = scan, !.doc = scan])
  /\ UNCHANGED <<now, touched, root, refs, gc, reader>>

(* Where a publication goes on when a document has been acknowledged.      *)
Proceed(w) ==
  CASE pub[w].stage = "retire" ->
         Set(w, [pub[w] EXCEPT !.phase = "send", !.stage = "summary", !.doc = Summary(pub[w].scan), !.clock = 0])
    [] pub[w].stage = "summary" -> Set(w, [pub[w] EXCEPT !.phase = "probe", !.clock = 0])
    [] OTHER -> Set(w, [Idle EXCEPT !.phase = "done", !.scan = [pub[w].scan EXCEPT !.source = Absent, !.by = "nobody", !.parts = {}]])

(* updateRetirements(): the stored dashboard is read and written again     *)
(* without the retired tokens, at the time of the update; nothing is       *)
(* written if it shows none of them.                                       *)
Load(w) ==
  /\ pub[w].phase = "load"
  /\ \/ Proceed(w)
     \/ /\ root.rev < MaxRevision
        /\ \E t \in {t \in Readings : t >= pub[w].scan.gen}, kept \in SUBSET root.parts :
             Set(w, [pub[w] EXCEPT !.phase = "send",
                       !.doc = [root EXCEPT !.source = t, !.rev = @ + 1, !.parts = kept]])
  /\ UNCHANGED <<now, touched, root, refs, gc, reader>>

(* Which parts are there already (availableSqlRuntimeParts); a failed      *)
(* probe only costs uploads.                                               *)
Probe(w) ==
  /\ pub[w].phase = "probe"
  /\ \E found \in {pub[w].scan.parts \cap Present, {}} :
       Set(w, [pub[w] EXCEPT !.phase = "upload", !.todo = pub[w].scan.parts \ found, !.since = now])
  /\ UNCHANGED <<now, touched, root, refs, gc, reader>>

(* Variant: the expiry is stored in place of the time.                     *)
StampExpiry(t) == t + Grace
Stamp(t) == t

(* One part: inserted, or touched again.  A lost answer is retried.        *)
Upload(w) ==
  /\ pub[w].phase = "upload"
  /\ \E p \in pub[w].todo, t \in Readings :
       /\ t >= pub[w].since
       /\ touched' = [touched EXCEPT ![p] = Stamp(t)]
       /\ \/ Set(w, [pub[w] EXCEPT !.todo = @ \ {p}, !.sent = @ \cup {p}])
          \/ UNCHANGED pub
  /\ UNCHANGED <<now, root, refs, gc, reader>>

Uploaded(w) ==
  /\ pub[w].phase = "upload" /\ pub[w].todo = {}
  /\ Set(w, [pub[w] EXCEPT !.phase = "send", !.stage = "complete", !.doc = pub[w].scan])
  /\ UNCHANGED <<now, touched, root, refs, gc, reader>>

(* A dashboard is stored without the tokens that are retired by then.      *)
Guarded(doc) == IF Retirement THEN {[doc EXCEPT !.parts = kept] : kept \in SUBSET doc.parts} ELSE {doc}

(* writeSqlRuntime() looks at the stored row first: the same payload is    *)
(* acknowledged at once.                                                   *)
Compare(w) ==
  /\ pub[w].phase = "send"
  /\ \E doc \in Guarded(pub[w].doc) :
       IF root = doc THEN Proceed(w)
       ELSE Set(w, [pub[w] EXCEPT !.phase = "commit", !.doc = doc, !.clock = now])
  /\ UNCHANGED <<now, touched, root, refs, gc, reader>>

(* Variant: the parts are not looked for in the transaction.               *)
CompleteUnchecked(doc) == TRUE
Complete(doc) == doc.parts \subseteq Present

(* Variant: the parts that leave get no new grace.                         *)
RetouchNothing(gone, t) == touched
Retouch(gone, t) == [p \in Parts |-> IF p \in gone THEN t ELSE touched[p]]

(* The commit batch: the manifest replaces an older one if every part is   *)
(* there; the parts that leave get a new grace, the references follow.     *)
Commit(w) ==
  LET doc == pub[w].doc IN
  /\ pub[w].phase = "commit" /\ now <= pub[w].clock + Latency
  /\ IF Complete(doc) /\ Supersedes(doc, root)
     THEN /\ root' = doc
          /\ touched' = Retouch(refs \ doc.parts, pub[w].clock)
          /\ refs' = doc.parts
     ELSE UNCHANGED <<root, touched, refs>>
  /\ Set(w, [pub[w] EXCEPT !.phase = "reply", !.clock = 0])
  /\ UNCHANGED <<now, gc, reader>>

(* Variant: whatever is read back is taken for an answer.                  *)
AcknowledgedAlways(doc) == TRUE
(* A dashboard that is not stored may be stale, if it is not newer than    *)
(* the stored one (its parts are missing then); a checkpoint must be there.*)
Acknowledged(doc) == root = doc \/ (Kind = "dashboard" /\ ~Newer(doc, root))

(* The stored row is read back.                                            *)
Reply(w) ==
  /\ pub[w].phase = "reply"
  /\ IF Acknowledged(pub[w].doc) THEN Proceed(w) ELSE Set(w, Idle)
  /\ UNCHANGED <<now, touched, root, refs, gc, reader>>

(* A request failed, or its answer was lost: it is sent again.             *)
Retry(w) ==
  /\ pub[w].phase \in {"commit", "reply"} /\ pub[w].stage # "retire"
  /\ Set(w, [pub[w] EXCEPT !.phase = "send", !.clock = 0])
  /\ UNCHANGED <<now, touched, root, refs, gc, reader>>

(* A publication runs out of time, fails, or is killed.                    *)
Abandon(w) ==
  /\ pub[w].phase \notin {"idle", "done"}
  /\ Set(w, Idle)
  /\ UNCHANGED <<now, touched, root, refs, gc, reader>>

-----------------------------------------------------------------------------
(* The collector: a page of old unreferenced rows is selected, and then    *)
(* deleted if nothing about them has changed.                              *)
Eligible(cutoff) == {p \in Present \ refs : touched[p] < cutoff}

Select ==
  /\ gc.phase = "idle"
  /\ now >= Grace
  /\ \E t \in Readings :
       /\ Eligible(t - Grace) # {}
       /\ gc' = [phase |-> "page", cutoff |-> t - Grace,
                 page |-> {[part |-> p, at |-> touched[p]] : p \in Eligible(t - Grace)}]
  /\ UNCHANGED <<now, touched, root, refs, pub, reader>>

Deleted == {row.part : row \in {row \in gc.page : row.part \in Eligible(gc.cutoff) /\ touched[row.part] = row.at}}

Delete ==
  /\ gc.phase = "page"
  /\ touched' = [p \in Parts |-> IF p \in Deleted THEN Absent ELSE touched[p]]
  /\ gc' = [phase |-> "idle", cutoff |-> 0, page |-> {}]
  /\ UNCHANGED <<now, root, refs, pub, reader>>

-----------------------------------------------------------------------------
(* A restore reads the manifest, then its parts one by one; a part that is *)
(* missing ends it.                                                        *)
ReadRoot(r) ==
  /\ reader[r].phase = "idle" /\ root.parts # {}
  /\ reader' = [reader EXCEPT ![r] = [phase |-> "reading", todo |-> root.parts, at |-> now]]
  /\ UNCHANGED <<now, touched, root, refs, pub, gc>>

ReadPart(r) ==
  /\ reader[r].phase = "reading"
  /\ \E p \in reader[r].todo :
       LET rest == reader[r].todo \ {p} IN
       reader' = [reader EXCEPT ![r] =
         IF p \in Present /\ rest # {} THEN [phase |-> "reading", todo |-> rest, at |-> reader[r].at]
         ELSE [phase |-> "idle", todo |-> {}, at |-> 0]]
  /\ UNCHANGED <<now, touched, root, refs, pub, gc>>

Tick ==
  /\ now < MaxTime
  /\ now' = now + 1
  /\ UNCHANGED <<touched, root, refs, pub, gc, reader>>

Next ==
  \/ Tick \/ Select \/ Delete
  \/ \E w \in Publishers :
       \/ Build(w) \/ Repair(w) \/ Load(w) \/ Probe(w) \/ Upload(w) \/ Uploaded(w)
       \/ Compare(w) \/ Commit(w) \/ Reply(w) \/ Retry(w) \/ Abandon(w)
  \/ \E r \in Readers : ReadRoot(r) \/ ReadPart(r)

Spec == Init /\ [][Next]_vars

-----------------------------------------------------------------------------
(* Properties.                                                             *)

Doc ==
  [source : Int, rev : Nat, gen : Int, by : Publishers \cup {"nobody"}, parts : SUBSET Parts]

Pub ==
  [phase : {"idle", "load", "probe", "upload", "send", "commit", "reply", "done"},
   stage : {"retire", "summary", "complete"}, scan : Doc, doc : Doc,
   todo : SUBSET Parts, sent : SUBSET Parts, since : Nat, clock : Nat]

(* Every variable keeps its shape, and no row is touched in the future: a  *)
(* later touched_at would keep garbage beyond its grace.                   *)
TypeOK ==
  /\ now \in 0 .. MaxTime
  /\ touched \in [Parts -> Int]
  /\ \A p \in Parts : touched[p] \in Absent .. now
  /\ root \in Doc
  /\ refs \subseteq Parts
  /\ pub \in [Publishers -> Pub]
  /\ gc \in [phase : {"idle", "page"}, cutoff : Int, page : SUBSET [part : Parts, at : Int]]
  /\ reader \in [Readers -> [phase : {"idle", "reading"}, todo : SUBSET Parts, at : Nat]]

(* The stored manifest is complete: every part it names is stored, and is  *)
(* protected by a reference.                                               *)
ManifestComplete == refs = root.parts /\ root.parts \subseteq Present

(* A stored root is never replaced by an older source time or revision.    *)
NeverBack == [][~Newer(root, root')]_root

(* A restore that takes less than the grace finds every part of the        *)
(* manifest it has read, whatever is published meanwhile.                  *)
RestoreComplete ==
  \A r \in Readers : now - reader[r].at <= Grace - Latency => reader[r].todo \subseteq Present

(* A publication that ends without an error leaves its scan, or a later    *)
(* one, stored and complete: what is refused as stale is older than what   *)
(* is stored.                                                              *)
Later(d, c) == d.gen > c.gen \/ (d.gen = c.gen /\ d.rev >= c.rev)
Published == \A w \in Publishers : pub[w].phase = "done" => Later(root, pub[w].scan)
=============================================================================
