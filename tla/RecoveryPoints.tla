----------------------------- MODULE RecoveryPoints -----------------------------
(***************************************************************************)
(* The daily backups of the database (src/tools/storage_backup.py) and of  *)
(* the archive objects (src/tools/archive_backup.py) as releases of a      *)
(* private repository.                                                     *)
(*                                                                         *)
(* A backup copies its source while the source is written, uploads the     *)
(* copy and its manifest to a draft release, marks and publishes it, and   *)
(* then deletes the releases beyond those it keeps.  Every request may     *)
(* fail, or succeed with its reply lost.                                   *)
(*                                                                         *)
(* A part is a table read in one transaction, or an object of the          *)
(* inventory; its content is the number of its last change.                *)
(***************************************************************************)
EXTENDS Naturals, FiniteSets, FiniteSetsExt

CONSTANTS Parts, Keep,                    \* copies kept: 2 of the archive
          MaxRuns, MaxWrites, MaxFaults   \* bounds

Kinds == {"storage", "archive"}
Steps == {"idle", "read", "draft", "first", "second", "mark", "publish", "list", "prune", "discard"}
Assets == {"manifest", "body"}
Ids == 1..MaxRuns
Content == [Parts -> 0..MaxWrites]

VARIABLES kind,      \* the backup modelled
          source,    \* what the parts contain
          job,       \* the backup under way
          release,   \* the releases, by the run that drafted them
          tags,      \* releases whose tag exists
          late,      \* uploads that were given up and may still complete
          writes, runs, faults,
          made       \* backups that were published

vars == <<kind, source, job, release, tags, late, writes, runs, faults, made>>

NoRelease == [state |-> "none", marked |-> FALSE, assets |-> {}, whole |-> FALSE]
NoJob == [step |-> "idle", want |-> [p \in Parts |-> 0], copy |-> [p \in Parts |-> 0],
          todo |-> {}, live |-> FALSE, doomed |-> {}]

TypeOK ==
    /\ kind \in Kinds /\ source \in Content
    /\ job \in [step : Steps, want : Content, copy : Content, todo : SUBSET Parts,
                live : BOOLEAN, doomed : SUBSET Ids]
    /\ release \in [Ids -> [state : {"none", "draft", "published"}, marked : BOOLEAN,
                            assets : SUBSET Assets, whole : BOOLEAN]]
    /\ tags \subseteq Ids /\ late \subseteq Ids \X Assets
    /\ writes \in 0..MaxWrites /\ runs \in 0..MaxRuns /\ faults \in 0..MaxFaults
    /\ made \in 0..MaxRuns

Init ==
    /\ kind \in Kinds /\ source = [p \in Parts |-> 0] /\ job = NoJob
    /\ release = [i \in Ids |-> NoRelease] /\ tags = {} /\ late = {}
    /\ writes = 0 /\ runs = 0 /\ faults = 0 /\ made = 0

Store == <<release, tags, late, made>>
-----------------------------------------------------------------------------
\* The system goes on: a transaction of the database changes every part, a put
\* of the archive one object.
WriteSource ==
    /\ writes < MaxWrites /\ writes' = writes + 1
    /\ \E ps \in (IF kind = "storage" THEN {Parts} ELSE {{p} : p \in Parts}) :
         source' = [p \in Parts |-> IF p \in ps THEN writes + 1 ELSE source[p]]
    /\ UNCHANGED <<kind, job, Store, runs, faults>>

\* BEGIN and the schema, or the inventory with its etags.
Begin ==
    /\ job.step = "idle" /\ runs < MaxRuns
    /\ runs' = runs + 1
    /\ job' = [NoJob EXCEPT !.step = "read", !.want = source, !.todo = Parts, !.live = TRUE]
    /\ UNCHANGED <<kind, source, Store, writes, faults>>

\* The server ends the transaction of an idle stream; later statements of the
\* stream run outside it.
Expire ==
    /\ kind = "storage" /\ job.step = "read" /\ job.live
    /\ faults < MaxFaults /\ faults' = faults + 1
    /\ job' = [job EXCEPT !.live = FALSE]
    /\ UNCHANGED <<kind, source, Store, writes, runs>>

\* What the server reads, in the transaction or outside it.
Answer(p) == IF kind = "storage" /\ job.live THEN job.want[p] ELSE source[p]

\* The code refuses a read outside its transaction (get_autocommit) and an
\* object that is not the one of the inventory.
Expired == ~job.live
Changed(p) == source[p] # job.want[p]
Refused(p) == IF kind = "storage" THEN Expired ELSE Changed(p)

Read(p) ==
    /\ job.step = "read" /\ p \in job.todo
    /\ job' = IF Refused(p) THEN NoJob
              ELSE [job EXCEPT !.copy[p] = Answer(p), !.todo = @ \ {p},
                               !.step = IF job.todo = {p} THEN "draft" ELSE "read"]
    /\ UNCHANGED <<kind, source, Store, writes, runs, faults>>

-----------------------------------------------------------------------------
\* A request to the repository succeeds; fails; or succeeds unheard.  After a
\* failure a verified draft stays; an unverified one of the archive is deleted.
Failed(step) == IF kind = "archive" /\ step \in {"first", "second"}
                THEN [job EXCEPT !.step = "discard"] ELSE NoJob

Request(step, effect, same, go) ==
    /\ job.step = step
    /\ \/ effect /\ job' = go /\ UNCHANGED faults
       \/ faults < MaxFaults /\ faults' = faults + 1 /\ same /\ job' = Failed(step)
       \/ faults < MaxFaults /\ faults' = faults + 1 /\ effect /\ job' = Failed(step)
    /\ UNCHANGED <<kind, source, writes, runs>>

To(step) == [job EXCEPT !.step = step]

Draft ==
    /\ Request("draft",
         release' = [release EXCEPT ![runs] = [@ EXCEPT !.state = "draft", !.whole = job.copy = job.want]],
         UNCHANGED release, To("first"))
    /\ UNCHANGED <<tags, late, made>>

\* The storage backup uploads the manifest first, the archive backup last.
Asset(step) == IF (kind = "storage") = (step = "first") THEN "manifest" ELSE "body"

\* A reply without its digest, or lost, is settled by reading the assets; an
\* upload that is given up may still complete.
Upload(step) ==
    /\ job.step = step
    /\ LET done == [release EXCEPT ![runs].assets = @ \cup {Asset(step)}] IN
       \/ /\ release' = done /\ UNCHANGED late
          /\ job' = To(IF step = "first" THEN "second" ELSE "mark")
          /\ UNCHANGED faults
       \/ /\ faults < MaxFaults /\ faults' = faults + 1
          /\ \/ release' = done /\ UNCHANGED late
             \/ late' = late \cup {<<runs, Asset(step)>>} /\ UNCHANGED release
          /\ job' = Failed(step)
    /\ UNCHANGED <<kind, source, tags, made, writes, runs>>

UploadLands(i, a) ==
    /\ <<i, a>> \in late
    /\ late' = late \ {<<i, a>>}
    /\ release' = IF release[i].state = "none" THEN release
                  ELSE [release EXCEPT ![i].assets = @ \cup {a}]
    /\ UNCHANGED <<kind, source, job, tags, writes, runs, faults, made>>

\* The draft's text becomes the marker once both uploads are verified.
Mark ==
    /\ Request("mark", release' = [release EXCEPT ![runs].marked = TRUE], UNCHANGED release, To("publish"))
    /\ UNCHANGED <<tags, late, made>>

Publish ==
    /\ Request("publish",
         release' = [release EXCEPT ![runs].state = "published"] /\ tags' = tags \cup {runs} /\ made' = made + 1,
         UNCHANGED <<release, tags, made>>, To("list"))
    /\ UNCHANGED late

\* Mutant: every release of the tool is counted, its text unread.
OwnedByTag == {i \in Ids : release[i].state # "none"}

\* owned_releases: a marked draft counts for the database, not for the archive.
Owned == {i \in Ids : release[i].marked /\ (release[i].state = "published" \/ kind = "storage")}

\* The new release and the newest others, up to Keep of them.
Preserved == {i \in Owned : i = runs \/ Cardinality({j \in Owned : j > i \/ j = runs}) < Keep}

List ==
    /\ Request("list", UNCHANGED release, UNCHANGED release,
         IF runs \in Owned THEN [job EXCEPT !.step = "prune", !.doomed = Owned \ Preserved] ELSE NoJob)
    /\ UNCHANGED <<tags, late, made>>

\* The release is deleted, then its tag; a draft has none and the request for it
\* fails.
Prune ==
    /\ IF job.doomed = {} THEN job.step = "prune" /\ job' = NoJob /\ UNCHANGED <<Store, kind, source, writes, runs, faults>>
       ELSE LET i == Max(job.doomed) IN
            /\ Request("prune",
                 release' = [release EXCEPT ![i] = NoRelease] /\ tags' = tags \ {i},
                 \/ UNCHANGED <<release, tags>>
                 \/ release' = [release EXCEPT ![i] = NoRelease] /\ UNCHANGED tags,
                 IF i \in tags THEN [job EXCEPT !.doomed = @ \ {i}] ELSE NoJob)
            /\ UNCHANGED <<late, made>>

\* The archive backup deletes its own draft; it fails quietly.
Discard ==
    /\ job.step = "discard"
    /\ \/ release' = [release EXCEPT ![runs] = NoRelease] /\ UNCHANGED faults
       \/ faults < MaxFaults /\ faults' = faults + 1 /\ UNCHANGED release
    /\ job' = NoJob
    /\ UNCHANGED <<kind, source, tags, late, writes, runs, made>>

\* The runner is lost or its time is over.
Stop ==
    /\ job.step # "idle" /\ faults < MaxFaults /\ faults' = faults + 1
    /\ job' = NoJob
    /\ UNCHANGED <<kind, source, Store, writes, runs>>

Next ==
    \/ WriteSource \/ Begin \/ Expire \/ Draft \/ Mark \/ Publish \/ List \/ Prune
    \/ Discard \/ Stop
    \/ \E p \in Parts : Read(p)
    \/ \E s \in {"first", "second"} : Upload(s)
    \/ \E i \in Ids, a \in Assets : UploadLands(i, a)

Spec == Init /\ [][Next]_vars

-----------------------------------------------------------------------------
Recoverable == {i \in Owned : release[i].assets = Assets /\ release[i].whole}

\* However backups fail, and whatever is written meanwhile, as many whole copies
\* of one instant are kept as were published, up to Keep: a failed or unfinished
\* release never takes the place of one of them (publish, prune).
PointsSurvive == Cardinality(Recoverable) >= Min({Keep, made})
===============================================================================
