------------------------------ MODULE PoolHistory ------------------------------
(***************************************************************************)
(* The transaction history of one pool (src/pool_history.py,               *)
(* src/gmgn_discovery.py and the scan_pool functions of src/scanner.py, in *)
(* the attention mode of config.example.json).                             *)
(*                                                                         *)
(* A scan reads the newest transactions page by page from an indexed       *)
(* provider (the head), notes which seconds it has read in full (covered), *)
(* lists the others as tasks with their own bounds and cursors, and reads  *)
(* on at one task.  The other route reads signatures and then single       *)
(* transactions, with gaps of its own.  A scan that meets an error takes   *)
(* the history back to where it was.                                       *)
(*                                                                         *)
(* The chain is a sequence of block times; a transaction is its position.  *)
(* The window is anchored at second 1.                                     *)
(***************************************************************************)
EXTENDS Naturals, Sequences, FiniteSets, SequencesExt, FiniteSetsExt

CONSTANTS MaxTime, MaxTxs, MaxScans, MaxFaults,   \* bounds
          PageSize,    \* transactions of a page
          HeadPages,   \* pages of a head read
          RepairPages, \* pages of a task's read
          Overlap,     \* seconds below the last head that are read again
          SigLimit     \* signatures of a page

VARIABLES chain,   \* block time of each transaction
          now,
          doubt,   \* history: late transactions, the seconds reads were cut in, and
                   \* undecoded transactions whose scan did not go back
          pool,    \* the history in the pool's state
          saved,   \* the pool's state when the scan began
          job,     \* the scan of the pool
          scans, faults

vars == <<chain, now, doubt, pool, saved, job, scans, faults>>

Ids == 1..Len(chain)
Seconds == 1..MaxTime

Task == [from : Seconds, to : Seconds, rem : Seconds, cursor : 0..MaxTxs]
Fresh(a, b) == [from |-> a, to |-> b, rem |-> b, cursor |-> 0]
Gap == [head : 1..MaxTxs, before : 1..MaxTxs, stop : 0..MaxTxs, time : Seconds]
Pool == [covered : SUBSET Seconds, tasks : Seq(Task), head : 0..MaxTime,
         liveFrom : Seconds, known : SUBSET (1..MaxTxs), latest : 0..MaxTxs,
         gaps : Seq(Gap), wave : SUBSET (1..MaxTxs)]
NewPool == [covered |-> {}, tasks |-> <<>>, head |-> 0, liveFrom |-> 1, known |-> {},
            latest |-> 0, gaps |-> <<>>, wave |-> {}]

Job == [at : {"idle", "head", "repair", "verify", "parse", "final", "signatures"},
        deep : BOOLEAN, read : Task, rest : Seq(Task),
        pages : 0..(HeadPages + RepairPages), failed : 0..1, got : SUBSET (1..MaxTxs),
        covered : SUBSET Seconds, observed : 0..MaxTime, from : Seconds,
        bad : 0..MaxTxs, error : BOOLEAN]
NoJob == [at |-> "idle", deep |-> FALSE, read |-> Fresh(1, 1),
          rest |-> <<>>, pages |-> 0, failed |-> 0, got |-> {}, covered |-> {},
          observed |-> 0, from |-> 1, bad |-> 0, error |-> FALSE]

TypeOK ==
    /\ chain \in Seq(Seconds) /\ Len(chain) <= MaxTxs
    /\ now \in Seconds
    /\ doubt \in [late : SUBSET (1..MaxTxs), cut : SUBSET Seconds, lost : SUBSET (1..MaxTxs)]
    /\ pool \in Pool /\ saved \in Pool /\ job \in Job
    /\ scans \in 0..MaxScans /\ faults \in 0..MaxFaults

Init ==
    /\ chain = <<>> /\ now = 1 /\ doubt = [late |-> {}, cut |-> {}, lost |-> {}]
    /\ pool = NewPool /\ saved = NewPool /\ job = NoJob
    /\ scans = 0 /\ faults = 0

-----------------------------------------------------------------------------
(* Ranges and tasks: missing_ranges and reconcile_tasks *)

\* The runs of lo..hi that are not covered, in order.
Missing(covered, lo, hi) ==
    LET out == (lo..hi) \ covered
        End(s) == Max({e \in out : s <= e /\ s..e \subseteq out})
    IN  [i \in 1..Cardinality({s \in out : s - 1 \notin out}) |->
           LET s == SetToSortSeq({x \in out : x - 1 \notin out}, <)[i]
           IN  <<s, End(s)>>]

\* The tasks that lie within a run keep their cursors; what is left of the run
\* becomes fresh tasks.
Fitted(tasks, run) ==
    LET Step(acc, t) ==
            IF t.from < acc.lower \/ t.rem > run[2] \/ t.rem < t.from THEN acc
            ELSE [lower |-> t.rem + 1,
                  out |-> acc.out \o (IF acc.lower < t.from THEN <<Fresh(acc.lower, t.from - 1)>>
                                      ELSE <<>>) \o <<t>>]
        order == SetToSortSeq(DOMAIN tasks, LAMBDA i, j :
                    tasks[i].from < tasks[j].from \/ (tasks[i].from = tasks[j].from /\ i < j))
        all == FoldLeft(Step, [lower |-> run[1], out |-> <<>>],
                        [i \in DOMAIN order |-> tasks[order[i]]])
    IN  all.out \o (IF all.lower <= run[2] THEN <<Fresh(all.lower, run[2])>> ELSE <<>>)

Reconciled(tasks, covered, hi) ==
    LET runs == Missing(covered, 1, hi)
    IN  FlattenSeq([i \in DOMAIN runs |-> Fitted(tasks, runs[i])])

-----------------------------------------------------------------------------
(* Time and the chain *)

\* A read has a frozen upper bound, so a second that begins during it is as
\* good as one that begins after it.
Tick ==
    /\ now < MaxTime /\ job.at \in {"idle", "signatures"}
    /\ now' = now + 1
    /\ UNCHANGED <<chain, doubt, pool, saved, job, scans, faults>>

\* A transaction lands in the current second, which a scan may have read
\* already: a second goes on after it was read.
Land ==
    /\ Len(chain) < MaxTxs
    /\ chain' = Append(chain, now)
    /\ doubt' = IF now > Max({pool.head, job.observed}) THEN doubt
                ELSE [doubt EXCEPT !.late = @ \cup {Len(chain')}]
    /\ UNCHANGED <<now, pool, saved, job, scans, faults>>

-----------------------------------------------------------------------------
(* The read of a range, page by page: read_range *)

Reads == job.at \in {"head", "repair"}
Page(t) == LET ids == {i \in Ids : t.from <= chain[i] /\ chain[i] <= t.to
                                   /\ (t.cursor = 0 \/ i < t.cursor)}
           IN  {i \in ids : Cardinality({j \in ids : j > i}) < PageSize}
Beyond(t, batch) == \E i \in Ids : /\ t.from <= chain[i] /\ chain[i] <= t.to
                                   /\ (t.cursor = 0 \/ i < t.cursor)
                                   /\ i \notin batch

\* The read is over: what is unread of the task stays a task, and the tasks
\* are reconciled with what is covered.  The sweep over all pools reads heads
\* alone; a pool that it could not prepare is read whole.
Ended(got, covered, pending) ==
    \E at \in {"repair", "verify"} :
        /\ job.at = "repair" => at = "verify"
        /\ job' = [job EXCEPT !.got = got, !.covered = covered, !.pages = 0, !.failed = 0,
                       !.rest = Reconciled(job.rest \o pending, covered, job.observed),
                       !.at = at, !.read = Fresh(1, 1)]
        /\ doubt' = [doubt EXCEPT !.cut = @ \cup UNION {t.from..t.rem : t \in ToSet(pending)}]

\* A page with a next cursor covers the seconds above its oldest one.  A
\* provider may announce a next page that turns out empty: the cursor has
\* stalled, and the unread seconds are asked again.
ReadPage ==
    /\ Reads /\ job.pages > 0
    /\ LET t == job.read
           batch == Page(t)
           got == job.got \cup batch
       IN  \E more \in {Beyond(t, batch), TRUE} :
             IF ~more THEN Ended(got, job.covered \cup (t.from..t.to), <<>>)
             ELSE IF batch = {} THEN Ended(got, job.covered, <<[t EXCEPT !.to = t.rem, !.cursor = 0]>>)
             ELSE LET oldest == chain[Min(batch)]
                      covered == job.covered \cup ((oldest + 1)..t.rem)
                      next == [t EXCEPT !.rem = Min({oldest, t.rem}), !.cursor = Min(batch)]
                  IN  IF job.pages = 1 THEN Ended(got, covered, <<next>>)
                      ELSE /\ job' = [job EXCEPT !.got = got, !.covered = covered,
                                                 !.read = next, !.pages = @ - 1]
                           /\ UNCHANGED doubt
    /\ UNCHANGED <<chain, now, pool, saved, scans, faults>>

\* A provider fails: another one starts at the unread seconds, without the
\* cursor; when there is none the read ends.  A head that read nothing at all
\* raises: nothing is kept of the scan.
PageFails ==
    /\ Reads /\ job.pages > 0
    /\ faults < MaxFaults /\ faults' = faults + 1
    /\ \/ /\ job.failed = 0
          /\ job' = [job EXCEPT !.failed = 1, !.read.cursor = 0, !.read.to = job.read.rem]
          /\ UNCHANGED doubt
       \/ IF job.at = "head" /\ job.pages = HeadPages
          THEN UNCHANGED doubt /\ \E at \in {"idle", "signatures"} : job' = [NoJob EXCEPT !.at = at]
          ELSE Ended(job.got, job.covered, <<job.read>>)
    /\ UNCHANGED <<chain, now, pool, saved, scans>>

-----------------------------------------------------------------------------
(* One fetch: collect_history and its verification *)

\* The head is read from the last observed second less the overlap.
StartHead ==
    /\ job.at = "idle" /\ scans < MaxScans
    /\ LET from == IF pool.head = 0 THEN 1
                   ELSE Max({1, IF pool.head > Overlap THEN pool.head - Overlap ELSE 1})
       IN  job' = [NoJob EXCEPT !.at = "head", !.read = Fresh(from, now), !.pages = HeadPages,
                     !.from = from, !.observed = now, !.covered = pool.covered, !.rest = pool.tasks]
    /\ saved' = pool
    /\ scans' = scans + 1
    /\ UNCHANGED <<chain, now, doubt, pool, faults>>

\* One task is chosen: one that meets the purchase window (any, here), or the
\* fresh window, or the oldest; it is clipped to that window, and a provider
\* other than the cursor's starts without it.
StartRepair ==
    /\ job.at = "repair" /\ job.pages = 0
    /\ IF job.rest = <<>> THEN job' = [job EXCEPT !.at = "verify"]
       ELSE \E i \in DOMAIN job.rest, window \in {<<job.from, job.observed>>} \cup {<<s, s>> : s \in Seconds},
               handoff \in BOOLEAN :
              LET t == job.rest[i]
                  meets == t.from <= window[2] /\ t.rem >= window[1]
                  lo == IF meets THEN Max({t.from, window[1]}) ELSE t.from
                  hi == IF meets THEN Min({t.rem, window[2]}) ELSE t.rem
                  clipped == IF lo = t.from /\ hi = t.rem THEN t ELSE Fresh(lo, hi)
              IN  /\ meets \/ i = 1
                  /\ job' = [job EXCEPT
                       !.read = IF handoff THEN [clipped EXCEPT !.cursor = 0, !.to = clipped.rem]
                                ELSE clipped,
                       !.rest = RemoveAt(job.rest, i), !.pages = RepairPages]
    /\ UNCHANGED <<chain, now, doubt, pool, saved, scans, faults>>

Kept == [pool EXCEPT !.covered = job.covered, !.tasks = job.rest,
                     !.head = job.observed, !.liveFrom = job.from]

\* The head agrees with the standard RPC head, or is fresh enough.
VerifyOk ==
    /\ job.at = "verify"
    /\ pool' = Kept
    /\ job' = [job EXCEPT !.at = IF job.deep THEN "final" ELSE "parse"]
    /\ UNCHANGED <<chain, now, doubt, saved, scans, faults>>

\* It cannot be verified, or is stale: the fetch is not kept, and the scan
\* ends as an error.
VerifyFails ==
    /\ job.at = "verify" /\ faults < MaxFaults
    /\ job' = [job EXCEPT !.at = IF job.deep THEN "final" ELSE "parse", !.error = TRUE]
    /\ faults' = faults + 1
    /\ UNCHANGED <<chain, now, doubt, pool, saved, scans>>

\* It lags the standard head: the signatures are read instead, or, in the
\* sweep, the pool counts as not prepared.
VerifyLags ==
    /\ job.at = "verify" /\ faults < MaxFaults
    /\ \E at \in {"idle", "signatures"} :
         /\ at = "idle" => ~job.deep
         /\ job' = [NoJob EXCEPT !.at = at, !.bad = job.bad]
         /\ doubt' = IF job.deep THEN [doubt EXCEPT !.lost = @ \cup ({job.bad} \ {0})] ELSE doubt
    /\ faults' = faults + 1
    /\ UNCHANGED <<chain, now, pool, saved, scans>>

-----------------------------------------------------------------------------
(* The analysis: scan_pool_helius_transactions under scan_pool *)

Unknown == job.got \ pool.known

\* One transaction of a set may not decode, the same throughout a scan.
Undecoded(ids, bad) ==
    IF job.bad # 0 THEN bad = job.bad /\ UNCHANGED faults
    ELSE \/ bad = 0 /\ UNCHANGED faults
         \/ bad \in ids /\ faults < MaxFaults /\ faults' = faults + 1

\* The probe's trades join the buffer; while history is pending one task is
\* read on, with the head just read.
ParseProbe ==
    /\ job.at = "parse"
    /\ \E bad \in 0..MaxTxs :
         /\ Undecoded(Unknown, bad)
         /\ pool' = [pool EXCEPT !.wave = @ \cup (Unknown \ {bad})]
         /\ job' = IF pool.tasks = <<>> THEN [job EXCEPT !.at = "final", !.bad = bad]
                   ELSE [job EXCEPT !.at = "repair", !.deep = TRUE, !.got = Unknown, !.bad = bad,
                                    !.covered = pool.covered, !.rest = pool.tasks,
                                    !.observed = Max({1, pool.head}), !.from = pool.liveFrom]
    /\ UNCHANGED <<chain, now, doubt, saved, scans>>

\* The history goes back to where the scan found it; the trades stay.
Restored(wave) == [saved EXCEPT !.wave = wave]
Finish(p) == pool' = p /\ job' = NoJob /\ saved' = p

\* Mutant: the cursors stay where they are after a decode error.
FinalUnrestored ==
    /\ job.at = "final"
    /\ \E bad \in 0..MaxTxs :
         LET wave == pool.wave \cup (Unknown \ {bad})
             truncated == \E s \in pool.liveFrom..pool.head : s \notin pool.covered
         IN  /\ Undecoded(Unknown, bad)
             /\ IF job.error THEN Finish(Restored(wave))
                ELSE Finish([pool EXCEPT !.wave = wave, !.known = @ \cup Unknown,
                       !.gaps = IF pool.tasks = <<>> THEN <<>> ELSE @,
                       !.latest = IF truncated \/ Unknown = {} THEN @ ELSE Max(Unknown)])
    /\ UNCHANGED <<chain, now, doubt, scans>>

\* Everything read is parsed and remembered; the newest transaction becomes
\* the checkpoint unless the fresh window has a hole.
Final ==
    /\ job.at = "final"
    /\ \E bad \in 0..MaxTxs :
         LET wave == pool.wave \cup (Unknown \ {bad})
             truncated == \E s \in pool.liveFrom..pool.head : s \notin pool.covered
         IN  /\ Undecoded(Unknown, bad)
             /\ IF job.error \/ bad \in Unknown THEN Finish(Restored(wave))
                ELSE Finish([pool EXCEPT !.wave = wave, !.known = @ \cup Unknown,
                       !.gaps = IF pool.tasks = <<>> THEN <<>> ELSE @,
                       !.latest = IF truncated \/ Unknown = {} THEN @ ELSE Max(Unknown)])
    /\ UNCHANGED <<chain, now, doubt, scans>>

-----------------------------------------------------------------------------
(* The signature route: collect_signature_ranges, scan_pool_signatures *)

\* A quiet pool, or one without an indexed provider, is read by signatures.
StartSignatures ==
    /\ job.at = "idle" /\ scans < MaxScans
    /\ job' = [NoJob EXCEPT !.at = "signatures"]
    /\ saved' = pool
    /\ scans' = scans + 1
    /\ UNCHANGED <<chain, now, doubt, pool, faults>>

\* The newest signatures below a position, at most a page of them.
Signatures(before) == {i \in Ids : i < before /\ i >= before - SigLimit}
Complete(batch, stop, time) ==
    \/ Cardinality(batch) < SigLimit
    \/ stop \in batch
    \/ \E i \in batch : chain[i] <= time

\* The end of the covered run that begins at the anchor.
CompleteTo == IF 1 \in pool.covered THEN Max({s \in pool.covered : 1..s \subseteq pool.covered}) ELSE 1
Cutoff == IF CompleteTo > Overlap THEN CompleteTo - Overlap ELSE 1

\* Head page and one page of the oldest gap, in one view of the chain.
SignatureRanges ==
    LET head == Signatures(Len(chain) + 1)
        done == Complete(head, pool.latest, Cutoff)
        top == Len(chain)
        gaps == IF done \/ head = {} \/ \E i \in DOMAIN pool.gaps : pool.gaps[i].head = top THEN pool.gaps
                ELSE Append(pool.gaps, [head |-> top, before |-> Min(head),
                                        stop |-> pool.latest, time |-> Cutoff])
        rows == {i \in head : i > pool.latest \/ pool.latest \notin head}
        gap == gaps[1]
        batch == Signatures(gap.before)
        tail == {i \in batch : (gap.stop \notin batch \/ i > gap.stop) /\ chain[i] >= gap.time}
        closed == Complete(batch, gap.stop, gap.time)
    IN  IF gaps = <<>>
        THEN [rows |-> rows, gaps |-> gaps, complete |-> done]
        ELSE [rows |-> rows \cup tail,
              gaps |-> IF closed THEN Tail(gaps)
                       ELSE IF batch = {} THEN gaps ELSE [gaps EXCEPT ![1].before = Min(batch)],
              complete |-> closed /\ Len(gaps) = 1 /\ (done \/ gap.head = top)]

\* Every new transaction is fetched and parsed, or the history goes back.
ScanSignatures ==
    /\ job.at = "signatures"
    /\ \E bad \in 0..MaxTxs :
         LET r == SignatureRanges
             new == (r.rows \ pool.known) \ {pool.latest}
             wave == pool.wave \cup (new \ {bad})
         IN  /\ Undecoded(new, bad)
             /\ IF bad \in new THEN Finish(Restored(wave))
                ELSE Finish([pool EXCEPT !.wave = wave, !.gaps = r.gaps, !.known = @ \cup new,
                       !.latest = IF r.complete /\ chain # <<>> THEN Len(chain) ELSE @])
    /\ UNCHANGED <<chain, now, doubt, scans>>

\* The job ends without a save.
Die ==
    /\ job.at # "idle" /\ faults < MaxFaults
    /\ pool' = saved /\ job' = NoJob
    /\ faults' = faults + 1
    /\ UNCHANGED <<chain, now, doubt, saved, scans>>

Next ==
    \/ Tick \/ Land \/ StartHead \/ ReadPage \/ PageFails \/ StartRepair
    \/ VerifyOk \/ VerifyFails \/ VerifyLags \/ ParseProbe \/ Final
    \/ StartSignatures \/ ScanSignatures \/ Die

Spec == Init /\ [][Next]_vars

-----------------------------------------------------------------------------
\* A transaction of a covered second, below the newest one observed, that was
\* never parsed.
Unparsed(i) == chain[i] \in pool.covered /\ chain[i] < pool.head /\ i \notin pool.wave

\* A second that counts as covered has had its transactions parsed, whatever pages,
\* providers, cursors and errors it was read through.  Two kinds are exempt: one that
\* landed when its second was being read already, if a read was cut in that second;
\* and one that a probe could not decode in a scan that went on by signatures
\* (collect_history, scan_pool's restore).
CoveredIsParsed ==
    job.at = "idle" =>
        \A i \in Ids : Unparsed(i) => i \in doubt.lost \/ (i \in doubt.late /\ chain[i] \in doubt.cut)

\* README.md:427-432: "New passes request only the observed-head delta with a
\* 30-second deduplicated overlap ... reaching a new head cannot close an old hole".
\* A transaction that landed late is read with the overlap, or its second is not
\* covered, before the overlap has passed it (collect_history, reconcile_tasks).
OverlapIsRead ==
    job.at = "idle" => \A i \in Ids : Unparsed(i) /\ chain[i] + Overlap < pool.head => i \in doubt.lost

\* README.md:422: "Parser failures never advance the history checkpoint": a
\* transaction that did not decode leaves its second uncovered (scan_pool's restore).
FailuresHoldBack ==
    job.at = "idle" => \A i \in Ids : Unparsed(i) => i \in doubt.late
===============================================================================
