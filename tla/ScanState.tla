------------------------------- MODULE ScanState -------------------------------
(***************************************************************************)
(* The scanner's state from one job to the next (src/scanner.py,           *)
(* src/runtime_checkpoint.py, src/tools/runtime_cache.py and               *)
(* src/tools/recover_storage.py).                                          *)
(*                                                                         *)
(* A job restores the cached state file, takes the durable checkpoint      *)
(* instead when that is newer, works on the state in memory, saves the     *)
(* file under a new revision and uploads it as the checkpoint, and         *)
(* publishes a report.  A failure takes the failed-attempt path, which     *)
(* saves as well.  At the end of the job the workflow saves the file in    *)
(* the cache unless it has moved backward.                                 *)
(*                                                                         *)
(* What a state holds is abstracted to the set of jobs whose work it       *)
(* contains and to the date of the deep scan it names.                     *)
(***************************************************************************)
EXTENDS Naturals, FiniteSets

CONSTANTS MaxJobs, MaxFaults   \* bounds

VARIABLES file,     \* state.json on the runner
          cache,    \* the state.json the workflow cached last
          remote,   \* the durable deep checkpoint
          report,   \* the published report
          job,      \* the job that holds the writer lock
          jobs,     \* jobs started so far; the clock
          faults,   \* lost machines, caches, requests so far
          saved     \* jobs that have saved their work and come to their end

vars == <<file, cache, remote, report, job, jobs, faults, saved>>

\* A job's number is its time: jobs follow one another.
Times == 0..MaxJobs
\* A job makes at most three revisions: the retirement watch, the save of its
\* end and the failed attempt.
State == [rev : 0..(3 * MaxJobs), at : Times, deep : Times, work : SUBSET (1..MaxJobs)]
Empty == [rev |-> 0, at |-> 0, deep |-> 0, work |-> {}]

Phases == {"idle", "restored", "loaded", "scanned", "saved", "ending"}
Job == [kind : {"none", "deep", "targeted", "recovery"}, phase : Phases,
        mem : State, base : State]
NoJob == [kind |-> "none", phase |-> "idle", mem |-> Empty, base |-> Empty]

TypeOK ==
    /\ file \in State /\ cache \in State /\ remote \in State
    /\ report \in [deep : Times, gen : Times]
    /\ job \in Job
    /\ jobs \in 0..MaxJobs
    /\ faults \in 0..MaxFaults
    /\ saved \subseteq 1..MaxJobs

Init ==
    /\ file = Empty /\ cache = Empty /\ remote = Empty
    /\ report = [deep |-> 0, gen |-> 0]
    /\ job = NoJob
    /\ jobs = 0 /\ faults = 0
    /\ saved = {}

-----------------------------------------------------------------------------
\* The checkpoint is compared by time, then revision.
Newer(a, b) == a.at > b.at \/ (a.at = b.at /\ a.rev > b.rev)

\* The file is compared by revision, then time (StaleStateRevisionError).
Stale(mem) == file.rev > mem.rev \/ (file.rev = mem.rev /\ file.rev > 0 /\ file.at > mem.at)

Revised(mem) ==
    [mem EXCEPT !.rev = (IF @ > file.rev THEN @ ELSE file.rev) + 1, !.at = jobs]

\* sync_runtime_checkpoint: the Worker refuses what is not newer, and an
\* upload that fails leaves the previous checkpoint.
Upload(s) ==
    \/ remote' = (IF Newer(s, remote) THEN s ELSE remote) /\ UNCHANGED faults
    \/ faults < MaxFaults /\ faults' = faults + 1 /\ UNCHANGED remote

-----------------------------------------------------------------------------
\* The workflow starts a job; the cache may not be there to restore.
Start(kind) ==
    /\ job.kind = "none" /\ jobs < MaxJobs
    /\ \/ file' = cache /\ UNCHANGED faults
       \/ faults < MaxFaults /\ faults' = faults + 1 /\ file' = Empty
    /\ job' = [NoJob EXCEPT !.kind = kind, !.phase = "restored", !.base = file']
    /\ jobs' = jobs + 1
    /\ UNCHANGED <<cache, remote, report, saved>>

\* Mutant: the checkpoint is taken whenever it can be read.
LoadRemote ==
    /\ job.kind \in {"deep", "targeted"} /\ job.phase = "restored"
    /\ job' = [job EXCEPT !.phase = "loaded",
                          !.mem = IF remote.rev > 0 THEN remote ELSE file]
    /\ UNCHANGED <<file, cache, remote, report, jobs, faults, saved>>

\* Mutant: it is taken only when there is no file.
LoadMissing ==
    /\ job.kind \in {"deep", "targeted"} /\ job.phase = "restored"
    /\ job' = [job EXCEPT !.phase = "loaded",
                          !.mem = IF file.rev = 0 THEN remote ELSE file]
    /\ UNCHANGED <<file, cache, remote, report, jobs, faults, saved>>

\* A checkpoint that cannot be read leaves the state of the file.
Load ==
    /\ job.kind \in {"deep", "targeted"} /\ job.phase = "restored"
    /\ \/ /\ job' = [job EXCEPT !.phase = "loaded",
                                !.mem = IF Newer(remote, file) THEN remote ELSE file]
          /\ UNCHANGED faults
       \/ /\ faults < MaxFaults /\ faults' = faults + 1
          /\ job' = [job EXCEPT !.phase = "loaded", !.mem = file]
    /\ UNCHANGED <<file, cache, remote, report, jobs, saved>>

\* A changed low-cap watch is saved at once, to the file only.
SaveWatch ==
    /\ job.phase = "loaded" /\ job.mem.rev = job.base.rev
    /\ ~Stale(job.mem)
    /\ file' = Revised(job.mem)
    /\ job' = [job EXCEPT !.mem = file']
    /\ UNCHANGED <<cache, remote, report, jobs, faults, saved>>

\* The lanes are scanned; a deep scan dates itself before the steps that
\* follow: histories, outcomes, evaluation and the save.
Scan ==
    /\ job.phase = "loaded"
    /\ job' = [job EXCEPT !.phase = "scanned", !.mem.work = @ \cup {jobs},
                          !.mem.deep = IF job.kind = "deep" THEN jobs ELSE @]
    /\ UNCHANGED <<file, cache, remote, report, jobs, faults, saved>>

SaveState ==
    /\ job.phase = "scanned"
    /\ ~Stale(job.mem)
    /\ file' = Revised(job.mem)
    /\ job' = [job EXCEPT !.phase = "saved", !.mem = file']
    /\ Upload(file')
    /\ UNCHANGED <<cache, report, jobs, saved>>

\* The report goes out with the dates of the state; an idle targeted pass has
\* none, and an upload that is refused or lost leaves the previous one.
Report ==
    /\ job.phase = "saved"
    /\ \/ report' = [deep |-> job.mem.deep, gen |-> jobs]
       \/ UNCHANGED report
    /\ job' = [job EXCEPT !.phase = "ending"]
    /\ saved' = saved \cup {jobs}
    /\ UNCHANGED <<file, cache, remote, jobs, faults>>

\* Any step fails, or the time limit sends SIGTERM: main saves the attempt.
\* A state that the file refuses ends the attempt without a save.
FailedAttempt ==
    /\ job.kind \in {"deep", "targeted"} /\ job.phase \in {"loaded", "scanned", "saved"}
    /\ IF Stale(job.mem)
       THEN UNCHANGED <<file, remote, faults>>
       ELSE file' = Revised(job.mem) /\ Upload(file')
    /\ job' = [job EXCEPT !.phase = "ending"]
    /\ saved' = IF Stale(job.mem) \/ jobs \notin job.mem.work THEN saved ELSE saved \cup {jobs}
    /\ UNCHANGED <<cache, report, jobs>>

\* The recovery job replaces the file by a newer checkpoint, or uploads the
\* file when it is the newer one.
Recover ==
    /\ job.kind = "recovery" /\ job.phase = "restored"
    /\ IF file.rev = 0 THEN UNCHANGED <<file, remote, faults>>
       ELSE IF Newer(remote, file) THEN file' = remote /\ UNCHANGED <<remote, faults>>
       ELSE UNCHANGED file /\ Upload(file)
    /\ job' = [job EXCEPT !.phase = "ending"]
    /\ UNCHANGED <<cache, report, jobs, saved>>

\* runtime_cache.validate: a file is there, and it has not moved backward.
Valid == file.rev > 0 /\ file.rev >= job.base.rev /\ file.at >= job.base.at

End ==
    /\ job.phase = "ending"
    /\ \/ cache' = (IF Valid THEN file ELSE cache) /\ UNCHANGED faults
       \/ faults < MaxFaults /\ faults' = faults + 1 /\ UNCHANGED cache
    /\ job' = NoJob /\ file' = Empty
    /\ UNCHANGED <<remote, report, jobs, saved>>

\* The machine is lost, or killed before the failed attempt is saved.
Die ==
    /\ job.kind # "none" /\ job.phase # "ending"
    /\ faults < MaxFaults /\ faults' = faults + 1
    /\ job' = NoJob /\ file' = Empty
    /\ UNCHANGED <<cache, remote, report, jobs, saved>>

Next ==
    \/ \E kind \in {"deep", "targeted", "recovery"} : Start(kind)
    \/ Load \/ SaveWatch \/ Scan \/ SaveState \/ Report \/ FailedAttempt
    \/ Recover \/ End \/ Die

Spec == Init /\ [][Next]_vars

-----------------------------------------------------------------------------
\* Two stores keep the state so that one fault loses nothing: a job that has
\* saved and come to its end is in the state that the next job takes, whichever
\* cache, upload or machine was lost (load_runtime_checkpoint, validate).
SavedWorkKept ==
    faults <= 1 /\ job.kind = "none" =>
        saved \subseteq (IF Newer(remote, cache) THEN remote ELSE cache).work

\* The state a job has loaded is never refused by the file beside it, although
\* the two are compared by different orders: else every later job fails
\* (StaleStateRevisionError, load_runtime_checkpoint).  Three faults break it.
NeverRefused ==
    faults <= 2 /\ job.phase \in {"loaded", "scanned", "saved"} => ~Stale(job.mem)
===============================================================================
