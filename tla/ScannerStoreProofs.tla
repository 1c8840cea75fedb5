-------------------------- MODULE ScannerStoreProofs --------------------------
(***************************************************************************)
(* What outlives a scan, for every value of the constants: the state that  *)
(* one job leaves for the next, the ledger that grants a run its paid      *)
(* requests, and the database that a migration fills. Each of the three    *)
(* parts has an inductive invariant of its own, which holds whenever the   *)
(* first state chose that part.                                            *)
(***************************************************************************)
EXTENDS MCScannerParts, Integers, TLAPS

-----------------------------------------------------------------------------
(* ScanState: one fault loses nothing that was saved.                      *)

(* A stored state, and the job that works on one.                          *)
StateRecord == [rev : Nat, at : Nat, deep : Nat, work : SUBSET Nat]
StateJob == [kind : {"none", "deep", "targeted", "recovery"}, phase : ST!Phases,
             mem : StateRecord, base : StateRecord]

(* The state's variables have their shape; a state without revision is     *)
(* empty.                                                                  *)
StateShape ==
    /\ c1 \in StateRecord /\ c2 \in StateRecord /\ c3 \in StateRecord /\ c5 \in StateJob
    /\ c6 \in Nat /\ c7 \in Nat /\ c8 \subseteq Nat
    /\ c5.kind = "none" <=> c5.phase = "idle"
    /\ c1.rev = 0 => c1.work = {}
    /\ c2.rev = 0 => c2.work = {}
    /\ c3.rev = 0 => c3.work = {}

(* The stores date from earlier jobs until the job at hand saves.          *)
StateClock ==
    /\ c1.at <= c6 /\ c2.at <= c6 /\ c3.at <= c6 /\ c5.mem.at <= c6
    /\ c5.phase # "idle" => c2.at < c6
    /\ c5.phase \in {"restored", "loaded", "scanned"} => c3.at < c6

(* The state that the next load takes of a checkpoint and a file, and the  *)
(* file that the end of the job leaves in the cache.                       *)
Latest(r, s) == IF ST!Newer(r, s) THEN r ELSE s
Ending == IF ST!Valid THEN c1 ELSE c2

(* The workflow will cache the file of the job.                            *)
FileReplaces == c5.base.rev <= c1.rev /\ c5.base.at <= c1.at

(* What is kept after one fault at most, at each phase of a job: without a *)
(* fault both stores hold everything that was saved.                       *)
StateKept ==
    /\ c5.phase # "ending" \/ c7 = 0 => c8 \subseteq Latest(c3, c2).work
    /\ c7 = 0 /\ c5.phase \in {"idle", "restored", "loaded", "scanned"} => c2 = c3
    /\ c5.phase = "restored" =>
         /\ c8 \subseteq Latest(c3, c1).work /\ c5.base = c1
         /\ c1 = c2 \/ (c7 > 0 /\ c1 = ST!Empty)
    /\ c5.phase \in {"loaded", "scanned"} =>
         c8 \subseteq c5.mem.work /\ FileReplaces /\ (ST!Stale(c5.mem) => c1 = c2)
    /\ c5.phase = "scanned" => c6 \in c5.mem.work
    /\ c5.phase = "saved" =>
         /\ c1 = c5.mem /\ c1.rev > 0 /\ c1.at = c6 /\ FileReplaces
         /\ c8 \cup {c6} \subseteq c1.work
         /\ ~ST!Newer(c3, c1) /\ (c7 = 0 => c3 = c1)
    /\ c5.phase = "ending" => c8 \subseteq Latest(c3, Ending).work /\ (c7 = 0 => c3 = Ending)

(* The invariant of the state between jobs.                                *)
StateSound == StateShape /\ StateClock /\ (c7 <= 1 => StateKept)

(* What a load finds where nothing was saved.                              *)
LEMMA EmptyState == ST!Empty \in StateRecord /\ ST!Empty.rev = 0 /\ ST!Empty.at = 0 /\ ST!Empty.work = {}
BY DEF ST!Empty, StateRecord

(* Between jobs there is no state in memory.                               *)
LEMMA IdleJob == /\ ST!NoJob \in StateJob /\ ST!NoJob.kind = "none" /\ ST!NoJob.phase = "idle"
                 /\ ST!NoJob.mem = ST!Empty /\ ST!NoJob.base = ST!Empty
<1>1. ST!NoJob = [kind |-> "none", phase |-> "idle", mem |-> ST!Empty, base |-> ST!Empty]
  BY DEF ST!NoJob
<1> QED BY <1>1, EmptyState DEF StateJob, ST!Phases

(* Before the first job all stores are empty.                              *)
LEMMA StateInit ==
  ASSUME ST!Init
  PROVE  StateSound
<1>1. /\ c1 = ST!Empty /\ c2 = ST!Empty /\ c3 = ST!Empty /\ c5 = ST!NoJob /\ c6 = 0 /\ c7 = 0 /\ c8 = {}
  BY DEF ST!Init
<1>2. StateShape /\ StateClock
  BY <1>1, EmptyState, IdleJob DEF StateShape, StateClock
<1>3. StateKept
  BY <1>1, EmptyState, IdleJob DEF StateKept
<1> QED BY <1>2, <1>3 DEF StateSound

(* A revision is later than the state and the file it replaces.            *)
LEMMA RevisedState ==
  ASSUME StateShape, NEW mem \in StateRecord
  PROVE  /\ ST!Revised(mem) \in StateRecord /\ ST!Revised(mem).at = c6
         /\ ST!Revised(mem).work = mem.work
         /\ ST!Revised(mem).rev > mem.rev /\ ST!Revised(mem).rev > c1.rev
<1> DEFINE rev == (IF mem.rev > c1.rev THEN mem.rev ELSE c1.rev) + 1
<1>1. rev \in Nat /\ rev > mem.rev /\ rev > c1.rev
  BY DEF StateShape, StateRecord
<1>2. ST!Revised(mem) = [mem EXCEPT !.rev = rev, !.at = c6]
  BY DEF ST!Revised
<1> HIDE DEF rev
<1>3. ST!Revised(mem) = [rev |-> rev, at |-> c6, deep |-> mem.deep, work |-> mem.work]
  BY <1>2 DEF StateRecord
<1> QED BY <1>1, <1>3 DEF StateRecord, StateShape

(* What an upload leaves in the durable store.                             *)
LEMMA UploadedState ==
  ASSUME NEW s, ST!Upload(s)
  PROVE  \/ c3' = s /\ c7' = c7 /\ ST!Newer(s, c3)
         \/ c3' = c3 /\ c7' = c7 /\ ~ST!Newer(s, c3)
         \/ c3' = c3 /\ c7' = c7 + 1
BY DEF ST!Upload

(* The phases of a job that lead nowhere else.                             *)
LEMMA JobPhase ==
  ASSUME StateShape, NEW p \in ST!Phases, NEW mem \in StateRecord,
         c5' = [c5 EXCEPT !.phase = p, !.mem = mem]
  PROVE  c5' = [kind |-> c5.kind, phase |-> p, mem |-> mem, base |-> c5.base] /\ c5' \in StateJob
<1>1. c5' = [kind |-> c5.kind, phase |-> p, mem |-> mem, base |-> c5.base]
  BY DEF StateShape, StateJob
<1> QED BY <1>1 DEF StateShape, StateJob

(* A job that moves on has a phase that is not idle, and its kind.         *)
LEMMA JobTurns ==
  ASSUME StateShape, NEW p \in ST!Phases, c5' = [c5 EXCEPT !.phase = p]
  PROVE  c5' = [kind |-> c5.kind, phase |-> p, mem |-> c5.mem, base |-> c5.base] /\ c5' \in StateJob
<1>1. c5' = [kind |-> c5.kind, phase |-> p, mem |-> c5.mem, base |-> c5.base]
  BY DEF StateShape, StateJob
<1> QED BY <1>1 DEF StateShape, StateJob

(* A job starts from the cache the workflow restores                       *)
(* (actions/cache/restore).                                                *)
LEMMA StateStart ==
  ASSUME StateSound, NEW kind \in {"deep", "targeted", "recovery"}, ST!Start(kind)
  PROVE  StateSound'
<1>1. /\ c5.kind = "none" /\ c6' = c6 + 1 /\ UNCHANGED <<c2, c3, c8>>
      /\ \/ c1' = c2 /\ c7' = c7
         \/ c1' = ST!Empty /\ c7' = c7 + 1
      /\ c5' = [ST!NoJob EXCEPT !.kind = kind, !.phase = "restored", !.base = c1']
  BY DEF ST!Start
<1>2. c5.phase = "idle" /\ c1' \in StateRecord
  BY <1>1, EmptyState DEF StateSound, StateShape
<1>3. c5' = [kind |-> kind, phase |-> "restored", mem |-> ST!Empty, base |-> c1']
  BY <1>1 DEF ST!NoJob
<1>4. StateShape'
  BY <1>1, <1>2, <1>3, EmptyState DEF StateSound, StateShape, StateJob, ST!Phases
<1>5. StateClock'
  <2>1. /\ c2.at \in Nat /\ c3.at \in Nat /\ c2.at <= c6 /\ c3.at <= c6 /\ c6 \in Nat
    BY DEF StateSound, StateShape, StateClock, StateRecord
  <2>2. c2.at < c6' /\ c3.at < c6' /\ c2.at <= c6' /\ c3.at <= c6' /\ 0 <= c6'
    BY <1>1, <2>1
  <2>3. c1'.at <= c6'
    BY <1>1, <2>2, EmptyState
  <2>4. c5'.mem.at <= c6' /\ c5'.phase = "restored"
    BY <1>3, <2>2, EmptyState
  <2> QED BY <1>1, <2>2, <2>3, <2>4 DEF StateClock
<1>6. ASSUME c7' <= 1 PROVE StateKept'
  <2>1. c7 \in Nat /\ c7 <= 1 /\ StateKept
    BY <1>1, <1>6 DEF StateSound, StateShape
  <2>2. c8 \subseteq Latest(c3, c2).work /\ (c7 = 0 => c2 = c3)
    BY <1>2, <2>1 DEF StateKept
  <2>3. c7' = 0 => c7 = 0
    BY <1>1, <2>1
  <2>4. CASE c1' = c2 /\ c7' = c7
    BY <1>1, <1>3, <2>2, <2>4 DEF StateKept, Latest, ST!Newer
  <2>5. CASE c1' = ST!Empty /\ c7' = c7 + 1
    <3>1. c7 = 0 /\ c7' > 0 /\ c2 = c3
      BY <1>6, <2>1, <2>2, <2>5
    <3>2. c8 \subseteq c3.work
      BY <2>2, <3>1 DEF Latest
    <3>3. ~ST!Newer(c3, ST!Empty) => c3.work = {}
      <4>1. c3.rev \in Nat /\ c3.at \in Nat /\ (c3.rev = 0 => c3.work = {})
        BY DEF StateSound, StateShape, StateRecord
      <4> QED BY <4>1, EmptyState DEF ST!Newer
    <3>4. c8 \subseteq Latest(c3, c1').work
      BY <2>5, <3>2, <3>3, EmptyState DEF Latest
    <3> QED BY <1>1, <1>3, <2>2, <2>5, <3>1, <3>4 DEF StateKept, Latest, ST!Newer
  <2> QED BY <1>1, <2>4, <2>5
<1> QED BY <1>4, <1>5, <1>6 DEF StateSound

(* The job loads the newer of its file and the checkpoint (load_state).    *)
LEMMA StateLoad ==
  ASSUME StateSound, ST!Load
  PROVE  StateSound'
<1> DEFINE mem == c5'.mem
<1>1. /\ c5.kind \in {"deep", "targeted"} /\ c5.phase = "restored" /\ UNCHANGED <<c1, c2, c3, c6, c8>>
      /\ \/ c5' = [c5 EXCEPT !.phase = "loaded", !.mem = Latest(c3, c1)] /\ c7' = c7
         \/ c5' = [c5 EXCEPT !.phase = "loaded", !.mem = c1] /\ c7' = c7 + 1
  BY DEF ST!Load, Latest
<1>2. StateShape /\ c1 \in StateRecord /\ c3 \in StateRecord /\ Latest(c3, c1) \in StateRecord
      /\ "loaded" \in ST!Phases
  BY DEF StateSound, StateShape, Latest, ST!Phases
<1>3. /\ c5' = [kind |-> c5.kind, phase |-> "loaded", mem |-> mem, base |-> c5.base] /\ c5' \in StateJob
      /\ \/ mem = Latest(c3, c1) /\ c7' = c7
         \/ mem = c1 /\ c7' = c7 + 1
  <2>1. CASE c5' = [c5 EXCEPT !.phase = "loaded", !.mem = Latest(c3, c1)] /\ c7' = c7
    <3> DEFINE m == Latest(c3, c1)
    <3>1. m \in StateRecord /\ c5' = [c5 EXCEPT !.phase = "loaded", !.mem = m]
      BY <1>2, <2>1
    <3> HIDE DEF m
    <3>2. c5' = [kind |-> c5.kind, phase |-> "loaded", mem |-> m, base |-> c5.base] /\ c5' \in StateJob
      BY <1>2, <3>1, JobPhase
    <3> QED BY <2>1, <3>2 DEF m
  <2>2. CASE c5' = [c5 EXCEPT !.phase = "loaded", !.mem = c1] /\ c7' = c7 + 1
    <3>1. c5' = [kind |-> c5.kind, phase |-> "loaded", mem |-> c1, base |-> c5.base] /\ c5' \in StateJob
      BY <1>2, <2>2, JobPhase
    <3> QED BY <2>2, <3>1
  <2> QED BY <1>1, <2>1, <2>2
<1>4. mem = c1 \/ mem = c3
  BY <1>3 DEF Latest
<1> HIDE DEF mem
<1>5. c5'.kind = c5.kind /\ c5'.phase = "loaded" /\ c5'.mem = mem /\ c5'.base = c5.base
  BY <1>3
<1>6. StateShape'
  <2>1. c7' \in Nat
    BY <1>3 DEF StateSound, StateShape
  <2> QED BY <1>1, <1>3, <1>5, <2>1 DEF StateSound, StateShape
<1>7. StateClock'
  BY <1>1, <1>4, <1>5 DEF StateSound, StateClock
<1>8. ASSUME c7' <= 1 PROVE StateKept'
  <2>1. c7 \in Nat /\ c7 <= 1 /\ (c7' = 0 => c7 = 0) /\ StateKept
    BY <1>3, <1>8 DEF StateSound, StateShape
  <2>2. /\ c8 \subseteq Latest(c3, c2).work /\ (c7 = 0 => c2 = c3) /\ c8 \subseteq Latest(c3, c1).work
        /\ c5.base = c1 /\ (c1 = c2 \/ (c7 > 0 /\ c1 = ST!Empty))
    BY <1>1, <2>1 DEF StateKept
  <2>3. c8 \subseteq mem.work
    <3>1. CASE mem = Latest(c3, c1)
      BY <2>2, <3>1
    <3>2. CASE mem = c1 /\ c7' = c7 + 1
      <4>1. c7 = 0
        BY <1>8, <2>1, <3>2
      <4> QED BY <2>2, <3>2, <4>1 DEF Latest
    <3> QED BY <1>3, <3>1, <3>2
  <2>4. FileReplaces'
    <3>1. c1.rev \in Nat /\ c1.at \in Nat
      BY <1>2 DEF StateRecord
    <3> QED BY <1>1, <1>5, <2>2, <3>1 DEF FileReplaces
  <2>5. ST!Stale(c5.mem)' => c1' = c2'
    <3>1. CASE c1 = c2
      BY <1>1, <3>1
    <3>2. CASE c1 = ST!Empty
      <4>1. mem.rev \in Nat
        BY <1>2, <1>4 DEF StateRecord
      <4>2. c1.rev = 0
        BY <3>2, EmptyState
      <4>3. ~(c1'.rev > c5'.mem.rev) /\ ~(c1'.rev > 0)
        BY <1>1, <1>5, <4>1, <4>2
      <4> QED BY <4>3 DEF ST!Stale
    <3> QED BY <2>2, <3>1, <3>2
  <2>6. c8 \subseteq Latest(c3', c2').work
    BY <1>1, <2>2
  <2> QED BY <1>1, <1>5, <2>1, <2>2, <2>3, <2>4, <2>5, <2>6 DEF StateKept, Latest, ST!Newer
<1> QED BY <1>6, <1>7, <1>8 DEF StateSound

(* A changed watch list is written to the file at once, under a revision   *)
(* of its own.                                                             *)
LEMMA StateWatch ==
  ASSUME StateSound, ST!SaveWatch
  PROVE  StateSound'
<1>1. /\ c5.phase = "loaded" /\ UNCHANGED <<c2, c3, c6, c7, c8>>
      /\ c1' = ST!Revised(c5.mem) /\ c5' = [c5 EXCEPT !.mem = c1']
  BY DEF ST!SaveWatch
<1>2. StateShape /\ c5.mem \in StateRecord
  BY DEF StateSound, StateShape, StateJob
<1>3. /\ c1' \in StateRecord /\ c1'.at = c6 /\ c1'.work = c5.mem.work
      /\ c1'.rev > c5.mem.rev /\ c1'.rev > c1.rev
  BY <1>1, <1>2, RevisedState
<1>4. c5' = [kind |-> c5.kind, phase |-> "loaded", mem |-> c1', base |-> c5.base]
  <2> DEFINE m == c1'
  <2>1. c5' = [c5 EXCEPT !.mem = m]
    BY <1>1
  <2> HIDE DEF m
  <2>2. c5' = [kind |-> c5.kind, phase |-> "loaded", mem |-> m, base |-> c5.base]
    BY <1>1, <1>2, <2>1 DEF StateShape, StateJob
  <2> QED BY <2>2 DEF m
<1>5. c5'.kind = c5.kind /\ c5'.phase = "loaded" /\ c5'.mem = c1' /\ c5'.base = c5.base
  BY <1>4
<1>6. /\ c1.rev \in Nat /\ c1.at \in Nat /\ c5.mem.rev \in Nat /\ c1'.rev \in Nat /\ c6 \in Nat
      /\ c5.base.rev \in Nat /\ c5.base.at \in Nat /\ c1.at <= c6
  BY <1>2, <1>3 DEF StateSound, StateShape, StateClock, StateRecord, StateJob
<1>7. StateShape'
  <2>1. c5' \in StateJob
    BY <1>2, <1>3, <1>4 DEF StateShape, StateJob, ST!Phases
  <2>2. c1'.rev # 0
    BY <1>3, <1>6
  <2> QED BY <1>1, <1>2, <1>3, <1>5, <2>1, <2>2 DEF StateShape
<1>8. StateClock'
  BY <1>1, <1>3, <1>5, <1>6 DEF StateSound, StateClock
<1>9. ASSUME c7' <= 1 PROVE StateKept'
  <2>1. /\ c8 \subseteq Latest(c3, c2).work /\ (c7 = 0 => c2 = c3) /\ c8 \subseteq c5.mem.work
        /\ c5.base.rev <= c1.rev /\ c5.base.at <= c1.at
    BY <1>1, <1>9 DEF StateSound, StateKept, FileReplaces
  <2>2. FileReplaces'
    <3>1. c5.base.rev <= c1'.rev /\ c5.base.at <= c1'.at
      BY <1>3, <1>6, <2>1
    <3> QED BY <1>5, <3>1 DEF FileReplaces
  <2>3. ~ST!Stale(c5.mem)'
    <3>1. c1'.at \in Nat
      BY <1>3, <1>6
    <3> QED BY <1>5, <1>6, <3>1 DEF ST!Stale
  <2>4. c8 \subseteq Latest(c3', c2').work /\ c8 \subseteq c5'.mem.work
    BY <1>1, <1>3, <1>5, <2>1
  <2> QED BY <1>1, <1>5, <2>1, <2>2, <2>3, <2>4 DEF StateKept, Latest, ST!Newer
<1> QED BY <1>7, <1>8, <1>9 DEF StateSound

(* The scan adds its work to the state in memory.                          *)
LEMMA StateScan ==
  ASSUME StateSound, ST!Scan
  PROVE  StateSound'
<1> DEFINE work == c5.mem.work \cup {c6}
           deep == IF c5.kind = "deep" THEN c6 ELSE c5.mem.deep
           mem == [rev |-> c5.mem.rev, at |-> c5.mem.at, deep |-> deep, work |-> work]
<1>1. /\ c5.phase = "loaded" /\ UNCHANGED <<c1, c2, c3, c6, c7, c8>>
      /\ c5' = [c5 EXCEPT !.phase = "scanned", !.mem.work = work, !.mem.deep = deep]
  BY DEF ST!Scan
<1>2. c5 \in StateJob /\ c5.mem \in StateRecord /\ c6 \in Nat
  BY DEF StateSound, StateShape, StateJob
<1>3. work \in SUBSET Nat /\ deep \in Nat
  BY <1>2 DEF StateRecord
<1> HIDE DEF work, deep
<1>4. c5' = [kind |-> c5.kind, phase |-> "scanned", mem |-> mem, base |-> c5.base]
  BY <1>1, <1>2 DEF StateJob, StateRecord
<1>5. mem \in StateRecord /\ mem.rev = c5.mem.rev /\ mem.at = c5.mem.at /\ mem.work = work
  BY <1>2, <1>3 DEF StateRecord
<1>6. work = c5.mem.work \cup {c6}
  BY DEF work
<1> HIDE DEF mem
<1>7. c5'.kind = c5.kind /\ c5'.phase = "scanned" /\ c5'.mem = mem /\ c5'.base = c5.base
  BY <1>4
<1>8. StateShape'
  <2>1. c5' \in StateJob
    BY <1>2, <1>4, <1>5 DEF StateJob, ST!Phases
  <2> QED BY <1>1, <1>7, <2>1 DEF StateSound, StateShape
<1>9. StateClock'
  BY <1>1, <1>5, <1>7 DEF StateSound, StateClock
<1>10. ASSUME c7' <= 1 PROVE StateKept'
  <2>1. /\ c8 \subseteq Latest(c3, c2).work /\ (c7 = 0 => c2 = c3) /\ c8 \subseteq c5.mem.work
        /\ FileReplaces /\ (ST!Stale(c5.mem) => c1 = c2)
    BY <1>1, <1>10 DEF StateSound, StateKept
  <2>2. FileReplaces'
    BY <1>1, <1>7, <2>1 DEF FileReplaces
  <2>3. ST!Stale(c5.mem)' => c1' = c2'
    BY <1>1, <1>5, <1>7, <2>1 DEF ST!Stale
  <2>4. c8 \subseteq Latest(c3', c2').work /\ c8 \subseteq c5'.mem.work /\ c6 \in c5'.mem.work
    BY <1>1, <1>5, <1>6, <1>7, <2>1
  <2> QED BY <1>1, <1>7, <2>1, <2>2, <2>3, <2>4 DEF StateKept, Latest, ST!Newer
<1> QED BY <1>8, <1>9, <1>10 DEF StateSound

(* A save and its upload: whatever the upload does, the file is the newest *)
(* state, and so is the checkpoint as long as there was no fault.          *)
LEMMA SavedTogether ==
  ASSUME StateSound, c5.phase \in {"loaded", "scanned", "saved"},
         NEW new, new = ST!Revised(c5.mem), ST!Upload(new)
  PROVE  /\ new \in StateRecord /\ new.rev > 0 /\ new.at = c6 /\ new.work = c5.mem.work
         /\ c3' = c3 \/ c3' = new
         /\ c7' \in Nat /\ c7 <= c7'
         /\ c7' <= 1 =>
              /\ c8 \subseteq new.work /\ c5.base.rev <= new.rev /\ c5.base.at <= new.at
              /\ ~ST!Newer(c3', new) /\ c8 \subseteq Latest(c3', c2).work
              /\ c7' = 0 => c3' = new /\ ST!Newer(new, c2)
<1>1. StateShape /\ StateClock /\ c5.mem \in StateRecord
  BY DEF StateSound, StateShape, StateJob
<1>2. /\ new \in StateRecord /\ new.at = c6 /\ new.work = c5.mem.work
      /\ new.rev > c5.mem.rev /\ new.rev > c1.rev
  BY <1>1, RevisedState
<1>3. /\ c1.rev \in Nat /\ c1.at \in Nat /\ c2.rev \in Nat /\ c2.at \in Nat /\ c3.rev \in Nat /\ c3.at \in Nat
      /\ c5.mem.rev \in Nat /\ c5.base.rev \in Nat /\ c5.base.at \in Nat /\ new.rev \in Nat /\ new.at \in Nat
      /\ c6 \in Nat /\ c7 \in Nat
  BY <1>1, <1>2 DEF StateShape, StateRecord, StateJob
<1>4. c2.at < c6 /\ c1.at <= c6 /\ c3.at <= c6 /\ (c5.phase # "saved" => c3.at < c6)
  BY <1>1 DEF StateClock
<1>5. \/ c3' = new /\ c7' = c7 /\ ST!Newer(new, c3)
      \/ c3' = c3 /\ c7' = c7 /\ ~ST!Newer(new, c3)
      \/ c3' = c3 /\ c7' = c7 + 1
  BY UploadedState
<1>6. ASSUME c7' <= 1
      PROVE  /\ c8 \subseteq new.work /\ c5.base.rev <= new.rev /\ c5.base.at <= new.at
             /\ ~ST!Newer(c3', new) /\ c8 \subseteq Latest(c3', c2).work
             /\ c7' = 0 => c3' = new /\ ST!Newer(new, c2)
  <2>1. c7 <= 1 /\ StateKept /\ (c7' = 0 => c7 = 0 /\ c7' = c7)
    BY <1>3, <1>5, <1>6 DEF StateSound
  <2>2. c8 \subseteq Latest(c3, c2).work /\ FileReplaces /\ c8 \subseteq c5.mem.work
        /\ (c5.phase = "saved" => c1 = c5.mem /\ ~ST!Newer(c3, c1))
    BY <2>1 DEF StateKept
  <2>3. c5.base.rev <= new.rev /\ c5.base.at <= new.at
    BY <1>2, <1>3, <1>4, <2>2 DEF FileReplaces
  <2>4. ~ST!Newer(c3, new)
    <3>1. CASE c5.phase = "saved"
      <4>1. ~ST!Newer(c3, c1)
        BY <2>2, <3>1
      <4>2. c3.at <= c6 /\ new.at = c6 /\ new.rev > c1.rev
        BY <1>2, <1>4
      <4>3. CASE c3.at < c6
        BY <1>3, <4>2, <4>3 DEF ST!Newer
      <4>4. CASE c3.at = c6
        <5>1. StateKept /\ c1.at = c6
          BY <2>1, <3>1 DEF StateKept
        <5>2. c3.rev <= c1.rev
          BY <1>3, <4>1, <4>4, <5>1 DEF ST!Newer
        <5> QED BY <1>3, <4>2, <4>4, <5>2 DEF ST!Newer
      <4> QED BY <1>3, <4>2, <4>3, <4>4
    <3>2. CASE c5.phase # "saved"
      BY <1>2, <1>3, <1>4, <3>2 DEF ST!Newer
    <3> QED BY <3>1, <3>2
  <2>5. ~ST!Newer(new, new)
    BY <1>3 DEF ST!Newer
  <2>6. ST!Newer(new, c2)
    BY <1>2, <1>3, <1>4 DEF ST!Newer
  <2>7. c8 \subseteq Latest(new, c2).work
    BY <1>2, <2>2, <2>6 DEF Latest
  <2>8. c7 = 0 => ST!Newer(new, c3)
    <3>1. CASE c5.phase = "saved"
      <4>1. c7 = 0 => c3 = c1
        BY <2>1, <3>1 DEF StateKept
      <4> QED BY <1>2, <1>3, <1>4, <4>1 DEF ST!Newer
    <3>2. CASE c5.phase # "saved"
      BY <1>2, <1>3, <1>4, <3>2 DEF ST!Newer
    <3> QED BY <3>1, <3>2
  <2>9. ~ST!Newer(c3', new) /\ c8 \subseteq Latest(c3', c2).work
    <3>1. CASE c3' = new
      BY <2>5, <2>7, <3>1
    <3>2. CASE c3' = c3
      BY <2>2, <2>4, <3>2
    <3> QED BY <1>5, <3>1, <3>2
  <2>10. c7' = 0 => c3' = new
    BY <1>5, <2>1, <2>8, <1>3
  <2> QED BY <1>2, <2>2, <2>3, <2>6, <2>9, <2>10
<1>7. c7' \in Nat /\ c7 <= c7' /\ new.rev > 0 /\ (c3' = c3 \/ c3' = new)
  BY <1>2, <1>3, <1>5
<1> QED BY <1>2, <1>6, <1>7

(* The file and the checkpoint get the next revision together, but for an  *)
(* upload that is lost (save_state).                                       *)
LEMMA StateSave ==
  ASSUME StateSound, ST!SaveState
  PROVE  StateSound'
<1> DEFINE new == c1'
<1>1. /\ c5.phase = "scanned" /\ UNCHANGED <<c2, c6, c8>> /\ new = ST!Revised(c5.mem) /\ ST!Upload(new)
      /\ c5' = [c5 EXCEPT !.phase = "saved", !.mem = new]
  BY DEF ST!SaveState
<1> HIDE DEF new
<1>2. /\ new \in StateRecord /\ new.rev > 0 /\ new.at = c6 /\ new.work = c5.mem.work
      /\ c3' = c3 \/ c3' = new
      /\ c7' \in Nat /\ c7 <= c7'
      /\ c7' <= 1 =>
           /\ c8 \subseteq new.work /\ c5.base.rev <= new.rev /\ c5.base.at <= new.at
           /\ ~ST!Newer(c3', new) /\ c8 \subseteq Latest(c3', c2).work
           /\ c7' = 0 => c3' = new /\ ST!Newer(new, c2)
  BY <1>1, SavedTogether
<1>3. StateShape /\ StateClock /\ "saved" \in ST!Phases
  BY DEF StateSound, ST!Phases
<1>4. c5' = [kind |-> c5.kind, phase |-> "saved", mem |-> new, base |-> c5.base] /\ c5' \in StateJob
  BY <1>1, <1>2, <1>3, JobPhase
<1>5. c5'.kind = c5.kind /\ c5'.phase = "saved" /\ c5'.mem = new /\ c5'.base = c5.base /\ c1' = new
  BY <1>4 DEF new
<1>6. StateShape'
  <2>1. new.rev # 0
    BY <1>2 DEF StateRecord
  <2> QED BY <1>1, <1>2, <1>3, <1>4, <1>5, <2>1 DEF StateShape
<1>7. StateClock'
  <2>1. c6 \in Nat
    BY <1>3 DEF StateShape
  <2>2. new.at <= c6 /\ c2.at <= c6 /\ c2.at < c6 /\ c3.at <= c6
    BY <1>1, <1>2, <1>3, <2>1 DEF StateClock
  <2>3. c3'.at <= c6
    BY <1>2, <2>2
  <2> QED BY <1>1, <1>5, <2>2, <2>3 DEF StateClock
<1>8. ASSUME c7' <= 1 PROVE StateKept'
  <2>1. c7 <= 1
    BY <1>2, <1>3, <1>8 DEF StateShape
  <2>2. c6 \in c5.mem.work
    BY <1>1, <2>1 DEF StateSound, StateKept
  <2>3. /\ c8 \cup {c6} \subseteq new.work /\ ~ST!Newer(c3', new) /\ c8 \subseteq Latest(c3', c2).work
        /\ (c7' = 0 => c3' = new)
    BY <1>2, <1>8, <2>2
  <2>4. FileReplaces'
    BY <1>2, <1>5, <1>8 DEF FileReplaces
  <2> QED BY <1>1, <1>2, <1>5, <2>3, <2>4 DEF StateKept, Latest, ST!Newer
<1> QED BY <1>6, <1>7, <1>8 DEF StateSound

(* The report is written after the state; the job goes on to its end.      *)
LEMMA StateReport ==
  ASSUME StateSound, ST!Report
  PROVE  StateSound'
<1>1. /\ c5.phase = "saved" /\ UNCHANGED <<c1, c2, c3, c6, c7>> /\ c8' = c8 \cup {c6}
      /\ c5' = [c5 EXCEPT !.phase = "ending"]
  BY DEF ST!Report
<1>2. StateShape /\ StateClock /\ "ending" \in ST!Phases
  BY DEF StateSound, ST!Phases
<1>3. c5' = [kind |-> c5.kind, phase |-> "ending", mem |-> c5.mem, base |-> c5.base] /\ c5' \in StateJob
  BY <1>1, <1>2, JobTurns
<1>4. c5'.kind = c5.kind /\ c5'.phase = "ending" /\ c5'.mem = c5.mem /\ c5'.base = c5.base
  BY <1>3
<1>5. StateShape' /\ StateClock'
  BY <1>1, <1>2, <1>3, <1>4 DEF StateShape, StateClock
<1>6. ASSUME c7' <= 1 PROVE StateKept'
  <2>1. /\ c1.rev > 0 /\ c1.at = c6 /\ FileReplaces /\ c8 \cup {c6} \subseteq c1.work
        /\ ~ST!Newer(c3, c1) /\ (c7 = 0 => c3 = c1)
    BY <1>1, <1>6 DEF StateSound, StateKept
  <2>2. /\ c1.rev \in Nat /\ c5.base.rev \in Nat /\ c1.at \in Nat /\ c5.base.at \in Nat
        /\ c2.at \in Nat /\ c2.at < c6
    BY <1>1, <1>2 DEF StateShape, StateRecord, StateJob, StateClock
  <2>3. ST!Valid'
    <3>1. c1.rev > 0 /\ c1.rev >= c5.base.rev /\ c1.at >= c5.base.at
      BY <2>1, <2>2 DEF FileReplaces
    <3> QED BY <1>1, <1>4, <3>1 DEF ST!Valid
  <2>4. Ending' = c1
    BY <1>1, <2>3 DEF Ending
  <2>5. c8' \subseteq Latest(c3, c1).work
    BY <1>1, <2>1 DEF Latest
  <2>6. c7 = 0 => c8' \subseteq Latest(c3, c2).work
    <3>1. c7 = 0 => ST!Newer(c3, c2)
      BY <2>1, <2>2 DEF ST!Newer
    <3> QED BY <1>1, <2>1, <3>1 DEF Latest
  <2>7. Latest(c3, Ending)' = Latest(c3, c1) /\ Latest(c3, c2)' = Latest(c3, c2)
    BY <1>1, <2>4 DEF Latest, ST!Newer
  <2> QED BY <1>1, <1>4, <2>1, <2>4, <2>5, <2>6, <2>7 DEF StateKept
<1> QED BY <1>5, <1>6 DEF StateSound

(* A job that fails saves its attempt, unless the file refuses the state.  *)
LEMMA StateFailed ==
  ASSUME StateSound, ST!FailedAttempt
  PROVE  StateSound'
<1>1. /\ c5.kind \in {"deep", "targeted"} /\ c5.phase \in {"loaded", "scanned", "saved"} /\ UNCHANGED <<c2, c6>>
      /\ c5' = [c5 EXCEPT !.phase = "ending"]
      /\ c8' = IF ST!Stale(c5.mem) \/ c6 \notin c5.mem.work THEN c8 ELSE c8 \cup {c6}
      /\ ST!Stale(c5.mem) => UNCHANGED <<c1, c3, c7>>
      /\ ~ST!Stale(c5.mem) => c1' = ST!Revised(c5.mem) /\ ST!Upload(c1')
  BY DEF ST!FailedAttempt
<1>2. StateShape /\ StateClock /\ "ending" \in ST!Phases
  BY DEF StateSound, ST!Phases
<1>3. c5' = [kind |-> c5.kind, phase |-> "ending", mem |-> c5.mem, base |-> c5.base] /\ c5' \in StateJob
  BY <1>1, <1>2, JobTurns
<1>4. c5'.kind = c5.kind /\ c5'.phase = "ending" /\ c5'.mem = c5.mem /\ c5'.base = c5.base
  BY <1>3
<1>5. CASE ST!Stale(c5.mem)
  <2>1. UNCHANGED <<c1, c2, c3, c6, c7, c8>>
    BY <1>1, <1>5
  <2>2. StateShape' /\ StateClock'
    BY <1>1, <1>2, <1>3, <1>4, <2>1 DEF StateShape, StateClock
  <2>3. ASSUME c7' <= 1 PROVE StateKept'
    <3>1. StateKept
      BY <2>1, <2>3 DEF StateSound
    <3>2. c5.phase # "saved"
      <4>1. ~ST!Stale(c1)
        BY <1>2 DEF ST!Stale, StateShape, StateRecord
      <4> QED BY <1>5, <3>1, <4>1 DEF StateKept
    <3>3. c1 = c2 /\ c8 \subseteq Latest(c3, c2).work /\ (c7 = 0 => c2 = c3)
      BY <1>1, <1>5, <3>1, <3>2 DEF StateKept
    <3>4. Ending' = c2
      BY <2>1, <3>3 DEF Ending
    <3>5. Latest(c3, Ending)' = Latest(c3, c2) /\ Latest(c3, c2)' = Latest(c3, c2)
      BY <2>1, <3>4 DEF Latest, ST!Newer
    <3> QED BY <1>4, <2>1, <3>3, <3>4, <3>5 DEF StateKept
  <2> QED BY <2>2, <2>3 DEF StateSound
<1>6. CASE ~ST!Stale(c5.mem)
  <2> DEFINE new == c1'
  <2>1. new = ST!Revised(c5.mem) /\ ST!Upload(new) /\ c1' = new
        /\ c8' = IF c6 \notin c5.mem.work THEN c8 ELSE c8 \cup {c6}
    BY <1>1, <1>6
  <2> HIDE DEF new
  <2>2. /\ new \in StateRecord /\ new.rev > 0 /\ new.at = c6 /\ new.work = c5.mem.work
        /\ c3' = c3 \/ c3' = new
        /\ c7' \in Nat /\ c7 <= c7'
        /\ c7' <= 1 =>
             /\ c8 \subseteq new.work /\ c5.base.rev <= new.rev /\ c5.base.at <= new.at
             /\ ~ST!Newer(c3', new) /\ c8 \subseteq Latest(c3', c2).work
             /\ c7' = 0 => c3' = new /\ ST!Newer(new, c2)
    BY <1>1, <2>1, SavedTogether
  <2>3. c6 \in Nat /\ new.rev \in Nat /\ new.at \in Nat /\ c5.base.rev \in Nat /\ c5.base.at \in Nat
    BY <1>2, <2>2 DEF StateShape, StateRecord, StateJob
  <2>4. StateShape'
    <3>1. c8' \subseteq Nat
      BY <1>2, <2>1, <2>3 DEF StateShape
    <3>2. new.rev # 0
      BY <2>2, <2>3
    <3> QED BY <1>1, <1>2, <1>3, <1>4, <2>1, <2>2, <3>1, <3>2 DEF StateShape
  <2>5. StateClock'
    <3>1. new.at <= c6 /\ c2.at <= c6 /\ c2.at < c6 /\ c3.at <= c6 /\ c5.mem.at <= c6
      BY <1>1, <1>2, <2>2, <2>3 DEF StateClock
    <3>2. c3'.at <= c6
      BY <2>2, <3>1
    <3> QED BY <1>1, <1>4, <2>1, <3>1, <3>2 DEF StateClock
  <2>6. ASSUME c7' <= 1 PROVE StateKept'
    <3>1. c8' \subseteq new.work /\ ~ST!Newer(c3', new) /\ (c7' = 0 => c3' = new /\ ST!Newer(new, c2))
      BY <2>1, <2>2, <2>6
    <3>2. ST!Valid'
      <4>1. new.rev > 0 /\ new.rev >= c5.base.rev /\ new.at >= c5.base.at
        BY <2>2, <2>3, <2>6
      <4> QED BY <1>4, <2>1, <4>1 DEF ST!Valid
    <3>3. Ending' = new
      BY <2>1, <3>2 DEF Ending
    <3>4. Latest(c3, Ending)' = new
      BY <3>1, <3>3 DEF Latest, ST!Newer
    <3>5. c7' = 0 => Latest(c3, c2)' = new
      BY <1>1, <3>1 DEF Latest, ST!Newer
    <3> QED BY <1>4, <3>1, <3>3, <3>4, <3>5 DEF StateKept
  <2> QED BY <2>4, <2>5, <2>6 DEF StateSound
<1> QED BY <1>5, <1>6

(* The recovery job takes the newer of the file and the checkpoint, or     *)
(* uploads the file.                                                       *)
LEMMA StateRecover ==
  ASSUME StateSound, ST!Recover
  PROVE  StateSound'
<1>1. /\ c5.kind = "recovery" /\ c5.phase = "restored" /\ UNCHANGED <<c2, c6, c8>>
      /\ c5' = [c5 EXCEPT !.phase = "ending"]
      /\ \/ c1.rev = 0 /\ UNCHANGED <<c1, c3, c7>>
         \/ c1.rev # 0 /\ ST!Newer(c3, c1) /\ c1' = c3 /\ UNCHANGED <<c3, c7>>
         \/ c1.rev # 0 /\ ~ST!Newer(c3, c1) /\ UNCHANGED c1 /\ ST!Upload(c1)
  BY DEF ST!Recover
<1>2. StateShape /\ StateClock /\ "ending" \in ST!Phases
  BY DEF StateSound, ST!Phases
<1>3. c5' = [kind |-> c5.kind, phase |-> "ending", mem |-> c5.mem, base |-> c5.base] /\ c5' \in StateJob
  BY <1>1, <1>2, JobTurns
<1>4. c5'.kind = c5.kind /\ c5'.phase = "ending" /\ c5'.mem = c5.mem /\ c5'.base = c5.base
  BY <1>3
<1>5. /\ c1' = c1 \/ c1' = c3
      /\ c3' = c3 \/ c3' = c1
      /\ c7' \in Nat /\ c7 <= c7' /\ c7 \in Nat
  <2>1. c7 \in Nat
    BY <1>2 DEF StateShape
  <2>2. CASE ST!Upload(c1) /\ UNCHANGED c1
    BY <2>1, <2>2, UploadedState
  <2> QED BY <1>1, <2>1, <2>2
<1>6. StateShape'
  BY <1>1, <1>2, <1>3, <1>4, <1>5 DEF StateShape
<1>7. StateClock'
  BY <1>1, <1>2, <1>4, <1>5 DEF StateClock
<1>8. ASSUME c7' <= 1 PROVE StateKept'
  <2>1. StateKept /\ (c7' = 0 => c7 = 0)
    BY <1>5, <1>8 DEF StateSound
  <2>2. /\ c8 \subseteq Latest(c3, c2).work /\ (c7 = 0 => c2 = c3)
        /\ c8 \subseteq Latest(c3, c1).work /\ c5.base = c1 /\ (c1 = c2 \/ (c7 > 0 /\ c1 = ST!Empty))
    BY <1>1, <2>1 DEF StateKept
  <2>3. /\ c1.rev \in Nat /\ c1.at \in Nat /\ c2.rev \in Nat /\ c2.at \in Nat /\ c3.rev \in Nat /\ c3.at \in Nat
        /\ (c1.rev = 0 => c1.work = {})
    BY <1>2 DEF StateShape, StateRecord
  <2>4. CASE c1.rev = 0 /\ UNCHANGED <<c1, c3, c7>>
    <3>1. ~ST!Valid'
      BY <2>4 DEF ST!Valid
    <3>2. Ending' = c2
      BY <1>1, <3>1 DEF Ending
    <3>3. Latest(c3, Ending)' = Latest(c3, c2) /\ Latest(c3, c2)' = Latest(c3, c2)
      BY <1>1, <2>4, <3>2 DEF Latest, ST!Newer
    <3> QED BY <1>1, <1>4, <2>1, <2>2, <2>4, <3>2, <3>3 DEF StateKept
  <2>5. CASE ST!Newer(c3, c1) /\ c1' = c3 /\ UNCHANGED <<c3, c7>>
    <3>1. c8 \subseteq c3.work
      BY <2>2, <2>5 DEF Latest
    <3>2. Ending' = c3 \/ Ending' = c2
      BY <1>1, <2>5 DEF Ending
    <3>3. Latest(c3, c3) = c3
      BY DEF Latest
    <3>4. Latest(c3, c2)' = Latest(c3, c2) /\ Latest(c3, Ending)' = Latest(c3, Ending')
      BY <1>1, <2>5 DEF Latest, ST!Newer
    <3>5. c8 \subseteq Latest(c3, Ending)'.work
      BY <2>2, <3>1, <3>2, <3>3, <3>4
    <3> QED BY <1>1, <1>4, <2>1, <2>2, <2>5, <3>2, <3>4, <3>5 DEF StateKept
  <2>6. CASE c1.rev # 0 /\ ~ST!Newer(c3, c1) /\ UNCHANGED c1 /\ ST!Upload(c1)
    <3>1. ST!Valid'
      <4>1. c1.rev > 0 /\ c1.rev >= c1.rev /\ c1.at >= c1.at
        BY <2>3, <2>6
      <4> QED BY <1>4, <2>2, <2>6, <4>1 DEF ST!Valid
    <3>2. Ending' = c1
      BY <2>6, <3>1 DEF Ending
    <3>3. c1 = c2 /\ c8 \subseteq c1.work
      BY <2>2, <2>6, EmptyState DEF Latest
    <3>4. c7' = 0 => c3' = c2
      <4>1. c7 = 0 => ~ST!Newer(c1, c3)
        BY <2>2, <2>3, <3>3 DEF ST!Newer
      <4> QED BY <1>5, <2>1, <2>2, <2>6, <3>3, <4>1, UploadedState
    <3>5. c8 \subseteq Latest(c3', c1).work
      <4>1. CASE c3' = c1
        BY <3>3, <4>1 DEF Latest
      <4>2. CASE c3' = c3
        BY <2>2, <4>2
      <4> QED BY <1>5, <4>1, <4>2
    <3>6. Latest(c3, Ending)' = Latest(c3', c1) /\ Latest(c3, c2)' = Latest(c3', c1)
      BY <1>1, <3>2, <3>3 DEF Latest, ST!Newer
    <3> QED BY <1>1, <1>4, <3>2, <3>3, <3>4, <3>5, <3>6 DEF StateKept
  <2> QED BY <1>1, <2>4, <2>5, <2>6
<1> QED BY <1>6, <1>7, <1>8 DEF StateSound

(* The workflow caches a valid file, or the old cache stays; or the        *)
(* machine is lost.                                                        *)
LEMMA StateEnds ==
  ASSUME StateSound, ST!End \/ ST!Die
  PROVE  StateSound'
<1>1. /\ c5' = ST!NoJob /\ c1' = ST!Empty /\ UNCHANGED <<c3, c6, c8>> /\ c5.phase # "idle"
      /\ \/ c5.phase = "ending" /\ c2' = Ending /\ c7' = c7
         \/ c7' = c7 + 1 /\ c2' = c2
  <2>1. CASE ST!End
    BY <2>1 DEF ST!End, Ending
  <2>2. CASE ST!Die
    BY <2>2 DEF ST!Die, StateSound, StateShape
  <2> QED BY <2>1, <2>2
<1>2. StateShape /\ StateClock /\ (c2' = c1 \/ c2' = c2) /\ c7 \in Nat /\ c7' \in Nat
  BY <1>1 DEF StateSound, StateShape, Ending
<1>3. StateShape'
  BY <1>1, <1>2, EmptyState, IdleJob DEF StateShape
<1>4. StateClock'
  BY <1>1, <1>2, EmptyState, IdleJob DEF StateShape, StateClock
<1>5. ASSUME c7' <= 1 PROVE StateKept'
  <2>1. c7 <= 1 /\ StateKept
    BY <1>1, <1>2, <1>5 DEF StateSound
  <2>2. c8 \subseteq Latest(c3, c2').work /\ (c7' = 0 => c2' = c3)
    <3>1. CASE c5.phase = "ending" /\ c2' = Ending /\ c7' = c7
      BY <2>1, <3>1 DEF StateKept
    <3>2. CASE c7' = c7 + 1 /\ c2' = c2
      <4>1. c7 = 0 /\ c7' # 0
        BY <1>2, <1>5, <3>2
      <4> QED BY <2>1, <3>2, <4>1 DEF StateKept
    <3> QED BY <1>1, <3>1, <3>2
  <2>3. Latest(c3, c2)' = Latest(c3, c2')
    BY <1>1 DEF Latest, ST!Newer
  <2> QED BY <1>1, <2>2, <2>3, IdleJob DEF StateKept
<1> QED BY <1>3, <1>4, <1>5 DEF StateSound

(* Every step of a job.                                                    *)
LEMMA StateStep ==
  ASSUME StateSound, ST!Next
  PROVE  StateSound'
BY StateStart, StateLoad, StateWatch, StateScan, StateSave, StateReport, StateFailed, StateRecover,
   StateEnds DEF ST!Next

(* It is claimed of behaviours of this part only.                          *)
StateInv == part = "state" => StateSound

(* Whichever one cache, upload or machine is lost, everything that a job   *)
(* has saved is in the state that the next job takes                       *)
(* (load_runtime_checkpoint, save_state, runtime_cache.validate).          *)
THEOREM OneFaultLosesNothing == Spec => []SavedWorkKept
<1>1. Init => StateInv
  <2>1. Init /\ part = "state" => ST!Init
    BY DEF Init
  <2> QED BY <2>1, StateInit DEF StateInv
<1>2. StateInv /\ [Next]_<<part, c1, c2, c3, c4, c5, c6, c7, c8, c9, c10>> => StateInv'
  <2> SUFFICES ASSUME StateInv, [Next]_<<part, c1, c2, c3, c4, c5, c6, c7, c8, c9, c10>>, part' = "state"
               PROVE  StateSound'
    BY DEF StateInv
  <2>1. part = "state" /\ StateSound
    BY DEF Next, StateInv
  <2>2. CASE UNCHANGED <<part, c1, c2, c3, c4, c5, c6, c7, c8, c9, c10>>
    BY <2>1, <2>2 DEF StateSound, StateShape, StateClock, StateKept, Latest, Ending, FileReplaces,
       ST!Newer, ST!Valid, ST!Stale
  <2>3. CASE Next
    <3>1. ST!Next
      BY <2>1, <2>3 DEF Next
    <3> QED BY <2>1, <3>1, StateStep
  <2> QED BY <2>2, <2>3
<1>3. StateInv => SavedWorkKept
  BY DEF StateInv, StateSound, StateShape, StateKept, Latest, SavedWorkKept, ST!SavedWorkKept
<1> QED BY <1>1, <1>2, <1>3, PTL DEF Spec

-----------------------------------------------------------------------------
(* ScanState: the two orders of the stores agree.                          *)

(* A stored state is no later than another one, by either order; two       *)
(* states that both orders compare alike, and two of one age.              *)
Behind(a, b) == a.rev <= b.rev /\ a.at <= b.at
Aligned(a, b) == Behind(a, b) \/ Behind(b, a)
SameAge(a, b) == a.rev = b.rev /\ a.at = b.at

(* A checkpoint that is later than the file, under a lower revision, is    *)
(* loaded and then refused.                                                *)
Inverted(r, s) == r.at > s.at /\ r.rev < s.rev

(* Between jobs, and at each phase of one, how the orders compare the      *)
(* stores: without a fault they are of one age, one fault leaves one       *)
(* behind the other, and only a third one inverts them, because a job that *)
(* met the second saves the same state to both.                            *)
StateOrder ==
    /\ c5.phase \in {"idle", "restored"} =>
         /\ ~Inverted(c3, c2)
         /\ c7 <= 1 => Aligned(c3, c2)
         /\ c7 = 0 => SameAge(c3, c2)
    /\ c5.phase = "restored" =>
         /\ c5.base = c1
         /\ c1 = c2 \/ (c1 = ST!Empty /\ c7 > 0 /\ (c7 <= 1 => SameAge(c3, c2)))
    /\ c5.phase \in {"loaded", "scanned"} =>
         /\ ~ST!Stale(c5.mem) /\ FileReplaces
         /\ c7 <= 1 => Aligned(c3, c2) /\ c2.rev <= c5.mem.rev
         /\ c7 = 0 => SameAge(c3, c2)
    /\ c5.phase = "saved" =>
         /\ c1 = c5.mem /\ c1.rev > 0 /\ c1.at = c6 /\ FileReplaces
         /\ c7 <= 1 => Aligned(c3, c1) /\ c2.rev <= c1.rev /\ ~Inverted(c3, c2)
         /\ c7 = 0 => SameAge(c3, c1)
    /\ c5.phase = "ending" =>
         /\ ~Inverted(c3, Ending)
         /\ c7 <= 1 => Aligned(c3, Ending) /\ ~Inverted(c3, c2)
         /\ c7 = 0 => SameAge(c3, Ending) /\ Aligned(c3, c2)

(* Of two faults at most.                                                  *)
StateOrdered == c7 <= 2 => StateOrder

(* What the orders compare.                                                *)
LEMMA StateAges ==
  ASSUME StateShape, StateClock
  PROVE  /\ c1.rev \in Nat /\ c1.at \in Nat /\ c2.rev \in Nat /\ c2.at \in Nat
         /\ c3.rev \in Nat /\ c3.at \in Nat /\ c5.mem.rev \in Nat /\ c5.mem.at \in Nat
         /\ c5.base.rev \in Nat /\ c5.base.at \in Nat /\ c6 \in Nat /\ c7 \in Nat
         /\ c1.at <= c6 /\ c2.at <= c6 /\ c3.at <= c6
         /\ c5.phase # "idle" => c2.at < c6
         /\ c5.phase \in {"restored", "loaded", "scanned"} => c3.at < c6
         /\ c5.phase \in {"idle", "restored", "loaded", "scanned", "saved", "ending"}
<1>1. c5.mem \in StateRecord /\ c5.base \in StateRecord /\ c5.phase \in ST!Phases
  BY DEF StateShape, StateJob
<1> QED BY <1>1 DEF StateShape, StateRecord, StateClock, ST!Phases

(* Before the first job the stores are of one age.                         *)
LEMMA OrderInit ==
  ASSUME ST!Init
  PROVE  StateOrdered
<1>1. c2 = ST!Empty /\ c3 = ST!Empty /\ c5 = ST!NoJob /\ c7 = 0
  BY DEF ST!Init
<1>2. SameAge(c3, c2) /\ Aligned(c3, c2) /\ ~Inverted(c3, c2)
  BY <1>1, EmptyState DEF SameAge, Aligned, Behind, Inverted
<1> QED BY <1>1, <1>2, IdleJob DEF StateOrdered, StateOrder

(* The job starts with the cached file, or without one.                    *)
LEMMA OrderStart ==
  ASSUME StateShape, StateClock, StateOrdered, NEW kind \in {"deep", "targeted", "recovery"}, ST!Start(kind)
  PROVE  StateOrdered'
<1>1. /\ c5.kind = "none" /\ UNCHANGED <<c2, c3>>
      /\ \/ c1' = c2 /\ c7' = c7
         \/ c1' = ST!Empty /\ c7' = c7 + 1
      /\ c5' = [ST!NoJob EXCEPT !.kind = kind, !.phase = "restored", !.base = c1']
  BY DEF ST!Start
<1>2. c5.phase = "idle" /\ c7 \in Nat
  BY <1>1 DEF StateShape
<1>3. c5' = [kind |-> kind, phase |-> "restored", mem |-> ST!Empty, base |-> c1']
  BY <1>1 DEF ST!NoJob
<1>4. c5'.phase = "restored" /\ c5'.base = c1'
  BY <1>3
<1>5. ASSUME c7' <= 2 PROVE StateOrder'
  <2>1. c7 <= 2 /\ (c7' <= 1 => c7 <= 1) /\ (c7' = 0 => c7 = 0)
    BY <1>1, <1>2, <1>5
  <2>2. /\ ~Inverted(c3, c2)
        /\ c7 <= 1 => Aligned(c3, c2)
        /\ c7 = 0 => SameAge(c3, c2)
    BY <1>2, <2>1 DEF StateOrdered, StateOrder
  <2>3. c1' = c2 \/ (c1' = ST!Empty /\ c7' > 0 /\ (c7' <= 1 => SameAge(c3, c2)))
    BY <1>1, <1>2, <2>2
  <2>4. /\ Inverted(c3, c2)' = Inverted(c3, c2) /\ Aligned(c3, c2)' = Aligned(c3, c2)
        /\ SameAge(c3, c2)' = SameAge(c3, c2)
    BY <1>1 DEF Inverted, Aligned, Behind, SameAge
  <2> QED BY <1>1, <1>4, <2>1, <2>2, <2>3, <2>4 DEF StateOrder
<1> QED BY <1>5 DEF StateOrdered

(* What the job loads is not behind the file, nor, after one fault, under  *)
(* a lower revision than the cache.                                        *)
LEMMA OrderLoad ==
  ASSUME StateShape, StateClock, StateOrdered, ST!Load
  PROVE  StateOrdered'
<1>1. /\ c5.phase = "restored" /\ UNCHANGED <<c1, c2, c3, c6>>
      /\ \/ c5' = [c5 EXCEPT !.phase = "loaded", !.mem = Latest(c3, c1)] /\ c7' = c7
         \/ c5' = [c5 EXCEPT !.phase = "loaded", !.mem = c1] /\ c7' = c7 + 1
  BY DEF ST!Load, Latest
<1>2. c1 \in StateRecord /\ Latest(c3, c1) \in StateRecord /\ "loaded" \in ST!Phases
  BY DEF StateShape, Latest, ST!Phases
<1> DEFINE mem == IF c7' = c7 THEN Latest(c3, c1) ELSE c1
<1>3. c7 \in Nat
  BY DEF StateShape
<1>4. mem \in StateRecord /\ c5' = [c5 EXCEPT !.phase = "loaded", !.mem = mem] /\ c7' \in Nat /\ c7 <= c7'
      /\ (c7' # c7 => mem = c1 /\ c7' = c7 + 1)
  <2>1. CASE c7' = c7
    <3>1. c5' = [c5 EXCEPT !.phase = "loaded", !.mem = Latest(c3, c1)]
      BY <1>1, <1>3, <2>1
    <3> QED BY <1>2, <1>3, <2>1, <3>1
  <2>2. CASE c7' # c7
    <3>1. c5' = [c5 EXCEPT !.phase = "loaded", !.mem = c1] /\ c7' = c7 + 1
      BY <1>1, <2>2
    <3> QED BY <1>2, <1>3, <2>2, <3>1
  <2> QED BY <2>1, <2>2
<1>5. (mem = c3 /\ ST!Newer(c3, c1) /\ c7' = c7) \/ (mem = c1 /\ (c7' = c7 => ~ST!Newer(c3, c1)))
  <2>1. CASE c7' = c7 /\ ST!Newer(c3, c1)
    BY <2>1 DEF Latest
  <2>2. CASE c7' = c7 /\ ~ST!Newer(c3, c1)
    BY <2>2 DEF Latest
  <2>3. CASE c7' # c7
    BY <2>3
  <2> QED BY <2>1, <2>2, <2>3
<1> HIDE DEF mem
<1>6. c5' = [kind |-> c5.kind, phase |-> "loaded", mem |-> mem, base |-> c5.base] /\ c5' \in StateJob
  BY <1>2, <1>4, JobPhase
<1>7. c5'.phase = "loaded" /\ c5'.mem = mem /\ c5'.base = c5.base
  BY <1>6
<1>8. ASSUME c7' <= 2 PROVE StateOrder'
  <2>1. c7 <= 2 /\ (c7' <= 1 => c7 <= 1) /\ (c7' = 0 => c7 = 0)
    BY <1>3, <1>4, <1>8
  <2>2. /\ ~Inverted(c3, c2)
        /\ c7 <= 1 => Aligned(c3, c2)
        /\ c7 = 0 => SameAge(c3, c2)
        /\ c5.base = c1
        /\ c1 = c2 \/ (c1 = ST!Empty /\ c7 > 0 /\ (c7 <= 1 => SameAge(c3, c2)))
    BY <1>1, <2>1 DEF StateOrdered, StateOrder
  <2>3. /\ c1.rev \in Nat /\ c1.at \in Nat /\ c2.rev \in Nat /\ c2.at \in Nat
        /\ c3.rev \in Nat /\ c3.at \in Nat
    BY StateAges
  <2>4. ~ST!Stale(mem)
    <3>1. CASE mem = c1
      BY <2>3, <3>1 DEF ST!Stale
    <3>2. CASE mem = c3 /\ ST!Newer(c3, c1) /\ c1 = c2
      BY <2>2, <2>3, <3>2 DEF ST!Stale, ST!Newer, Inverted
    <3>3. CASE mem = c3 /\ c1 = ST!Empty
      BY <2>3, <3>3, EmptyState DEF ST!Stale
    <3> QED BY <1>5, <2>2, <3>1, <3>2, <3>3
  <2>5. c7' <= 1 => c2.rev <= mem.rev
    <3> SUFFICES ASSUME c7' <= 1 PROVE c2.rev <= mem.rev
      OBVIOUS
    <3>1. CASE c1 = c2
      <4>1. CASE mem = c1
        BY <2>3, <3>1, <4>1
      <4>2. CASE mem = c3 /\ ST!Newer(c3, c1)
        BY <2>1, <2>2, <2>3, <3>1, <4>2 DEF ST!Newer, Aligned, Behind
      <4> QED BY <1>5, <4>1, <4>2
    <3>2. CASE c1 # c2 /\ c1 = ST!Empty /\ c7 > 0
      <4>1. c7' = c7 /\ SameAge(c3, c2)
        <5>1. c7' = c7
          BY <1>3, <1>4, <3>2
        <5>2. c7 <= 1
          BY <5>1
        <5> QED BY <2>2, <3>2, <5>1, <5>2
      <4>2. CASE mem = c3
        BY <2>3, <4>1, <4>2 DEF SameAge
      <4>3. CASE mem = c1 /\ ~ST!Newer(c3, c1)
        BY <2>3, <3>2, <4>1, <4>3, EmptyState DEF SameAge, ST!Newer
      <4> QED BY <1>5, <4>1, <4>2, <4>3
    <3> QED BY <2>2, <3>1, <3>2
  <2>6. FileReplaces' /\ ~ST!Stale(c5.mem)'
    <3>1. FileReplaces'
      BY <1>1, <1>7, <2>2, <2>3 DEF FileReplaces
    <3>2. ~ST!Stale(c5.mem)'
      BY <1>1, <1>7, <2>4 DEF ST!Stale
    <3> QED BY <3>1, <3>2
  <2>7. Aligned(c3, c2)' = Aligned(c3, c2) /\ SameAge(c3, c2)' = SameAge(c3, c2)
    BY <1>1 DEF Aligned, Behind, SameAge
  <2> QED BY <1>1, <1>7, <2>1, <2>2, <2>5, <2>6, <2>7 DEF StateOrder
<1> QED BY <1>8 DEF StateOrdered

(* The watch list raises the file's revision above what it replaces.       *)
LEMMA OrderWatch ==
  ASSUME StateShape, StateClock, StateOrdered, ST!SaveWatch
  PROVE  StateOrdered'
<1>1. /\ c5.phase = "loaded" /\ UNCHANGED <<c2, c3, c6, c7>>
      /\ c1' = ST!Revised(c5.mem) /\ c5' = [c5 EXCEPT !.mem = c1']
  BY DEF ST!SaveWatch
<1>2. c5.mem \in StateRecord
  BY DEF StateShape, StateJob
<1>3. c1' \in StateRecord /\ c1'.at = c6 /\ c1'.rev > c5.mem.rev /\ c1'.rev > c1.rev
  BY <1>1, <1>2, RevisedState
<1>4. c5'.phase = "loaded" /\ c5'.mem = c1' /\ c5'.base = c5.base
  <2> DEFINE m == c1'
  <2>1. c5' = [c5 EXCEPT !.mem = m]
    BY <1>1
  <2> HIDE DEF m
  <2>2. c5' = [kind |-> c5.kind, phase |-> "loaded", mem |-> m, base |-> c5.base]
    BY <1>1, <2>1 DEF StateShape, StateJob
  <2> QED BY <2>2 DEF m
<1>5. ASSUME c7' <= 2 PROVE StateOrder'
  <2>1. /\ FileReplaces
        /\ c7 <= 1 => Aligned(c3, c2) /\ c2.rev <= c5.mem.rev
        /\ c7 = 0 => SameAge(c3, c2)
    BY <1>1, <1>5 DEF StateOrdered, StateOrder
  <2>2. /\ c1.rev \in Nat /\ c1.at \in Nat /\ c2.rev \in Nat /\ c5.mem.rev \in Nat /\ c5.base.rev \in Nat
        /\ c5.base.at \in Nat /\ c6 \in Nat /\ c1.at <= c6 /\ c1'.rev \in Nat /\ c1'.at \in Nat
    BY <1>3, StateAges DEF StateRecord
  <2>3. FileReplaces'
    <3>1. c5.base.rev <= c1'.rev /\ c5.base.at <= c1'.at
      BY <1>3, <2>1, <2>2 DEF FileReplaces
    <3> QED BY <1>4, <3>1 DEF FileReplaces
  <2>4. ~ST!Stale(c5.mem)'
    BY <1>4, <2>2 DEF ST!Stale
  <2>5. c7 <= 1 => c2.rev <= c1'.rev
    BY <1>3, <2>1, <2>2
  <2>6. Aligned(c3, c2)' = Aligned(c3, c2) /\ SameAge(c3, c2)' = SameAge(c3, c2)
    BY <1>1 DEF Aligned, Behind, SameAge
  <2> QED BY <1>1, <1>4, <2>1, <2>3, <2>4, <2>5, <2>6 DEF StateOrder
<1> QED BY <1>5 DEF StateOrdered

(* The scan does not touch revisions and times.                            *)
LEMMA OrderScan ==
  ASSUME StateShape, StateClock, StateOrdered, ST!Scan
  PROVE  StateOrdered'
<1> DEFINE work == c5.mem.work \cup {c6}
           deep == IF c5.kind = "deep" THEN c6 ELSE c5.mem.deep
           mem == [rev |-> c5.mem.rev, at |-> c5.mem.at, deep |-> deep, work |-> work]
<1>1. /\ c5.phase = "loaded" /\ UNCHANGED <<c1, c2, c3, c6, c7>>
      /\ c5' = [c5 EXCEPT !.phase = "scanned", !.mem.work = work, !.mem.deep = deep]
  BY DEF ST!Scan
<1>2. c5 \in StateJob /\ c5.mem \in StateRecord
  BY DEF StateShape, StateJob
<1> HIDE DEF work, deep
<1>3. c5' = [kind |-> c5.kind, phase |-> "scanned", mem |-> mem, base |-> c5.base]
  BY <1>1, <1>2 DEF StateJob, StateRecord
<1>4. mem.rev = c5.mem.rev /\ mem.at = c5.mem.at
  OBVIOUS
<1> HIDE DEF mem
<1>5. c5'.phase = "scanned" /\ c5'.mem.rev = c5.mem.rev /\ c5'.mem.at = c5.mem.at /\ c5'.base = c5.base
  BY <1>3, <1>4
<1>6. ASSUME c7' <= 2 PROVE StateOrder'
  <2>1. /\ ~ST!Stale(c5.mem) /\ FileReplaces
        /\ c7 <= 1 => Aligned(c3, c2) /\ c2.rev <= c5.mem.rev
        /\ c7 = 0 => SameAge(c3, c2)
    BY <1>1, <1>6 DEF StateOrdered, StateOrder
  <2>2. ~ST!Stale(c5.mem)' /\ FileReplaces'
    BY <1>1, <1>5, <2>1 DEF ST!Stale, FileReplaces
  <2>3. Aligned(c3, c2)' = Aligned(c3, c2) /\ SameAge(c3, c2)' = SameAge(c3, c2)
    BY <1>1 DEF Aligned, Behind, SameAge
  <2> QED BY <1>1, <1>5, <2>1, <2>2, <2>3 DEF StateOrder
<1> QED BY <1>6 DEF StateOrdered

(* A save and its upload: after one loss at most the two stores are        *)
(* aligned, and the file is not behind the cache.                          *)
LEMMA OrderTogether ==
  ASSUME StateShape, StateClock, StateOrdered, c5.phase \in {"loaded", "scanned", "saved"},
         NEW new, new = ST!Revised(c5.mem), ST!Upload(new)
  PROVE  /\ new \in StateRecord /\ new.rev > 0 /\ new.at = c6
         /\ c7' <= 2 =>
              /\ c5.base.rev <= new.rev /\ c5.base.at <= new.at
              /\ ~Inverted(c3', new)
              /\ c7' <= 1 => Aligned(c3', new) /\ c2.rev <= new.rev /\ ~Inverted(c3', c2)
              /\ c7' = 0 => SameAge(c3', new)
<1>1. c5.mem \in StateRecord
  BY DEF StateShape, StateJob
<1>2. /\ new \in StateRecord /\ new.at = c6 /\ new.rev > c5.mem.rev /\ new.rev > c1.rev
  BY <1>1, RevisedState
<1>3. /\ c1.rev \in Nat /\ c1.at \in Nat /\ c2.rev \in Nat /\ c2.at \in Nat
      /\ c3.rev \in Nat /\ c3.at \in Nat /\ c5.mem.rev \in Nat
      /\ c5.base.rev \in Nat /\ c5.base.at \in Nat /\ c6 \in Nat /\ c7 \in Nat
      /\ c1.at <= c6 /\ c2.at < c6 /\ c3.at <= c6 /\ (c5.phase # "saved" => c3.at < c6)
  BY StateAges
<1>4. new.rev \in Nat /\ new.at \in Nat
  BY <1>2 DEF StateRecord
<1>5. \/ c3' = new /\ c7' = c7
      \/ c3' = c3 /\ c7' = c7 /\ ~ST!Newer(new, c3)
      \/ c3' = c3 /\ c7' = c7 + 1
  BY UploadedState
<1>6. ASSUME c7' <= 2
      PROVE  /\ c5.base.rev <= new.rev /\ c5.base.at <= new.at
             /\ ~Inverted(c3', new)
             /\ c7' <= 1 => Aligned(c3', new) /\ c2.rev <= new.rev /\ ~Inverted(c3', c2)
             /\ c7' = 0 => SameAge(c3', new)
  <2>1. StateOrder /\ (c7' <= 1 => c7 <= 1) /\ (c7' = 0 => c7 = 0)
    BY <1>3, <1>5, <1>6 DEF StateOrdered
  <2>2. FileReplaces /\ (c5.phase = "saved" => c1 = c5.mem /\ c1.at = c6)
    BY <2>1 DEF StateOrder
  <2>3. c5.base.rev <= new.rev /\ c5.base.at <= new.at
    BY <1>2, <1>3, <1>4, <2>2 DEF FileReplaces
  <2>4. ~Inverted(c3', new)
    <3>1. CASE c3' = new
      BY <1>4, <3>1 DEF Inverted
    <3>2. CASE c3' = c3
      BY <1>2, <1>3, <1>4, <3>2 DEF Inverted
    <3> QED BY <1>5, <3>1, <3>2
  <2>5. c7' <= 1 => c2.rev <= new.rev
    <3>1. c7 <= 1 => c2.rev <= c5.mem.rev
      BY <2>1, <2>2 DEF StateOrder
    <3> QED BY <1>2, <1>3, <1>4, <2>1, <3>1
  <2>6. c7 = 0 => c3.rev <= new.rev /\ ST!Newer(new, c3)
    <3>1. CASE c5.phase = "saved"
      <4>1. c7 = 0 => c3.rev = c1.rev /\ c3.at = c1.at
        BY <2>1, <3>1 DEF StateOrder, SameAge
      <4> QED BY <1>2, <1>3, <1>4, <2>2, <3>1, <4>1 DEF ST!Newer
    <3>2. CASE c5.phase # "saved"
      <4>1. c7 = 0 => c3.rev = c2.rev /\ c2.rev <= c5.mem.rev
        BY <2>1, <3>2 DEF StateOrder, SameAge
      <4> QED BY <1>2, <1>3, <1>4, <3>2, <4>1 DEF ST!Newer
    <3> QED BY <3>1, <3>2
  <2>7. CASE c3' = new /\ c7' = c7
    <3>1. SameAge(c3', new) /\ Aligned(c3', new)
      BY <1>4, <2>7 DEF SameAge, Aligned, Behind
    <3>2. c7' <= 1 => ~Inverted(c3', c2)
      BY <1>3, <1>4, <2>5, <2>7 DEF Inverted
    <3> QED BY <2>3, <2>4, <2>5, <3>1, <3>2
  <2>8. CASE c3' = c3 /\ c7' = c7 /\ ~ST!Newer(new, c3)
    <3>1. c7 # 0
      BY <2>6, <2>8
    <3>2. c3.at = c6 /\ new.rev <= c3.rev
      BY <1>2, <1>3, <1>4, <2>8 DEF ST!Newer
    <3>3. Aligned(c3', new)
      BY <1>2, <1>3, <1>4, <2>8, <3>2 DEF Aligned, Behind
    <3>4. c7' <= 1 => ~Inverted(c3', c2)
      BY <1>3, <1>4, <2>5, <2>8, <3>2 DEF Inverted
    <3> QED BY <2>3, <2>4, <2>5, <2>8, <3>1, <3>3, <3>4
  <2>9. CASE c3' = c3 /\ c7' = c7 + 1
    <3>1. c7' # 0 /\ (c7' <= 1 => c7 = 0)
      BY <1>3, <2>9
    <3>2. c7 = 0 => Aligned(c3', new)
      BY <1>2, <1>3, <1>4, <2>6, <2>9 DEF Aligned, Behind
    <3>3. c7 = 0 => ~Inverted(c3, c2)
      BY <1>3, <2>1 DEF StateOrder, SameAge, Inverted
    <3>4. c7' <= 1 => ~Inverted(c3', c2)
      BY <2>9, <3>1, <3>3 DEF Inverted
    <3> QED BY <2>3, <2>4, <2>5, <3>1, <3>2, <3>4
  <2> QED BY <1>5, <2>7, <2>8, <2>9
<1>7. new.rev > 0
  BY <1>2, <1>3, <1>4
<1> QED BY <1>2, <1>6, <1>7

(* The save at the end of the scan.                                        *)
LEMMA OrderSave ==
  ASSUME StateShape, StateClock, StateOrdered, ST!SaveState
  PROVE  StateOrdered'
<1> DEFINE new == c1'
<1>1. /\ c5.phase = "scanned" /\ UNCHANGED <<c2, c6>> /\ new = ST!Revised(c5.mem) /\ ST!Upload(new)
      /\ c5' = [c5 EXCEPT !.phase = "saved", !.mem = new]
  BY DEF ST!SaveState
<1> HIDE DEF new
<1>2. /\ new \in StateRecord /\ new.rev > 0 /\ new.at = c6
      /\ c7' <= 2 =>
           /\ c5.base.rev <= new.rev /\ c5.base.at <= new.at
           /\ ~Inverted(c3', new)
           /\ c7' <= 1 => Aligned(c3', new) /\ c2.rev <= new.rev /\ ~Inverted(c3', c2)
           /\ c7' = 0 => SameAge(c3', new)
  BY <1>1, OrderTogether
<1>3. "saved" \in ST!Phases
  BY DEF ST!Phases
<1>4. c5' = [kind |-> c5.kind, phase |-> "saved", mem |-> new, base |-> c5.base]
  BY <1>1, <1>2, <1>3, JobPhase
<1>5. c5'.phase = "saved" /\ c5'.mem = new /\ c5'.base = c5.base /\ c1' = new
  BY <1>4 DEF new
<1>6. ASSUME c7' <= 2 PROVE StateOrder'
  <2>1. FileReplaces'
    BY <1>2, <1>5, <1>6 DEF FileReplaces
  <2>2. /\ Aligned(c3, c1)' = Aligned(c3', new) /\ SameAge(c3, c1)' = SameAge(c3', new)
        /\ Inverted(c3, c2)' = Inverted(c3', c2)
    BY <1>1, <1>5 DEF Aligned, Behind, SameAge, Inverted
  <2> QED BY <1>1, <1>2, <1>5, <1>6, <2>1, <2>2 DEF StateOrder
<1> QED BY <1>6 DEF StateOrdered

(* The report changes no store, and the saved file will be cached.         *)
LEMMA OrderReport ==
  ASSUME StateShape, StateClock, StateOrdered, ST!Report
  PROVE  StateOrdered'
<1>1. /\ c5.phase = "saved" /\ UNCHANGED <<c1, c2, c3, c6, c7>>
      /\ c5' = [c5 EXCEPT !.phase = "ending"]
  BY DEF ST!Report
<1>2. "ending" \in ST!Phases
  BY DEF ST!Phases
<1>3. c5' = [kind |-> c5.kind, phase |-> "ending", mem |-> c5.mem, base |-> c5.base]
  BY <1>1, <1>2, JobTurns
<1>4. c5'.phase = "ending" /\ c5'.base = c5.base
  BY <1>3
<1>5. ASSUME c7' <= 2 PROVE StateOrder'
  <2>1. /\ c1.rev > 0 /\ c1.at = c6 /\ FileReplaces
        /\ c7 <= 1 => Aligned(c3, c1) /\ c2.rev <= c1.rev /\ ~Inverted(c3, c2)
        /\ c7 = 0 => SameAge(c3, c1)
    BY <1>1, <1>5 DEF StateOrdered, StateOrder
  <2>2. /\ c1.rev \in Nat /\ c1.at \in Nat /\ c2.rev \in Nat /\ c2.at \in Nat /\ c3.rev \in Nat /\ c3.at \in Nat
        /\ c5.base.rev \in Nat /\ c5.base.at \in Nat /\ c2.at < c6 /\ c3.at <= c6 /\ c6 \in Nat /\ c7 \in Nat
    BY <1>1, StateAges
  <2>3. Ending' = c1
    <3>1. c1.rev > 0 /\ c1.rev >= c5.base.rev /\ c1.at >= c5.base.at
      BY <2>1, <2>2 DEF FileReplaces
    <3>2. ST!Valid'
      BY <1>1, <1>4, <3>1 DEF ST!Valid
    <3> QED BY <1>1, <3>2 DEF Ending
  <2>4. ~Inverted(c3, c1)
    BY <2>1, <2>2 DEF Inverted
  <2>5. c7 = 0 => Aligned(c3, c2)
    BY <2>1, <2>2 DEF SameAge, Aligned, Behind
  <2>6. /\ Inverted(c3, Ending)' = Inverted(c3, c1) /\ Aligned(c3, Ending)' = Aligned(c3, c1)
        /\ SameAge(c3, Ending)' = SameAge(c3, c1) /\ Inverted(c3, c2)' = Inverted(c3, c2)
        /\ Aligned(c3, c2)' = Aligned(c3, c2)
    BY <1>1, <2>3 DEF Inverted, Aligned, Behind, SameAge
  <2> QED BY <1>1, <1>4, <2>1, <2>4, <2>5, <2>6 DEF StateOrder
<1> QED BY <1>5 DEF StateOrdered

(* A failed attempt is saved, for its state is not refused.                *)
LEMMA OrderFailed ==
  ASSUME StateShape, StateClock, StateOrdered, ST!FailedAttempt
  PROVE  StateOrdered'
<1>1. /\ c5.phase \in {"loaded", "scanned", "saved"} /\ UNCHANGED <<c2, c6>>
      /\ c5' = [c5 EXCEPT !.phase = "ending"]
      /\ ST!Stale(c5.mem) => UNCHANGED <<c1, c3, c7>>
      /\ ~ST!Stale(c5.mem) => c1' = ST!Revised(c5.mem) /\ ST!Upload(c1')
  BY DEF ST!FailedAttempt
<1>2. "ending" \in ST!Phases
  BY DEF ST!Phases
<1>3. c5' = [kind |-> c5.kind, phase |-> "ending", mem |-> c5.mem, base |-> c5.base]
  BY <1>1, <1>2, JobTurns
<1>4. c5'.phase = "ending" /\ c5'.base = c5.base
  BY <1>3
<1>5. c7 <= 2 => ~ST!Stale(c5.mem)
  <2>1. c1.rev \in Nat /\ c1.at \in Nat
    BY StateAges
  <2>2. ~ST!Stale(c1)
    BY <2>1 DEF ST!Stale
  <2>3. CASE c5.phase = "saved"
    BY <2>2, <2>3 DEF StateOrdered, StateOrder
  <2>4. CASE c5.phase # "saved"
    BY <1>1, <2>4 DEF StateOrdered, StateOrder
  <2> QED BY <2>3, <2>4
<1>6. CASE ST!Stale(c5.mem)
  BY <1>1, <1>5, <1>6 DEF StateOrdered
<1>7. CASE ~ST!Stale(c5.mem)
  <2> DEFINE new == c1'
  <2>1. new = ST!Revised(c5.mem) /\ ST!Upload(new) /\ c1' = new
    BY <1>1, <1>7
  <2> HIDE DEF new
  <2>2. /\ new \in StateRecord /\ new.rev > 0 /\ new.at = c6
        /\ c7' <= 2 =>
             /\ c5.base.rev <= new.rev /\ c5.base.at <= new.at
             /\ ~Inverted(c3', new)
             /\ c7' <= 1 => Aligned(c3', new) /\ c2.rev <= new.rev /\ ~Inverted(c3', c2)
             /\ c7' = 0 => SameAge(c3', new)
    BY <1>1, <2>1, OrderTogether
  <2>3. ASSUME c7' <= 2 PROVE StateOrder'
    <3>1. /\ new.rev \in Nat /\ new.at \in Nat /\ c5.base.rev \in Nat /\ c5.base.at \in Nat
          /\ c2.rev \in Nat /\ c2.at \in Nat /\ c2.at < c6 /\ c6 \in Nat /\ c7 \in Nat
      BY <1>1, <2>2, StateAges DEF StateRecord
    <3>2. ST!Valid'
      <4>1. new.rev > 0 /\ new.rev >= c5.base.rev /\ new.at >= c5.base.at
        BY <2>2, <2>3, <3>1
      <4> QED BY <1>4, <2>1, <4>1 DEF ST!Valid
    <3>3. Ending' = new
      BY <2>1, <3>2 DEF Ending
    <3>4. c7' = 0 => Aligned(c3', c2)
      <4>1. c7' = 0 => SameAge(c3', new) /\ c2.rev <= new.rev
        BY <2>2, <2>3
      <4>2. c2.at <= new.at
        BY <2>2, <3>1
      <4> QED BY <4>1, <4>2 DEF SameAge, Aligned, Behind
    <3>5. /\ Inverted(c3, Ending)' = Inverted(c3', new) /\ Aligned(c3, Ending)' = Aligned(c3', new)
          /\ SameAge(c3, Ending)' = SameAge(c3', new) /\ Inverted(c3, c2)' = Inverted(c3', c2)
          /\ Aligned(c3, c2)' = Aligned(c3', c2)
      BY <1>1, <3>3 DEF Inverted, Aligned, Behind, SameAge
    <3> QED BY <1>4, <2>2, <2>3, <3>4, <3>5 DEF StateOrder
  <2> QED BY <2>3 DEF StateOrdered
<1> QED BY <1>6, <1>7

(* Recovery only copies one of the two stores to the other.                *)
LEMMA OrderRecover ==
  ASSUME StateShape, StateClock, StateOrdered, ST!Recover
  PROVE  StateOrdered'
<1>1. /\ c5.phase = "restored" /\ UNCHANGED c2
      /\ c5' = [c5 EXCEPT !.phase = "ending"]
      /\ \/ c1.rev = 0 /\ UNCHANGED <<c1, c3, c7>>
         \/ c1.rev # 0 /\ c1' = c3 /\ UNCHANGED <<c3, c7>>
         \/ c1.rev # 0 /\ UNCHANGED c1 /\ ST!Upload(c1)
  BY DEF ST!Recover
<1>2. "ending" \in ST!Phases
  BY DEF ST!Phases
<1>3. c5' = [kind |-> c5.kind, phase |-> "ending", mem |-> c5.mem, base |-> c5.base]
  BY <1>1, <1>2, JobTurns
<1>4. c5'.phase = "ending" /\ c5'.base = c5.base
  BY <1>3
<1>5. /\ c2.rev \in Nat /\ c2.at \in Nat /\ c3.rev \in Nat /\ c3.at \in Nat /\ c7 \in Nat
  BY StateAges
<1>6. c7 <= c7' /\ c7' \in Nat
  <2>1. CASE ST!Upload(c1)
    BY <1>5, <2>1, UploadedState
  <2>2. CASE c7' = c7
    BY <1>5, <2>2
  <2> QED BY <1>1, <2>1, <2>2
<1>7. ASSUME c7' <= 2 PROVE StateOrder'
  <2>1. c7 <= 2 /\ (c7' <= 1 => c7 <= 1) /\ (c7' = 0 => c7 = 0)
    BY <1>5, <1>6, <1>7
  <2>2. /\ ~Inverted(c3, c2)
        /\ c7 <= 1 => Aligned(c3, c2)
        /\ c7 = 0 => SameAge(c3, c2)
        /\ c1 = c2 \/ c1 = ST!Empty
    BY <1>1, <2>1 DEF StateOrdered, StateOrder
  <2>3. (c3' = c3 \/ c3' = c2) /\ (Ending' = c2 \/ Ending' = c3')
    <3>1. CASE c1.rev = 0 /\ UNCHANGED <<c1, c3, c7>>
      <4>1. ~ST!Valid'
        BY <3>1 DEF ST!Valid
      <4> QED BY <1>1, <3>1, <4>1 DEF Ending
    <3>2. CASE c1' = c3 /\ UNCHANGED <<c3, c7>>
      BY <1>1, <3>2 DEF Ending
    <3>3. CASE c1.rev # 0 /\ UNCHANGED c1 /\ ST!Upload(c1)
      <4>1. c1 = c2
        BY <2>2, <3>3, EmptyState
      <4>2. c3' = c3 \/ c3' = c2
        BY <3>3, <4>1, UploadedState
      <4> QED BY <1>1, <3>3, <4>1, <4>2 DEF Ending
    <3> QED BY <1>1, <3>1, <3>2, <3>3
  <2>4. \A s \in {c2, c3} : ~Inverted(s, s) /\ Aligned(s, s) /\ SameAge(s, s)
    BY <1>5 DEF Inverted, Aligned, Behind, SameAge
  <2>5. /\ ~Inverted(c3', Ending') /\ ~Inverted(c3', c2)
        /\ c7' <= 1 => Aligned(c3', Ending')
        /\ c7' = 0 => SameAge(c3', Ending') /\ Aligned(c3', c2)
    <3>1. CASE c3' = c3 /\ Ending' = c2
      BY <2>1, <2>2, <3>1
    <3>2. CASE c3' = c3 /\ Ending' = c3'
      BY <2>1, <2>2, <2>4, <3>2
    <3>3. CASE c3' = c2
      BY <2>3, <2>4, <3>3
    <3> QED BY <2>3, <3>1, <3>2, <3>3
  <2>6. /\ Inverted(c3, Ending)' = Inverted(c3', Ending') /\ Aligned(c3, Ending)' = Aligned(c3', Ending')
        /\ SameAge(c3, Ending)' = SameAge(c3', Ending') /\ Inverted(c3, c2)' = Inverted(c3', c2)
        /\ Aligned(c3, c2)' = Aligned(c3', c2)
    BY <1>1 DEF Inverted, Aligned, Behind, SameAge
  <2> QED BY <1>4, <2>5, <2>6 DEF StateOrder
<1> QED BY <1>7 DEF StateOrdered

(* A job that ends with its file cached leaves the stores as they were     *)
(* compared; a lost machine or cache save is a fault.                      *)
LEMMA OrderEnds ==
  ASSUME StateShape, StateClock, StateOrdered, ST!End \/ ST!Die
  PROVE  StateOrdered'
<1>1. /\ c5' = ST!NoJob /\ UNCHANGED c3 /\ c5.phase # "idle"
      /\ \/ c5.phase = "ending" /\ c2' = Ending /\ c7' = c7
         \/ c7' = c7 + 1 /\ c2' = c2
  <2>1. CASE ST!End
    BY <2>1 DEF ST!End, Ending
  <2>2. CASE ST!Die
    BY <2>2 DEF ST!Die, StateShape
  <2> QED BY <2>1, <2>2
<1>2. /\ c1.rev \in Nat /\ c1.at \in Nat /\ c2.rev \in Nat /\ c2.at \in Nat /\ c3.rev \in Nat /\ c3.at \in Nat
      /\ c7 \in Nat /\ c6 \in Nat /\ c2.at < c6
      /\ c5.phase \in {"restored", "loaded", "scanned", "saved", "ending"}
  BY <1>1, StateAges
<1>3. ASSUME c7' <= 2 PROVE StateOrder'
  <2>1. CASE c5.phase = "ending" /\ c2' = Ending /\ c7' = c7
    <3>1. /\ ~Inverted(c3, Ending)
          /\ c7 <= 1 => Aligned(c3, Ending)
          /\ c7 = 0 => SameAge(c3, Ending)
      BY <1>3, <2>1 DEF StateOrdered, StateOrder
    <3>2. /\ Inverted(c3, c2)' = Inverted(c3, Ending) /\ Aligned(c3, c2)' = Aligned(c3, Ending)
          /\ SameAge(c3, c2)' = SameAge(c3, Ending)
      BY <1>1, <2>1 DEF Inverted, Aligned, Behind, SameAge
    <3> QED BY <1>1, <2>1, <3>1, <3>2, IdleJob DEF StateOrder
  <2>2. CASE c7' = c7 + 1 /\ c2' = c2
    <3>1. StateOrder /\ c7 <= 1 /\ c7' # 0 /\ (c7' <= 1 => c7 = 0)
      BY <1>2, <1>3, <2>2 DEF StateOrdered
    <3>2. ~Inverted(c3, c2)
      <4>1. CASE c5.phase = "restored"
        BY <3>1, <4>1 DEF StateOrder
      <4>2. CASE c5.phase \in {"loaded", "scanned"}
        BY <1>2, <3>1, <4>2 DEF StateOrder, Aligned, Behind, Inverted
      <4>3. CASE c5.phase \in {"saved", "ending"}
        BY <3>1, <4>3 DEF StateOrder
      <4> QED BY <1>2, <4>1, <4>2, <4>3
    <3>3. c7 = 0 => Aligned(c3, c2)
      <4>1. CASE c5.phase \in {"restored", "loaded", "scanned"}
        BY <3>1, <4>1 DEF StateOrder
      <4>2. CASE c5.phase = "saved"
        <5>1. c7 = 0 => c3.rev = c1.rev /\ c3.at = c1.at
          BY <3>1, <4>2 DEF StateOrder, SameAge
        <5>2. c2.rev <= c1.rev /\ c1.at = c6
          BY <3>1, <4>2 DEF StateOrder
        <5> QED BY <1>2, <5>1, <5>2 DEF Aligned, Behind
      <4>3. CASE c5.phase = "ending"
        BY <3>1, <4>3 DEF StateOrder
      <4> QED BY <1>2, <4>1, <4>2, <4>3
    <3>4. Inverted(c3, c2)' = Inverted(c3, c2) /\ Aligned(c3, c2)' = Aligned(c3, c2)
      BY <1>1, <2>2 DEF Inverted, Aligned, Behind
    <3> QED BY <1>1, <3>1, <3>2, <3>3, <3>4, IdleJob DEF StateOrder
  <2> QED BY <1>1, <2>1, <2>2
<1> QED BY <1>3 DEF StateOrdered

(* Every step of a job.                                                    *)
LEMMA OrderStep ==
  ASSUME StateShape, StateClock, StateOrdered, ST!Next
  PROVE  StateOrdered'
BY OrderStart, OrderLoad, OrderWatch, OrderScan, OrderSave, OrderReport, OrderFailed, OrderRecover,
   OrderEnds DEF ST!Next

(* The stores are sound and ordered, in the behaviours of this part.       *)
OrderInv == part = "state" => StateSound /\ StateOrdered

(* After two faults at most, what a job loaded is not refused by the file  *)
(* beside it, although a load compares by time and a save by revision      *)
(* (load_runtime_checkpoint, StaleStateRevisionError).                     *)
THEOREM LoadedIsNotRefused == Spec => []NeverRefused
<1>1. Init => OrderInv
  <2>1. Init /\ part = "state" => ST!Init
    BY DEF Init
  <2> QED BY <2>1, StateInit, OrderInit DEF OrderInv
<1>2. OrderInv /\ [Next]_<<part, c1, c2, c3, c4, c5, c6, c7, c8, c9, c10>> => OrderInv'
  <2> SUFFICES ASSUME OrderInv, [Next]_<<part, c1, c2, c3, c4, c5, c6, c7, c8, c9, c10>>, part' = "state"
               PROVE  StateSound' /\ StateOrdered'
    BY DEF OrderInv
  <2>1. part = "state" /\ StateSound /\ StateOrdered /\ StateShape /\ StateClock
    BY DEF Next, OrderInv, StateSound
  <2>2. CASE UNCHANGED <<part, c1, c2, c3, c4, c5, c6, c7, c8, c9, c10>>
    <3>1. StateSound'
      BY <2>1, <2>2 DEF StateSound, StateShape, StateClock, StateKept, Latest, Ending, FileReplaces,
         ST!Newer, ST!Valid, ST!Stale
    <3>2. StateOrdered'
      BY <2>1, <2>2 DEF StateOrdered, StateOrder, Ending, FileReplaces, ST!Valid, ST!Stale,
         Inverted, Aligned, Behind, SameAge
    <3> QED BY <3>1, <3>2
  <2>3. CASE Next
    <3>1. ST!Next
      BY <2>1, <2>3 DEF Next
    <3> QED BY <2>1, <3>1, StateStep, OrderStep
  <2> QED BY <2>2, <2>3
<1>3. OrderInv => NeverRefused
  <2> SUFFICES ASSUME OrderInv, part = "state", c7 <= 2, c5.phase \in {"loaded", "scanned", "saved"}
               PROVE  ~ST!Stale(c5.mem)
    BY DEF NeverRefused, ST!NeverRefused
  <2>1. StateOrder /\ StateShape /\ StateClock
    BY DEF OrderInv, StateOrdered, StateSound
  <2>2. CASE c5.phase = "saved"
    <3>1. c1 = c5.mem /\ c1.rev \in Nat /\ c1.at \in Nat
      BY <2>1, <2>2, StateAges DEF StateOrder
    <3> QED BY <3>1 DEF ST!Stale
  <2>3. CASE c5.phase # "saved"
    BY <2>1, <2>3 DEF StateOrder
  <2> QED BY <2>2, <2>3
<1> QED BY <1>1, <1>2, <1>3, PTL DEF Spec

-----------------------------------------------------------------------------
(* StorageMigration: a verified destination is complete.                   *)

(* A destination database, and a run of the migration tool.                *)
Destination == [status : {"empty", "importing", "verified"}, rows : SUBSET (1..MigrationPages),
                receipts : SUBSET (1..MigrationPages), foreign : 0..MigrationPages,
                seq : {"auto", "source", "next"}, upgraded : BOOLEAN]
Migrating == [step : MI!Steps, page : 1..(MigrationPages + 1), end : MI!Ends]

(* The migration's variables have their shape.                             *)
MigrationShape ==
    /\ c1 \in Destination /\ c2 \subseteq MI!Writes /\ c4 \in Migrating /\ c8 \in BOOLEAN
    /\ c4.step = "prove" => c4.page \in 1..MigrationPages

(* Every row of the exports and no other, upgraded, and the sequences set. *)
Whole(dest) ==
    /\ dest.rows = 1..MigrationPages /\ dest.foreign = 0 /\ dest.upgraded
    /\ dest.seq \in IF c8 THEN {"source", "next"} ELSE {"source"}

(* How far the destination is when the run is at its last steps, when a    *)
(* last write may still commit, and when it has.                           *)
MigrationCourse ==
    /\ c4.step = "final" => c1.upgraded
    /\ c4.step = "finish" => Whole(c1)
    /\ (\E w \in c2 : w[1] = "finish") => Whole(c1)
    /\ c1.status = "verified" => Whole(c1)

(* Before the first run the destination is empty.                          *)
LEMMA MigrationInit ==
  ASSUME MigrationAssumption, MI!Init
  PROVE  MigrationShape /\ MigrationCourse
<1>1. c1 \in Destination /\ c1.status = "empty"
  BY DEF MI!Init, MI!Empty, Destination, MigrationAssumption
<1>2. c4 \in Migrating /\ c4.step = "idle" /\ c2 = {} /\ c8 \in BOOLEAN
  BY DEF MI!Init, Migrating, MI!Steps, MI!Ends, MigrationAssumption
<1> QED BY <1>1, <1>2 DEF MigrationShape, MigrationCourse

(* A write is the schema, a page, the sequences or the upgrade.            *)
LEMMA WriteKinds ==
  ASSUME NEW w \in MI!Writes
  PROVE  /\ w[1] \in {"create", "page", "seq", "upgrade", "finish"}
         /\ w[1] = "page" => w[2] \in 1..MigrationPages
         /\ \A v \in MI!Writes : v[1] = w[1] /\ v[2] = w[2] => v = w
BY DEF MI!Writes

(* What each write does to the destination.                                *)
LEMMA WriteEffects ==
  ASSUME c1 \in Destination, NEW w \in MI!Writes
  PROVE  /\ MI!Apply(w) \in Destination /\ MI!Apply(w).foreign = c1.foreign
         /\ MI!Apply(w).status = IF w[1] = "create" THEN "importing"
                                 ELSE IF w[1] = "finish" THEN "verified" ELSE c1.status
         /\ MI!Apply(w).receipts = IF w[1] = "page" THEN c1.receipts \cup {w[2]} ELSE c1.receipts
         /\ MI!Apply(w).upgraded = (w[1] = "upgrade" \/ c1.upgraded)
         /\ w[1] = "finish" => MI!Apply(w).rows = c1.rows /\ MI!Apply(w).seq = c1.seq
<1>1. w[1] \in {"create", "page", "seq", "upgrade", "finish"} /\ (w[1] = "page" => w[2] \in 1..MigrationPages)
  BY WriteKinds
<1>2. CASE w[1] = "create"
  BY <1>2 DEF MI!Apply, Destination
<1>3. CASE w[1] = "page"
  BY <1>1, <1>3 DEF MI!Apply, Destination
<1>4. CASE w[1] = "seq"
  BY <1>4 DEF MI!Apply, Destination
<1>5. CASE w[1] = "upgrade"
  BY <1>5 DEF MI!Apply, Destination
<1>6. CASE w[1] = "finish"
  BY <1>6 DEF MI!Apply, Destination
<1> QED BY <1>1, <1>2, <1>3, <1>4, <1>5, <1>6

(* No write takes from a whole destination what makes it whole.            *)
LEMMA WholeStays ==
  ASSUME MigrationShape, NEW w \in MI!Writes
  PROVE  /\ MI!Apply(w) \in Destination
         /\ Whole(c1) => Whole(MI!Apply(w))
         /\ c1.upgraded => MI!Apply(w).upgraded
         /\ MI!Apply(w).status = "verified" => c1.status = "verified" \/ w[1] = "finish"
<1>1. /\ MI!Apply(w) \in Destination /\ MI!Apply(w).foreign = c1.foreign
      /\ MI!Apply(w).upgraded = (w[1] = "upgrade" \/ c1.upgraded)
      /\ MI!Apply(w).status = IF w[1] = "create" THEN "importing"
                              ELSE IF w[1] = "finish" THEN "verified" ELSE c1.status
  BY WriteEffects DEF MigrationShape
<1>2. c1 \in Destination
  BY DEF MigrationShape
<1>3. w[1] \in {"create", "page", "seq", "upgrade", "finish"} /\ (w[1] = "page" => w[2] \in 1..MigrationPages)
  BY WriteKinds
<1>4. MI!Apply(w).rows = IF w[1] = "page" THEN c1.rows \cup {w[2]} ELSE c1.rows
  BY <1>2, <1>3 DEF MI!Apply, Destination
<1>5. \/ MI!Apply(w).seq = c1.seq \/ MI!Apply(w).seq = "source"
      \/ c8 /\ MI!Apply(w).seq = "next"
  BY <1>2, <1>3 DEF MI!Apply, Destination
<1>6. Whole(c1) => Whole(MI!Apply(w))
  <2> SUFFICES ASSUME Whole(c1) PROVE Whole(MI!Apply(w))
    OBVIOUS
  <2>1. MI!Apply(w).rows = 1..MigrationPages
    BY <1>3, <1>4 DEF Whole
  <2>2. MI!Apply(w).seq \in IF c8 THEN {"source", "next"} ELSE {"source"}
    BY <1>5 DEF Whole
  <2> QED BY <1>1, <2>1, <2>2 DEF Whole
<1> QED BY <1>1, <1>6

(* What holds after a write, wherever the run goes on from it.             *)
LEMMA AfterWrite ==
  ASSUME MigrationShape, MigrationCourse, c8' = c8, NEW w \in MI!Writes,
         NEW go \in Migrating, NEW lost \in Migrating, MI!Write(w, go, lost),
         w[1] = "finish" => Whole(c1),
         go.step = "prove" => go.page \in 1..MigrationPages,
         lost.step = "prove" => lost.page \in 1..MigrationPages,
         go.step # "finish", go.step = "final" => w[1] = "upgrade",
         lost.step \in {"idle", "created", "prove"}
  PROVE  MigrationShape' /\ MigrationCourse'
<1> DEFINE stopped == [c4 EXCEPT !.step = "idle", !.end = "conflict"]
<1>1. /\ \/ c1' = c1
         \/ c1' = MI!Apply(w)
      /\ \/ c4' = go /\ c1' = MI!Apply(w)
         \/ c4' = stopped \/ c4' = lost
      /\ c2' \subseteq c2 \cup {w}
  BY DEF MI!Write, MI!Stop
<1>2. /\ MI!Apply(w) \in Destination
      /\ Whole(c1) => Whole(MI!Apply(w))
      /\ c1.upgraded => MI!Apply(w).upgraded
      /\ MI!Apply(w).status = "verified" => c1.status = "verified" \/ w[1] = "finish"
  BY WholeStays
<1>3. stopped \in Migrating /\ stopped.step = "idle"
  BY DEF MigrationShape, Migrating, MI!Steps, MI!Ends
<1> HIDE DEF stopped
<1>4. MigrationShape'
  <2>1. c1' \in Destination /\ c2' \subseteq MI!Writes /\ c4' \in Migrating
    BY <1>1, <1>2, <1>3 DEF MigrationShape
  <2>2. c4'.step = "prove" => c4'.page \in 1..MigrationPages
    BY <1>1, <1>3
  <2> QED BY <2>1, <2>2 DEF MigrationShape
<1>5. Whole(c1) => Whole(c1)'
  <2>1. Whole(c1') => Whole(c1)'
    BY DEF Whole
  <2> QED BY <1>1, <1>2, <2>1
<1>6. c4'.step = "final" => c1'.upgraded
  <2>1. w[1] = "upgrade" => MI!Apply(w).upgraded
    BY WriteEffects DEF MigrationShape
  <2> QED BY <1>1, <1>3, <2>1
<1>7. c4'.step # "finish"
  BY <1>1, <1>3
<1>8. (\E v \in c2' : v[1] = "finish") => Whole(c1)'
  BY <1>1, <1>5 DEF MigrationCourse
<1>9. c1'.status = "verified" => Whole(c1)'
  BY <1>1, <1>2, <1>5 DEF MigrationCourse
<1> QED BY <1>4, <1>6, <1>7, <1>8, <1>9 DEF MigrationCourse

(* Steps that leave the destination and the late writes alone.             *)
LEMMA NothingSent ==
  ASSUME MigrationShape, MigrationCourse, UNCHANGED <<c1, c2, c8>>,
         c4' \in Migrating,
         c4'.step = "prove" => c4'.page \in 1..MigrationPages,
         c4'.step = "final" => c1.upgraded, c4'.step = "finish" => Whole(c1)
  PROVE  MigrationShape' /\ MigrationCourse'
<1>1. MigrationShape'
  BY DEF MigrationShape
<1>2. Whole(c1)' = Whole(c1)
  BY DEF Whole
<1> QED BY <1>1, <1>2 DEF MigrationCourse

(* The tables that verify compares are the whole destination.              *)
LEMMA VerifiedTables ==
  ASSUME MigrationAssumption, MigrationShape, MI!Verified
  PROVE  /\ c1.rows = 1..MigrationPages /\ c1.foreign = 0
         /\ c1.seq = IF c1.upgraded /\ c8 THEN "next" ELSE "source"
<1>1. \A p \in 1..MigrationPages : p \in MI!PagesOf("rows") \/ p \in MI!PagesOf("tracking")
  BY DEF MI!PagesOf, MI!TableOf
<1>2. MI!TableMatches("rows") /\ MI!TableMatches("tracking")
  BY DEF MI!Verified
<1>3. c1.rows = 1..MigrationPages /\ c1.foreign \notin 1..MigrationPages
  BY <1>1, <1>2 DEF MI!TableMatches, MigrationShape, Destination
<1>4. c1.foreign = 0
  BY <1>3 DEF MigrationShape, Destination, MigrationAssumption
<1> QED BY <1>3, <1>4 DEF MI!Verified

(* The run at another step, at its end, or at another page.                *)
At(step) == [c4 EXCEPT !.step = step]
Ended(end) == [c4 EXCEPT !.step = "idle", !.end = end]
Turned(step, page) == [c4 EXCEPT !.step = step, !.page = page]

(* The fields of a run that moves on.                                      *)
LEMMA RunMoves ==
  ASSUME c4 \in Migrating
  PROVE  /\ \A s \in MI!Steps : At(s) \in Migrating /\ At(s).step = s /\ At(s).page = c4.page
         /\ \A e \in MI!Ends : Ended(e) \in Migrating /\ Ended(e).step = "idle"
         /\ \A s \in MI!Steps, p \in 1..(MigrationPages + 1) :
              Turned(s, p) \in Migrating /\ Turned(s, p).step = s
         /\ MI!Steps = {"idle", "init", "import", "seq", "proof", "upgrade", "final", "finish",
                        "created", "prove"}
         /\ MI!Ends = {"none", "uncertain", "conflict", "source", "mismatch", "verified"}
<1>1. "idle" \in MI!Steps
  BY DEF MI!Steps
<1>2. \A s \in MI!Steps : At(s) \in Migrating /\ At(s).step = s /\ At(s).page = c4.page
  BY DEF At, Migrating
<1>3. \A e \in MI!Ends : Ended(e) \in Migrating /\ Ended(e).step = "idle"
  BY <1>1 DEF Ended, Migrating
<1>4. \A s \in MI!Steps, p \in 1..(MigrationPages + 1) :
        Turned(s, p) \in Migrating /\ Turned(s, p).step = s
  BY DEF Turned, Migrating
<1> QED BY <1>2, <1>3, <1>4 DEF MI!Steps, MI!Ends

(* The steps of a run that only read.                                      *)
LEMMA MigrationReads ==
  ASSUME MigrationAssumption, MigrationShape, MigrationCourse,
         MI!Created \/ MI!Prove \/ MI!Proof \/ MI!Final \/ MI!Crash \/ MI!Change
  PROVE  MigrationShape' /\ MigrationCourse'
<1>1. c4 \in Migrating /\ UNCHANGED <<c1, c2, c8>> /\ c2 \subseteq MI!Writes
  BY DEF MI!Created, MI!Prove, MI!Proof, MI!Final, MI!Crash, MI!Change, MigrationShape
<1>2. /\ \A s \in {"idle", "import", "final", "finish", "upgrade"} : At(s) \in Migrating /\ At(s).step = s
      /\ \A e \in {"mismatch", "source", "uncertain", "verified"} :
           Ended(e) \in Migrating /\ Ended(e).step = "idle"
      /\ \A p \in 1..(MigrationPages + 1) :
           Turned("import", p) \in Migrating /\ Turned("import", p).step = "import"
  BY <1>1, RunMoves
<1>5. CASE MI!Created
  <2>1. c4' = Ended("uncertain") \/ c4' = At("import")
    BY <1>5 DEF MI!Created, MI!Lost, Ended, At
  <2>2. c4' \in Migrating /\ c4'.step \in {"idle", "import"}
    BY <1>2, <2>1
  <2> QED BY <1>1, <2>2, NothingSent
<1>6. CASE MI!Prove
  <2>1. c4.page + 1 \in 1..(MigrationPages + 1)
    BY <1>6 DEF MI!Prove, MigrationShape, MigrationAssumption
  <2>2. c4' = Ended("uncertain") \/ c4' = Ended("mismatch") \/ c4' = Turned("import", c4.page + 1)
    BY <1>6 DEF MI!Prove, MI!Proved, MI!Stop, Ended, Turned
  <2>3. c4' \in Migrating /\ c4'.step \in {"idle", "import"}
    BY <1>2, <2>1, <2>2
  <2> QED BY <1>1, <2>3, NothingSent
<1>7. CASE MI!Proof
  <2>1. \/ c4' = At("final") /\ c1.upgraded
        \/ c4' = At("upgrade") \/ c4' = Ended("mismatch") \/ c4' = Ended("source")
    BY <1>7 DEF MI!Proof, MI!Stop, At, Ended
  <2>2. /\ c4' \in Migrating /\ c4'.step \in {"idle", "final", "upgrade"}
        /\ c4'.step = "final" => c1.upgraded
    BY <1>2, <2>1
  <2> QED BY <1>1, <2>2, NothingSent
<1>8. CASE MI!Final
  <2>1. c1.upgraded
    BY <1>8 DEF MI!Final, MigrationCourse
  <2>2. \/ c4' = Ended("mismatch") \/ c4' = Ended("source") \/ c4' = Ended("verified")
        \/ MI!Verified /\ c4' = At("finish")
    BY <1>8 DEF MI!Final, Ended, At
  <2>3. MI!Verified => Whole(c1)
    BY <2>1, VerifiedTables DEF Whole
  <2>4. /\ c4' \in Migrating /\ c4'.step \in {"idle", "finish"}
        /\ c4'.step = "finish" => Whole(c1)
    BY <1>2, <2>2, <2>3
  <2> QED BY <1>1, <2>4, NothingSent
<1>9. CASE MI!Crash
  <2>1. c4' = Ended("uncertain")
    BY <1>9 DEF MI!Crash, MI!Stop, Ended
  <2>2. c4' \in Migrating /\ c4'.step = "idle"
    BY <1>2, <2>1
  <2> QED BY <1>1, <2>2, NothingSent
<1>10. CASE MI!Change
  BY <1>10 DEF MI!Change, MigrationShape, MigrationCourse, Whole
<1> QED BY <1>5, <1>6, <1>7, <1>8, <1>9, <1>10

(* The steps of a run that may send a write.                               *)
LEMMA MigrationWrites ==
  ASSUME MigrationAssumption, MigrationShape, MigrationCourse,
         MI!Initialize \/ MI!ImportPage \/ MI!SetSequences \/ MI!Upgrade \/ MI!Finish
  PROVE  MigrationShape' /\ MigrationCourse'
<1>1. c4 \in Migrating /\ c8' = c8 /\ c2 \subseteq MI!Writes
  BY DEF MI!Initialize, MI!ImportPage, MI!SetSequences, MI!Upgrade, MI!Finish, MigrationShape
<1>3. /\ \A s \in MI!Steps : At(s) \in Migrating /\ At(s).step = s /\ At(s).page = c4.page
      /\ \A e \in MI!Ends : Ended(e) \in Migrating /\ Ended(e).step = "idle"
      /\ \A s \in MI!Steps, p \in 1..(MigrationPages + 1) :
           Turned(s, p) \in Migrating /\ Turned(s, p).step = s
      /\ MI!Steps = {"idle", "init", "import", "seq", "proof", "upgrade", "final", "finish",
                     "created", "prove"}
      /\ MI!Ends = {"none", "uncertain", "conflict", "source", "mismatch", "verified"}
  BY <1>1, RunMoves
<1>4. /\ \A k \in {"create", "seq", "upgrade", "finish"} : <<k, 0>> \in MI!Writes
      /\ \A p \in 1..MigrationPages : <<"page", p>> \in MI!Writes
  BY DEF MI!Writes
<1>5. CASE MI!Initialize
  <2>1. \/ c4' = Ended("source") /\ UNCHANGED <<c1, c2>>
        \/ c4' = Ended("conflict") /\ UNCHANGED <<c1, c2>>
        \/ c4' = At("final") /\ c1.status = "verified" /\ UNCHANGED <<c1, c2>>
        \/ c4' = At("import") /\ UNCHANGED <<c1, c2>>
        \/ MI!Write(<<"create", 0>>, At("import"), At("created"))
    BY <1>5 DEF MI!Initialize, MI!Stop, Ended, At
  <2>2. CASE MI!Write(<<"create", 0>>, At("import"), At("created"))
    <3> DEFINE w == <<"create", 0>>
    <3>2. w \in MI!Writes /\ w[1] = "create" /\ MI!Write(w, At("import"), At("created"))
      BY <1>4, <2>2
    <3> HIDE DEF w
    <3>3. /\ At("import") \in Migrating /\ At("import").step = "import"
          /\ At("created") \in Migrating /\ At("created").step = "created"
      BY <1>3
    <3> QED BY <1>1, <3>2, <3>3, AfterWrite
  <2>3. CASE UNCHANGED <<c1, c2>> /\ (c4' = Ended("source") \/ c4' = Ended("conflict")
                                        \/ c4' = At("import"))
    <3>1. c4' \in Migrating /\ c4'.step \in {"idle", "import"}
      BY <1>3, <2>3
    <3> QED BY <1>1, <2>3, <3>1, NothingSent
  <2>4. CASE UNCHANGED <<c1, c2>> /\ c4' = At("final") /\ c1.status = "verified"
    <3>1. c4' \in Migrating /\ c4'.step = "final" /\ c1.upgraded
      BY <1>3, <2>4 DEF MigrationCourse, Whole
    <3> QED BY <1>1, <2>4, <3>1, NothingSent
  <2> QED BY <2>1, <2>2, <2>3, <2>4
<1>6. CASE MI!ImportPage
  <2> DEFINE p == c4.page
  <2>0. p \in 1..MigrationPages
    BY <1>1, <1>6 DEF MI!ImportPage, Migrating, MigrationAssumption
  <2>1. \/ \E e \in {"mismatch", "conflict", "source"} : c4' = Ended(e) /\ UNCHANGED <<c1, c2>>
        \/ \E q \in {MigrationPages, MigrationPages + 1} :
             c4' = [c4 EXCEPT !.page = q] /\ UNCHANGED <<c1, c2>>
        \/ c4' = Turned("import", p + 1) /\ UNCHANGED <<c1, c2>>
        \/ MI!Write(<<"page", p>>, At("prove"), At("prove"))
    BY <1>6 DEF MI!ImportPage, MI!Proved, MI!Stop, Ended, At, Turned
  <2>2. CASE MI!Write(<<"page", p>>, At("prove"), At("prove"))
    <3> DEFINE w == <<"page", p>>
    <3>1. w \in MI!Writes /\ w[1] = "page" /\ w[2] = p /\ MI!Write(w, At("prove"), At("prove"))
      BY <1>4, <2>0, <2>2
    <3> HIDE DEF w
    <3>2. At("prove") \in Migrating /\ At("prove").step = "prove" /\ At("prove").page = p
      BY <1>3
    <3> QED BY <1>1, <2>0, <3>1, <3>2, AfterWrite
  <2>3. CASE UNCHANGED <<c1, c2>> /\ \E e \in {"mismatch", "conflict", "source"} : c4' = Ended(e)
    <3>1. c4' \in Migrating /\ c4'.step = "idle"
      BY <1>3, <2>3
    <3> QED BY <1>1, <2>3, <3>1, NothingSent
  <2>4. CASE UNCHANGED <<c1, c2>> /\ \E q \in {MigrationPages, MigrationPages + 1} :
                                          c4' = [c4 EXCEPT !.page = q]
    <3>1. PICK q \in {MigrationPages, MigrationPages + 1} : c4' = [c4 EXCEPT !.page = q]
      BY <2>4
    <3>2. q \in 1..(MigrationPages + 1)
      BY DEF MigrationAssumption
    <3>3. c4' \in Migrating /\ c4'.step = c4.step
      BY <1>1, <3>1, <3>2 DEF Migrating
    <3>4. c4.step = "import"
      BY <1>6 DEF MI!ImportPage
    <3> QED BY <1>1, <2>4, <3>3, <3>4, NothingSent
  <2>5. CASE UNCHANGED <<c1, c2>> /\ c4' = Turned("import", p + 1)
    <3>1. p + 1 \in 1..(MigrationPages + 1)
      BY <2>0 DEF MigrationAssumption
    <3>2. c4' \in Migrating /\ c4'.step = "import"
      BY <1>3, <2>5, <3>1
    <3> QED BY <1>1, <2>5, <3>2, NothingSent
  <2> QED BY <2>1, <2>2, <2>3, <2>4, <2>5
<1>7. CASE MI!SetSequences
  <2> DEFINE w == <<"seq", 0>>
  <2>1. w \in MI!Writes /\ w[1] = "seq" /\ MI!Write(w, At("proof"), Ended("uncertain"))
    BY <1>4, <1>7 DEF MI!SetSequences, MI!Lost, At, Ended
  <2> HIDE DEF w
  <2>2. /\ At("proof") \in Migrating /\ At("proof").step = "proof"
        /\ Ended("uncertain") \in Migrating /\ Ended("uncertain").step = "idle"
    BY <1>3
  <2> QED BY <1>1, <2>1, <2>2, AfterWrite
<1>8. CASE MI!Upgrade
  <2> DEFINE w == <<"upgrade", 0>>
  <2>1. w \in MI!Writes /\ w[1] = "upgrade" /\ MI!Write(w, At("final"), Ended("uncertain"))
    BY <1>4, <1>8 DEF MI!Upgrade, MI!Lost, At, Ended
  <2> HIDE DEF w
  <2>2. /\ At("final") \in Migrating /\ At("final").step = "final"
        /\ Ended("uncertain") \in Migrating /\ Ended("uncertain").step = "idle"
    BY <1>3
  <2> QED BY <1>1, <2>1, <2>2, AfterWrite
<1>9. CASE MI!Finish
  <2> DEFINE w == <<"finish", 0>>
  <2>1. w \in MI!Writes /\ w[1] = "finish" /\ MI!Write(w, Ended("verified"), Ended("uncertain"))
    BY <1>4, <1>9 DEF MI!Finish, MI!Lost, Ended
  <2> HIDE DEF w
  <2>2. /\ Ended("verified") \in Migrating /\ Ended("verified").step = "idle"
        /\ Ended("uncertain") \in Migrating /\ Ended("uncertain").step = "idle"
    BY <1>3
  <2>3. Whole(c1)
    BY <1>9 DEF MI!Finish, MigrationCourse
  <2> QED BY <1>1, <2>1, <2>2, <2>3, AfterWrite
<1> QED BY <1>5, <1>6, <1>7, <1>8, <1>9

(* The next run, another writer and the writes that were cut.              *)
LEMMA MigrationOthers ==
  ASSUME MigrationAssumption, MigrationShape, MigrationCourse,
         \/ MI!Start \/ \E p \in 1..MigrationPages : MI!Meddle(p)
         \/ \E w \in MI!Writes : MI!Land(w)
  PROVE  MigrationShape' /\ MigrationCourse'
<1>1. CASE MI!Start
  <2>1. c4' = [step |-> "init", page |-> 1, end |-> "none"] /\ UNCHANGED <<c1, c2, c8>>
    BY <1>1 DEF MI!Start
  <2>2. c4' \in Migrating /\ c4'.step = "init"
    BY <2>1 DEF Migrating, MI!Steps, MI!Ends, MigrationAssumption
  <2> QED BY <2>1, <2>2, NothingSent
<1>2. ASSUME NEW p \in 1..MigrationPages, MI!Meddle(p)
      PROVE  MigrationShape' /\ MigrationCourse'
  <2>1. /\ c1' = [c1 EXCEPT !.foreign = p] /\ c2 = {} /\ c4.step = "idle" /\ c1.status # "verified"
        /\ UNCHANGED <<c2, c4, c8>>
    BY <1>2 DEF MI!Meddle
  <2>2. c1' \in Destination /\ c1'.status = c1.status
    BY <2>1 DEF MigrationShape, Destination, MigrationAssumption
  <2> QED BY <2>1, <2>2 DEF MigrationShape, MigrationCourse
<1>3. ASSUME NEW w \in MI!Writes, MI!Land(w)
      PROVE  MigrationShape' /\ MigrationCourse'
  <2>1. /\ w \in c2 /\ c2' = c2 \ {w} /\ UNCHANGED <<c4, c8>>
        /\ c1' = c1 \/ c1' = MI!Apply(w)
    BY <1>3 DEF MI!Land
  <2>2. /\ MI!Apply(w) \in Destination
        /\ Whole(c1) => Whole(MI!Apply(w))
        /\ c1.upgraded => MI!Apply(w).upgraded
        /\ MI!Apply(w).status = "verified" => c1.status = "verified" \/ w[1] = "finish"
    BY WholeStays
  <2>3. Whole(c1) => Whole(c1)'
    <3>1. Whole(c1') => Whole(c1)'
      BY <2>1 DEF Whole
    <3> QED BY <2>1, <2>2, <3>1
  <2>4. MigrationShape'
    BY <2>1, <2>2 DEF MigrationShape
  <2>5. c1.upgraded => c1'.upgraded
    BY <2>1, <2>2
  <2>6. c1'.status = "verified" => Whole(c1)'
    BY <2>1, <2>2, <2>3 DEF MigrationCourse
  <2> QED BY <2>1, <2>3, <2>4, <2>5, <2>6 DEF MigrationCourse
<1> QED BY <1>1, <1>2, <1>3

(* The invariant of the migration.                                         *)
MigrationInv == part = "migration" => MigrationShape /\ MigrationCourse

(* A destination that is marked verified holds every row of the exports    *)
(* and no other, upgraded, its sequences set, and no write that was given  *)
(* up can change it any more (migrate_storage.run, verify), whatever runs  *)
(* were cut or repeated, and whenever the writes land whose replies were   *)
(* lost.                                                                   *)
THEOREM VerifiedDestinationIsComplete == Spec => []VerifiedIsComplete
<1>1. Init => MigrationInv
  <2>1. Init /\ part = "migration" => MI!Init
    BY DEF Init
  <2> QED BY <2>1, MigrationInit, MigrationAssumption DEF MigrationInv
<1>2. MigrationInv /\ [Next]_<<part, c1, c2, c3, c4, c5, c6, c7, c8, c9, c10>> => MigrationInv'
  <2> SUFFICES ASSUME MigrationInv, [Next]_<<part, c1, c2, c3, c4, c5, c6, c7, c8, c9, c10>>,
                      part' = "migration"
               PROVE  MigrationShape' /\ MigrationCourse'
    BY DEF MigrationInv
  <2>1. part = "migration" /\ MigrationShape /\ MigrationCourse
    BY DEF Next, MigrationInv
  <2>2. CASE UNCHANGED <<part, c1, c2, c3, c4, c5, c6, c7, c8, c9, c10>>
    BY <2>1, <2>2 DEF MigrationShape, MigrationCourse, Whole
  <2>3. CASE Next
    <3>1. MI!Next
      BY <2>1, <2>3 DEF Next
    <3> QED BY <2>1, <3>1, MigrationReads, MigrationWrites, MigrationOthers, MigrationAssumption DEF MI!Next
  <2> QED BY <2>2, <2>3
<1>3. MigrationInv => VerifiedIsComplete
  BY DEF MigrationInv, MigrationShape, MigrationCourse, Whole, VerifiedIsComplete, MI!VerifiedIsComplete,
         MI!Commits, MI!Writes
<1> QED BY <1>1, <1>2, <1>3, PTL DEF Spec

-----------------------------------------------------------------------------
(* RunGrant: what a run pays was charged beforehand.                       *)

(* Max of two numbers, as the ledger merge and the refund take it.         *)
LEMMA LargerOfTwo ==
  ASSUME NEW a \in Int, NEW b \in Int
  PROVE  /\ GR!Max({a, b}) \in {a, b} /\ GR!Max({a, b}) >= a /\ GR!Max({a, b}) >= b
<1>1. CASE a >= b
  BY <1>1 DEF GR!Max
<1>2. CASE b > a
  BY <1>2 DEF GR!Max
<1> QED BY <1>1, <1>2

(* Min of two numbers, as the grant takes it.                              *)
LEMMA SmallerOfTwo ==
  ASSUME NEW a \in Int, NEW b \in Int
  PROVE  /\ GR!Min({a, b}) \in {a, b} /\ GR!Min({a, b}) <= a /\ GR!Min({a, b}) <= b
<1>1. CASE a <= b
  BY <1>1 DEF GR!Min
<1>2. CASE b < a
  BY <1>2 DEF GR!Min
<1> QED BY <1>1, <1>2

(* What a merge of two ledgers leaves (merge_ledgers takes the larger      *)
(* count).                                                                 *)
LEMMA MergedLedger ==
  ASSUME NEW a \in [GR!Months -> Nat], NEW b \in [GR!Months -> Nat]
  PROVE  /\ GR!Merged(a, b) \in [GR!Months -> Nat]
         /\ \A m \in GR!Months :
              /\ GR!Merged(a, b)[m] \in {a[m], b[m]}
              /\ GR!Merged(a, b)[m] >= a[m] /\ GR!Merged(a, b)[m] >= b[m]
<1>1. \A m \in GR!Months :
        LET x == GR!Max({a[m], b[m]}) IN x \in {a[m], b[m]} /\ x >= a[m] /\ x >= b[m] /\ x \in Nat
  <2> TAKE m \in GR!Months
  <2>1. a[m] \in Int /\ b[m] \in Int /\ a[m] \in Nat /\ b[m] \in Nat
    OBVIOUS
  <2>2. /\ GR!Max({a[m], b[m]}) \in {a[m], b[m]}
        /\ GR!Max({a[m], b[m]}) >= a[m] /\ GR!Max({a[m], b[m]}) >= b[m]
    BY <2>1, LargerOfTwo
  <2> QED BY <2>1, <2>2
<1> QED BY <1>1 DEF GR!Merged

(* The run, its ledger and the request under way are as they should be.    *)
GrantRun == [phase : {"idle", "open", "charged", "saved", "ready"}, local : [GR!Months -> Nat],
             grant : [month : GR!Months, left : Nat, on : BOOLEAN], calls : Nat,
             verified : SUBSET GR!Endpoints, dropped : SUBSET GR!Endpoints]
GrantCall == [routes : SUBSET GR!Endpoints, first : GR!Endpoints, cost : Nat,
              probe : BOOLEAN, tries : Nat, waiting : BOOLEAN]
GrantShape ==
    /\ c1 \in GR!Months
    /\ c2 \in [GR!Months -> Nat] /\ c3 \in [GR!Months -> Nat]
    /\ c6 \in [GR!Months -> Nat] /\ c7 \in [GR!Months -> Nat]
    /\ c4 \in GrantRun /\ c5 \in GrantCall
    /\ c5 # GR!NoCall => c5.routes # {}

(* What a grant has left in month m.                                       *)
Reserved(m) == IF m = c4.grant.month THEN c4.grant.left ELSE 0

(* What was sent is covered by what the ledgers say, whatever is lost on   *)
(* the way.                                                                *)
GrantCovered ==
  \A m \in GR!Months :
    /\ c2[m] <= GrantLimit /\ c3[m] <= GrantLimit /\ c6[m] + c7[m] <= c2[m]
    /\ c4.phase # "idle" => c4.local[m] <= GrantLimit
    /\ c4.phase = "open" => c2[m] <= c4.local[m]
    /\ c4.phase \in {"charged", "saved"} => c2[m] + Reserved(m) <= c4.local[m]
    /\ c4.grant.on => c4.phase = "ready" /\ c6[m] + c7[m] + Reserved(m) <= c2[m]

(* The first run starts with nothing sent and nothing granted.             *)
LEMMA GrantInit ==
  ASSUME GrantAssumption, GR!Init
  PROVE  GrantShape /\ GrantCovered
<1>1. 0 \in GR!Months /\ GR!Nothing \in [GR!Months -> Nat] /\ \A m \in GR!Months : GR!Nothing[m] = 0
  BY DEF GrantAssumption, GR!Months, GR!Nothing
<1>2. GR!Idle \in GrantRun /\ GR!Idle.phase = "idle" /\ ~GR!Idle.grant.on /\ GR!NoCall \in GrantCall
  BY <1>1 DEF GR!Idle, GrantRun, GR!NoGrant, GR!NoCall, GrantCall, GR!Endpoints
<1>3. GrantShape
  BY <1>1, <1>2 DEF GR!Init, GrantShape
<1>4. GrantCovered
  BY <1>1, <1>2 DEF GR!Init, GrantCovered, GrantAssumption
<1> QED BY <1>3, <1>4

(* The endpoint in turn is one of those left, and what it costs a number.  *)
LEMMA EndpointInTurn ==
  ASSUME NEW c \in GrantCall, c.routes # {}
  PROVE  GR!Endpoint(c) \in c.routes /\ GR!Price(c) \in Nat
BY DEF GrantCall, GR!Endpoint, GR!Price

(* The request turns to an endpoint that is left, or ends.                 *)
LEMMA TurnShape ==
  ASSUME NEW c \in GrantCall
  PROVE  /\ GR!Turn(c) \in GrantCall /\ (GR!Turn(c) # GR!NoCall => GR!Turn(c).routes # {})
         /\ c.routes # {} => /\ GR!NextRoute(c) \in GrantCall
                             /\ GR!NextRoute(c) # GR!NoCall => GR!NextRoute(c).routes # {}
<1>1. \A d \in GrantCall :
        GR!Turn(d) \in GrantCall /\ (GR!Turn(d) # GR!NoCall => GR!Turn(d).routes # {})
  BY DEF GrantCall, GR!Turn, GR!NoCall, GR!Endpoints
<1>2. [c EXCEPT !.routes = @ \ {GR!Endpoint(c)}] \in GrantCall
  BY DEF GrantCall
<1> QED BY <1>1, <1>2 DEF GR!NextRoute

(* A request that is sent was charged to the grant before                  *)
(* (PreallocatedRpcBudget).                                                *)
LEMMA SentStep ==
  ASSUME GrantAssumption, GrantShape, GrantCovered, GR!Sent,
         c4'.phase = c4.phase, c4'.local = c4.local,
         c4'.grant = [c4.grant EXCEPT !.left = @ - GR!Price(c5)]
  PROVE  /\ GrantCovered' /\ c6' \in [GR!Months -> Nat]
         /\ c4'.grant \in [month : GR!Months, left : Nat, on : BOOLEAN]
<1>1. GR!Endpoint(c5) \in GR!Endpoints /\ GR!Price(c5) \in Nat
  BY EndpointInTurn DEF GR!Sent, GrantShape, GrantCall
<1>2. GR!Price(c5) = 0 \/ (c4.grant.on /\ c4.grant.month = c1 /\ GR!Price(c5) <= c4.grant.left)
  BY <1>1 DEF GR!Sent, GR!Allows, GR!Price, GR!Endpoints
<1>3. c4.grant \in [month : GR!Months, left : Nat, on : BOOLEAN] /\ c4.local \in [GR!Months -> Nat]
  BY DEF GrantShape, GrantRun
<1> DEFINE price == GR!Price(c5)
<1>4. /\ c6' = [c6 EXCEPT ![c1] = @ + price] /\ c2' = c2 /\ c3' = c3 /\ c7' = c7
      /\ c4'.grant = [c4.grant EXCEPT !.left = @ - price]
  BY DEF GR!Sent
<1>5. price \in Nat /\ (price = 0 \/ (c4.grant.on /\ c4.grant.month = c1 /\ price <= c4.grant.left))
  BY <1>1, <1>2
<1> HIDE DEF price
<1>6. c6' \in [GR!Months -> Nat] /\ c4'.grant \in [month : GR!Months, left : Nat, on : BOOLEAN]
  BY <1>3, <1>4, <1>5 DEF GrantShape
<1>7. GrantCovered'
  <2> SUFFICES ASSUME NEW m \in GR!Months
               PROVE  /\ c2'[m] <= GrantLimit /\ c3'[m] <= GrantLimit /\ c6'[m] + c7'[m] <= c2'[m]
                      /\ c4'.phase # "idle" => c4'.local[m] <= GrantLimit
                      /\ c4'.phase = "open" => c2'[m] <= c4'.local[m]
                      /\ c4'.phase \in {"charged", "saved"} => c2'[m] + Reserved(m)' <= c4'.local[m]
                      /\ c4'.grant.on => c4'.phase = "ready" /\ c6'[m] + c7'[m] + Reserved(m)' <= c2'[m]
    BY DEF GrantCovered
  <2>1. c6[m] \in Nat /\ c7[m] \in Nat /\ c2[m] \in Nat /\ c3[m] \in Nat /\ c1 \in GR!Months /\ c4.local[m] \in Nat
    BY <1>3 DEF GrantShape
  <2>2. c6'[m] = IF m = c1 THEN c6[m] + price ELSE c6[m]
    BY <1>4, <2>1 DEF GrantShape
  <2>3. c4'.grant.month = c4.grant.month /\ c4'.grant.on = c4.grant.on /\ c4'.grant.left = c4.grant.left - price
    BY <1>3, <1>4
  <2>4. Reserved(m)' = IF m = c4.grant.month THEN c4.grant.left - price ELSE 0
    BY <2>3 DEF Reserved
  <2>5. Reserved(m) = (IF m = c4.grant.month THEN c4.grant.left ELSE 0) /\ c4.grant.left \in Nat
    BY <1>3 DEF Reserved
  <2>6. /\ c2[m] <= GrantLimit /\ c3[m] <= GrantLimit /\ c6[m] + c7[m] <= c2[m]
        /\ c4.phase # "idle" => c4.local[m] <= GrantLimit
        /\ c4.phase = "open" => c2[m] <= c4.local[m]
        /\ c4.phase \in {"charged", "saved"} => c2[m] + Reserved(m) <= c4.local[m]
        /\ c4.grant.on => c4.phase = "ready" /\ c6[m] + c7[m] + Reserved(m) <= c2[m]
    BY DEF GrantCovered
  <2> QED BY <1>4, <1>5, <2>1, <2>2, <2>3, <2>4, <2>5, <2>6
<1> QED BY <1>6, <1>7

(* An answer, a busy endpoint and a refusal pay for what was sent.         *)
LEMMA GrantAttempts ==
  ASSUME GrantAssumption, GrantShape, GrantCovered,
         GR!Answered \/ GR!Busy \/ \E forever \in BOOLEAN : GR!Refused(forever)
  PROVE  GrantShape' /\ GrantCovered'
<1>1. GR!Sent
  BY DEF GR!Answered, GR!Busy, GR!Refused
<1>2. c4 \in GrantRun /\ c5 \in GrantCall /\ c5.routes # {} /\ GR!Endpoint(c5) \in GR!Endpoints
  BY <1>1, EndpointInTurn DEF GR!Sent, GrantShape, GrantCall
<1> DEFINE price == GR!Price(c5)
           e == GR!Endpoint(c5)
           Rest(r) == /\ r.phase = c4.phase /\ r.local = c4.local
                      /\ r.grant = [c4.grant EXCEPT !.left = @ - price]
           Loose == [phase : {"idle", "open", "charged", "saved", "ready"}, local : [GR!Months -> Nat],
                     grant : [month : GR!Months, left : Int, on : BOOLEAN], calls : Nat,
                     verified : SUBSET GR!Endpoints, dropped : SUBSET GR!Endpoints]
<1>3. c4' \in Loose /\ Rest(c4')
  <2>1. price \in Nat /\ e \in GR!Endpoints /\ GR!Paid = [c4 EXCEPT !.calls = @ + 1, !.grant.left = @ - price]
    BY <1>2, EndpointInTurn DEF GR!Paid
  <2>2. \/ c4' = [GR!Paid EXCEPT !.verified = @ \cup {e}]
        \/ c4' = GR!Paid
        \/ c4' = [GR!Paid EXCEPT !.dropped = @ \cup {e}]
        \/ c4' = [GR!Paid EXCEPT !.dropped = @]
    BY DEF GR!Answered, GR!Busy, GR!Refused
  <2> HIDE DEF price, e
  <2>3. GR!Paid \in Loose /\ Rest(GR!Paid)
    <3> DEFINE grant == [c4.grant EXCEPT !.left = @ - price]
               calls == c4.calls + 1
    <3>1. grant \in [month : GR!Months, left : Int, on : BOOLEAN] /\ calls \in Nat
      BY <1>2, <2>1 DEF GrantRun
    <3>2. GR!Paid = [c4 EXCEPT !.calls = calls, !.grant = grant]
      BY <1>2, <2>1 DEF GrantRun
    <3>3. grant = [c4.grant EXCEPT !.left = @ - price]
      OBVIOUS
    <3> HIDE DEF grant, calls
    <3>4. GR!Paid \in Loose /\ GR!Paid.grant = grant
          /\ GR!Paid.phase = c4.phase /\ GR!Paid.local = c4.local
      BY <1>2, <3>1, <3>2 DEF GrantRun
    <3> QED BY <3>3, <3>4
  <2> DEFINE paid == GR!Paid
  <2>4. paid \in Loose /\ Rest(paid)
    BY <2>3
  <2>5. \/ c4' = [paid EXCEPT !.verified = @ \cup {e}]
        \/ c4' = paid
        \/ c4' = [paid EXCEPT !.dropped = @ \cup {e}]
        \/ c4' = [paid EXCEPT !.dropped = @]
    BY <2>2
  <2> HIDE DEF paid
  <2>6. CASE c4' = [paid EXCEPT !.verified = @ \cup {e}]
    BY <2>1, <2>4, <2>6
  <2>7. CASE c4' = paid
    BY <2>4, <2>7
  <2>8. CASE c4' = [paid EXCEPT !.dropped = @ \cup {e}]
    BY <2>1, <2>4, <2>8
  <2>9. CASE c4' = [paid EXCEPT !.dropped = @]
    BY <2>1, <2>4, <2>9
  <2> QED BY <2>5, <2>6, <2>7, <2>8, <2>9
<1>4. /\ GrantCovered' /\ c6' \in [GR!Months -> Nat]
      /\ c4'.grant \in [month : GR!Months, left : Nat, on : BOOLEAN]
  BY <1>1, <1>3, SentStep
<1>5. c4' \in GrantRun
  <2> HIDE DEF price, e
  <2> QED BY <1>3, <1>4 DEF GrantRun
<1>6. GR!NextRoute(c5) \in GrantCall /\ (GR!NextRoute(c5) # GR!NoCall => GR!NextRoute(c5).routes # {})
  BY <1>2, TurnShape
<1>7. GR!NoCall \in GrantCall
  BY DEF GR!NoCall, GrantCall, GR!Endpoints
<1>8. c5' \in GrantCall /\ (c5' # GR!NoCall => c5'.routes # {})
  <2>1. CASE GR!Answered
    <3>1. CASE c5.probe
      <4>1. c5' = [c5 EXCEPT !.probe = FALSE, !.tries = 0, !.waiting = FALSE]
        BY <2>1, <3>1 DEF GR!Answered
      <4> QED BY <1>2, <4>1 DEF GrantCall
    <3>2. CASE ~c5.probe
      BY <1>7, <2>1, <3>2 DEF GR!Answered
    <3> QED BY <3>1, <3>2
  <2>2. CASE GR!Busy
    <3>1. c5' = [c5 EXCEPT !.tries = @ + 1, !.waiting = FALSE]
      BY <2>2 DEF GR!Busy
    <3>2. c5' \in GrantCall /\ c5'.routes = c5.routes
      <4> DEFINE tries == c5.tries + 1
      <4>1. c5' = [c5 EXCEPT !.tries = tries, !.waiting = FALSE] /\ tries \in Nat
        BY <1>2, <3>1 DEF GrantCall
      <4> HIDE DEF tries
      <4> QED BY <1>2, <4>1 DEF GrantCall
    <3> QED BY <1>2, <3>2
  <2>3. CASE \E forever \in BOOLEAN : GR!Refused(forever)
    BY <1>6, <2>3 DEF GR!Refused
  <2> QED BY <2>1, <2>2, <2>3
<1> QED BY <1>1, <1>4, <1>5, <1>8 DEF GrantShape, GR!Sent

(* Where the request under way goes next, nothing is paid.                 *)
LEMMA GrantCalls ==
  ASSUME GrantAssumption, GrantShape, GrantCovered,
         \/ \E cost \in GrantCosts, first \in GR!Endpoints : GR!Call(cost, first)
         \/ GR!GiveUp \/ GR!Acquire
  PROVE  GrantShape' /\ GrantCovered'
<1>1. UNCHANGED <<c1, c2, c3, c4, c6, c7, c8>>
  BY DEF GR!Call, GR!GiveUp, GR!Acquire
<1>2. GrantCovered'
  BY <1>1 DEF GrantCovered, Reserved
<1>3. c5 \in GrantCall /\ (c5 # GR!NoCall => c5.routes # {})
  BY DEF GrantShape
<1>4. c5' \in GrantCall /\ (c5' # GR!NoCall => c5'.routes # {})
  <2>1. ASSUME NEW cost \in GrantCosts, NEW first \in GR!Endpoints, GR!Call(cost, first)
        PROVE  c5' \in GrantCall /\ (c5' # GR!NoCall => c5'.routes # {})
    <3>1. [GR!NoCall EXCEPT !.cost = cost, !.first = first, !.routes = GR!Endpoints \ c4.dropped] \in GrantCall
      BY DEF GR!NoCall, GrantCall, GrantAssumption
    <3> QED BY <2>1, <3>1, TurnShape DEF GR!Call
  <2>2. CASE GR!GiveUp
    BY <1>3, <2>2, TurnShape DEF GR!GiveUp
  <2>3. CASE GR!Acquire
    BY <1>3, <2>3 DEF GR!Acquire, GrantCall
  <2> QED BY <2>1, <2>2, <2>3
<1> QED BY <1>1, <1>2, <1>4 DEF GrantShape

(* The month, the other scans and the steps around the grant.              *)
LEMMA GrantOthers ==
  ASSUME GrantAssumption, GrantShape, GrantCovered,
         GR!NextMonth \/ (\E units \in 1..GrantCeiling, saves \in BOOLEAN : GR!OtherScan(units, saves))
  PROVE  GrantShape' /\ GrantCovered'
<1>1. CASE GR!NextMonth
  BY <1>1 DEF GR!NextMonth, GR!Months, GrantAssumption, GrantShape, GrantCovered, Reserved
<1>2. ASSUME NEW units \in 1..GrantCeiling, NEW saves \in BOOLEAN, GR!OtherScan(units, saves)
      PROVE  GrantShape' /\ GrantCovered'
  <2> DEFINE merged == GR!Merged(c3, c2)
             local == [merged EXCEPT ![c1] = @ + units]
  <2>1. /\ merged \in [GR!Months -> Nat]
        /\ \A m \in GR!Months : merged[m] \in {c3[m], c2[m]} /\ merged[m] >= c2[m]
    BY MergedLedger DEF GrantShape
  <2>2. /\ local[c1] <= GrantLimit /\ c2' = local /\ c3' = (IF saves THEN local ELSE c3)
        /\ c7' = [c7 EXCEPT ![c1] = @ + units] /\ UNCHANGED <<c1, c4, c5, c6>> /\ c4.phase = "idle"
    BY <1>2 DEF GR!OtherScan
  <2> HIDE DEF merged
  <2>3. local \in [GR!Months -> Nat] /\ c7' \in [GR!Months -> Nat]
    BY <2>1, <2>2 DEF GrantAssumption, GrantShape
  <2>4. GrantShape'
    BY <2>2, <2>3 DEF GrantShape
  <2>5. ASSUME NEW m \in GR!Months
        PROVE  local[m] <= GrantLimit /\ local[m] >= c2[m] + (c7'[m] - c7[m]) /\ c7'[m] >= c7[m]
    <3>1. c2[m] <= GrantLimit /\ c3[m] <= GrantLimit
      BY DEF GrantCovered
    <3>2. c1 \in GR!Months /\ c7[m] \in Nat /\ c2[m] \in Nat /\ merged[m] \in Nat
      BY <2>1 DEF GrantShape
    <3>3. CASE m = c1
      BY <2>1, <2>2, <3>2, <3>3 DEF GrantShape
    <3>4. CASE m # c1
      BY <2>1, <2>2, <3>1, <3>2, <3>4 DEF GrantShape
    <3> QED BY <3>3, <3>4
  <2>6. GrantCovered'
    <3> HIDE DEF local
    <3>1. c4.phase = "idle" /\ ~c4.grant.on
      BY <2>2 DEF GrantCovered, GrantShape
    <3>2. ASSUME NEW m \in GR!Months
          PROVE  c2'[m] <= GrantLimit /\ c3'[m] <= GrantLimit /\ c6'[m] + c7'[m] <= c2'[m]
      <4>1. c6[m] + c7[m] <= c2[m] /\ c3[m] <= GrantLimit
        BY DEF GrantCovered
      <4>2. c6[m] \in Nat /\ c7[m] \in Nat /\ c2[m] \in Nat /\ c7'[m] \in Nat /\ local[m] \in Nat
        BY <2>3 DEF GrantShape
      <4> QED BY <2>2, <2>5, <4>1, <4>2
    <3> QED BY <2>2, <3>1, <3>2 DEF GrantCovered
  <2> QED BY <2>4, <2>6
<1> QED BY <1>1, <1>2

(* The grant is taken, saved, opened and settled, and no step forgets what *)
(* was sent.                                                               *)
LEMMA GrantLifecycle ==
  ASSUME GrantAssumption, GrantShape, GrantCovered,
         \/ \E restored \in BOOLEAN : GR!Start(restored)
         \/ GR!Allocate
         \/ \E stored, acknowledged \in BOOLEAN : GR!SaveCharge(stored, acknowledged)
         \/ \E stored, acknowledged \in BOOLEAN : GR!Commit(stored, acknowledged)
         \/ \E saves \in BOOLEAN : GR!Finish(saves)
         \/ GR!Crash
  PROVE  GrantShape' /\ GrantCovered'
<1>1. GR!Idle \in GrantRun /\ GR!Idle.phase = "idle" /\ ~GR!Idle.grant.on /\ GR!NoCall \in GrantCall
  BY DEF GR!Idle, GrantRun, GR!NoGrant, GR!NoCall, GrantCall, GR!Endpoints, GR!Nothing, GR!Months, GrantAssumption
<1>2. /\ GR!Merged(c3, c2) \in [GR!Months -> Nat]
      /\ \A m \in GR!Months :
           GR!Merged(c3, c2)[m] \in {c3[m], c2[m]} /\ GR!Merged(c3, c2)[m] >= c2[m]
  BY MergedLedger DEF GrantShape
<1>3. c4 \in GrantRun /\ c5 \in GrantCall
  BY DEF GrantShape
<1>4. ASSUME NEW restored \in BOOLEAN, GR!Start(restored)
      PROVE  GrantShape' /\ GrantCovered'
  <2>1. c4' \in GrantRun /\ ~c4'.grant.on
    BY <1>1, <1>2, <1>4 DEF GR!Start, GrantRun
  <2>2. GrantShape'
    BY <1>4, <2>1 DEF GR!Start, GrantShape
  <2>3. \/ c4'.phase = "open" /\ c4'.local = GR!Merged(c3, c2)
        \/ c4'.phase = "ready" /\ c4'.local = GR!Nothing
    BY <1>1, <1>4 DEF GR!Start, GrantRun, GR!Idle
  <2>4. GrantCovered'
    BY <1>2, <1>4, <2>1, <2>3 DEF GR!Start, GrantCovered, GR!Nothing, GrantAssumption
  <2> QED BY <2>2, <2>4
<1>5. CASE GR!Allocate
  <2> DEFINE spare == GR!Max({0, GrantLimit - c4.local[c1]})
             amount == GR!Min({GrantCeiling, spare})
  <2>1. /\ c4.phase = "open"
        /\ c4' = [c4 EXCEPT !.phase = "charged", !.local[c1] = @ + amount,
                            !.grant = [month |-> c1, left |-> amount, on |-> FALSE]]
        /\ UNCHANGED <<c1, c2, c3, c5, c6, c7, c8>>
    BY <1>5 DEF GR!Allocate
  <2>2. c4.local[c1] \in Nat /\ c4.local[c1] <= GrantLimit /\ c1 \in GR!Months
    <3>1. c1 \in GR!Months /\ c4.local \in [GR!Months -> Nat]
      BY <1>3 DEF GrantShape, GrantRun
    <3> QED BY <2>1, <3>1 DEF GrantCovered
  <2>3. spare \in Nat /\ spare = GrantLimit - c4.local[c1]
    <3> DEFINE free == GrantLimit - c4.local[c1]
    <3>1. free \in Nat /\ free \in Int /\ 0 \in Int
      BY <2>2 DEF GrantAssumption
    <3>2. spare = GR!Max({0, free})
      OBVIOUS
    <3>3. free = GrantLimit - c4.local[c1]
      OBVIOUS
    <3> HIDE DEF free, spare
    <3>4. spare \in {0, free} /\ spare >= free
      BY <3>1, <3>2, LargerOfTwo
    <3> QED BY <3>1, <3>3, <3>4
  <2>4. amount \in Nat /\ amount <= spare
    <3> HIDE DEF spare
    <3>1. GrantCeiling \in Int /\ spare \in Int
      BY <2>3 DEF GrantAssumption
    <3>2. amount \in {GrantCeiling, spare} /\ amount <= spare
      BY <3>1, SmallerOfTwo
    <3> QED BY <2>3, <3>2 DEF GrantAssumption
  <2> HIDE DEF amount, spare
  <2>5. /\ c4' \in GrantRun /\ c4'.phase = "charged" /\ c4'.grant.month = c1 /\ c4'.grant.left = amount
        /\ ~c4'.grant.on /\ c4'.local = [c4.local EXCEPT ![c1] = @ + amount]
    <3> DEFINE local == [c4.local EXCEPT ![c1] = @ + amount]
               grant == [month |-> c1, left |-> amount, on |-> FALSE]
    <3>1. c4' = [c4 EXCEPT !.phase = "charged", !.local = local, !.grant = grant]
      BY <2>1
    <3>2. local \in [GR!Months -> Nat] /\ c4.local \in [GR!Months -> Nat]
      BY <1>3, <2>2, <2>4 DEF GrantRun
    <3>3. grant \in [month : GR!Months, left : Nat, on : BOOLEAN] /\ ~grant.on
          /\ grant.month = c1 /\ grant.left = amount
      BY <2>2, <2>4
    <3>4. local = [c4.local EXCEPT ![c1] = @ + amount]
      OBVIOUS
    <3> HIDE DEF local, grant
    <3>5. c4' \in GrantRun /\ c4'.phase = "charged" /\ c4'.local = local /\ c4'.grant = grant
      BY <1>3, <3>1, <3>2, <3>3 DEF GrantRun
    <3> QED BY <3>3, <3>4, <3>5
  <2>6. GrantShape'
    BY <2>1, <2>5 DEF GrantShape
  <2>7. ASSUME NEW m \in GR!Months
        PROVE  c4'.local[m] <= GrantLimit /\ c2[m] + Reserved(m)' <= c4'.local[m]
    <3>1. c4.local \in [GR!Months -> Nat] /\ c2[m] \in Nat
      BY <1>3 DEF GrantRun, GrantShape
    <3>2. c4.local[m] <= GrantLimit /\ c2[m] <= c4.local[m]
      BY <2>1 DEF GrantCovered
    <3>3. c4'.local[m] = IF m = c1 THEN c4.local[m] + amount ELSE c4.local[m]
      BY <2>5, <3>1
    <3>4. Reserved(m)' = IF m = c1 THEN amount ELSE 0
      BY <2>5 DEF Reserved
    <3> QED BY <2>2, <2>3, <2>4, <3>1, <3>2, <3>3, <3>4 DEF GrantAssumption
  <2>8. GrantCovered'
    BY <2>1, <2>5, <2>7 DEF GrantCovered
  <2> QED BY <2>6, <2>8
<1>6. ASSUME NEW stored \in BOOLEAN, NEW acknowledged \in BOOLEAN, GR!SaveCharge(stored, acknowledged)
      PROVE  GrantShape' /\ GrantCovered'
  <2>1. /\ c4' \in GrantRun /\ c4'.grant = c4.grant /\ c4'.local = c4.local
        /\ c4'.phase \in {"saved", "ready"} /\ c4.phase = "charged"
    BY <1>3, <1>6 DEF GR!SaveCharge, GrantRun
  <2>2. c4.local \in [GR!Months -> Nat] /\ ~c4.grant.on
    BY <1>3, <2>1 DEF GrantRun, GrantCovered, GR!Months, GrantAssumption
  <2>3. GrantShape'
    BY <1>6, <2>1, <2>2 DEF GR!SaveCharge, GrantShape
  <2>4. GrantCovered'
    BY <1>6, <2>1, <2>2 DEF GR!SaveCharge, GrantCovered, Reserved
  <2> QED BY <2>3, <2>4
<1>7. ASSUME NEW stored \in BOOLEAN, NEW acknowledged \in BOOLEAN, GR!Commit(stored, acknowledged)
      PROVE  GrantShape' /\ GrantCovered'
  <2>1. /\ c4' \in GrantRun /\ c4'.grant = [c4.grant EXCEPT !.on = acknowledged] /\ c4'.local = c4.local
        /\ c4'.phase = "ready" /\ c4.phase = "saved"
    BY <1>3, <1>7 DEF GR!Commit, GrantRun
  <2>2. c4.local \in [GR!Months -> Nat] /\ c4.grant \in [month : GR!Months, left : Nat, on : BOOLEAN]
    BY <1>3 DEF GrantRun
  <2>3. GrantShape'
    BY <1>7, <2>1, <2>2 DEF GR!Commit, GrantShape
  <2>4. ASSUME NEW m \in GR!Months
        PROVE  /\ c2'[m] <= GrantLimit /\ c6[m] + c7[m] <= c2'[m] /\ c4.local[m] <= GrantLimit
               /\ acknowledged => c6[m] + c7[m] + Reserved(m) <= c2'[m]
    <3>1. c2[m] \in Nat /\ c6[m] \in Nat /\ c7[m] \in Nat /\ c4.local[m] \in Nat /\ Reserved(m) \in Nat
      BY <2>2 DEF GrantShape, Reserved
    <3>2. c2[m] + Reserved(m) <= c4.local[m] /\ c4.local[m] <= GrantLimit /\ c6[m] + c7[m] <= c2[m] /\ c2[m] <= GrantLimit
      BY <2>1 DEF GrantCovered
    <3>3. c2' = (IF stored THEN c4.local ELSE c2) /\ (acknowledged => stored)
      BY <1>7 DEF GR!Commit
    <3> QED BY <3>1, <3>2, <3>3 DEF GrantAssumption
  <2>5. \A m \in GR!Months : Reserved(m)' = Reserved(m)
    BY <2>1, <2>2 DEF Reserved
  <2>6. c4'.grant.on = acknowledged
    BY <2>1, <2>2
  <2>7. GrantCovered'
    BY <1>7, <2>1, <2>4, <2>5, <2>6 DEF GR!Commit, GrantCovered
  <2> QED BY <2>3, <2>7
<1>8. ASSUME NEW saves \in BOOLEAN, GR!Finish(saves)
      PROVE  GrantShape' /\ GrantCovered'
  <2>1. c4.local \in [GR!Months -> Nat] /\ c4.phase = "ready"
    BY <1>3, <1>8 DEF GrantRun, GR!Finish
  <2>2. /\ GR!Merged(c3, c4.local) \in [GR!Months -> Nat]
        /\ \A m \in GR!Months : GR!Merged(c3, c4.local)[m] \in {c3[m], c4.local[m]}
    BY <2>1, MergedLedger DEF GrantShape
  <2>3. GrantShape'
    BY <1>1, <1>8, <2>2 DEF GR!Finish, GrantShape
  <2>4. GrantCovered'
    BY <1>1, <1>8, <2>1, <2>2 DEF GR!Finish, GrantCovered
  <2> QED BY <2>3, <2>4
<1>9. CASE GR!Crash
  BY <1>1, <1>9 DEF GR!Crash, GrantShape, GrantCovered
<1> QED BY <1>4, <1>5, <1>6, <1>7, <1>8, <1>9

(* Every step of the run, its requests and the other scans.                *)
LEMMA GrantStep ==
  ASSUME GrantAssumption, GrantShape, GrantCovered, GR!Next
  PROVE  GrantShape' /\ GrantCovered'
BY GrantAttempts, GrantCalls, GrantOthers, GrantLifecycle DEF GR!Next

(* The invariant of the paid grant.                                        *)
GrantInv == part = "grant" => GrantShape /\ GrantCovered

(* Every unit a run sent to a paid endpoint was charged beforehand to the  *)
(* month it was sent in (scan_with_shared_ledger, PreallocatedRpcBudget),  *)
(* whichever copy of the ledger is lost and whatever the other scans       *)
(* write.                                                                  *)
THEOREM PaidUnitsAreCharged == Spec => []PaidIsCharged
<1>1. Init => GrantInv
  <2>1. Init /\ part = "grant" => GR!Init
    BY DEF Init
  <2> QED BY <2>1, GrantInit, GrantAssumption DEF GrantInv
<1>2. GrantInv /\ [Next]_<<part, c1, c2, c3, c4, c5, c6, c7, c8, c9, c10>> => GrantInv'
  <2> SUFFICES ASSUME GrantInv, [Next]_<<part, c1, c2, c3, c4, c5, c6, c7, c8, c9, c10>>, part' = "grant"
               PROVE  GrantShape' /\ GrantCovered'
    BY DEF GrantInv
  <2>1. part = "grant"
    BY DEF Next
  <2>2. CASE UNCHANGED <<part, c1, c2, c3, c4, c5, c6, c7, c8, c9, c10>>
    BY <2>1, <2>2 DEF GrantInv, GrantShape, GrantCovered, Reserved
  <2>3. CASE Next
    <3>1. GR!Next
      BY <2>1, <2>3 DEF Next
    <3> QED BY <2>1, <3>1, GrantStep, GrantAssumption DEF GrantInv
  <2> QED BY <2>2, <2>3
<1>3. GrantInv => PaidIsCharged
  BY DEF GrantInv, GrantShape, GrantCovered, PaidIsCharged, GR!PaidIsCharged
<1> QED BY <1>1, <1>2, <1>3, PTL DEF Spec
===============================================================================
