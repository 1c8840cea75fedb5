------------------------- MODULE SnapshotOutboxProofs -------------------------
(* Proofs about SnapshotOutbox for any snapshots, rows, invalid rows and      *)
(* originals beyond the archive's capacity, and any number of faults.          *)
EXTENDS SnapshotOutbox, TLAPS

-----------------------------------------------------------------------------
(* The inductive invariant.                                                *)

(* The shape of the stores; of the job only that it is a record, so that   *)
(* nothing rests on how the list of files is sorted.                       *)
Shape ==
  /\ box \in [Snapshots -> File] /\ cache \in [Snapshots -> File]
  /\ cold \in [Snapshots \X Orders -> Manifest]
  /\ job = [kind |-> job.kind, todo |-> job.todo, body |-> job.body, ended |-> job.ended]
  /\ job.ended \in {"no", "complete", "deferred", "error"}

(* The rows before the cursor of a file are in the queue.                  *)
Covered(s, f) == RowsOf(s, f.order, 1..f.sent) \subseteq queue

Cursors ==
  \A s \in Snapshots :
    /\ Covered(s, box[s]) /\ Covered(s, cache[s])
    /\ RowsOf(s, "sorted", 1..cold[<<s, "sorted">>].sent) \subseteq queue

(* What a send has learned and the outbox does not hold yet: the cursor of *)
(* the body it works on, in the place the file has, and whether it is at   *)
(* the end.                                                                *)
Learned(s) ==
  /\ job.body \in File /\ Covered(s, job.body) /\ job.body.at = box[s].at
  /\ job.ended = "complete" => job.body.sent = Rows
Working ==
  job.ended # "no" =>
    /\ job.kind = "scan"
    /\ \A s \in Snapshots : s = Head(job.todo) => Learned(s)

(* A file leaves the outbox, or its rows are set aside, only for a reason. *)
Reason(s) == Kept(s) \/ (Accepted(s) /\ Valid(s) = 1..Rows)
Held ==
  \A s \in Snapshots :
    /\ "quarantine" \in {box[s].at, cache[s].at} => Accepted(s)
    /\ cache[s].at # "none" /\ box[s].at = "none" => Reason(s)

OutboxInv == Shape /\ Cursors /\ Working /\ Held

-----------------------------------------------------------------------------
(* Rows and cursors.                                                       *)

LEMMA MaxOfTwo ==
  ASSUME NEW a \in Nat, NEW b \in Nat
  PROVE  Max({a, b}) \in {a, b}
<1>1. \E x \in {a, b} : \A y \in {a, b} : x >= y
  OBVIOUS
<1> QED BY <1>1 DEF Max

LEMMA CursorType == 0..Rows \subseteq Nat /\ 0 \in 0..Rows
BY OutboxAssumption

LEMMA ManifestType ==
  ASSUME NEW n \in 0..Rows, NEW c \in BOOLEAN
  PROVE  LET m == [kept |-> TRUE, sent |-> n, completed |-> c] IN m \in Manifest /\ m.kept
BY DEF Manifest

LEMMA NoRows == ASSUME NEW s, NEW order PROVE RowsOf(s, order, 1..0) = {}
BY DEF RowsOf

(* Sending the rows after a cursor covers every cursor up to them.         *)
LEMMA Extend ==
  ASSUME NEW s, NEW order, NEW a \in Nat, NEW n \in Nat, NEW u \in Nat, n <= u,
         NEW Q, RowsOf(s, order, 1..a) \subseteq Q
  PROVE  RowsOf(s, order, 1..n) \subseteq Q \cup RowsOf(s, order, (a + 1)..u)
<1> SUFFICES ASSUME NEW i \in 1..n, <<s, RowAt(order, i)>> \notin Invalid
             PROVE  <<s, RowAt(order, i)>> \in Q \cup RowsOf(s, order, (a + 1)..u)
  BY DEF RowsOf
<1>1. CASE i <= a
  <2>1. i \in 1..a
    BY <1>1
  <2> QED BY <2>1 DEF RowsOf
<1>2. CASE ~(i <= a)
  <2>1. i \in (a + 1)..u
    BY <1>2
  <2> QED BY <2>1 DEF RowsOf
<1> QED BY <1>1, <1>2

(* A cursor at the end covers every valid row, whichever order it counts.  *)
LEMMA AllRows ==
  ASSUME NEW s \in Snapshots, NEW f \in File, f.sent = Rows, Covered(s, f)
  PROVE  Accepted(s)
<1> SUFFICES ASSUME NEW r \in 1..Rows, <<s, r>> \notin Invalid PROVE <<s, r>> \in queue
  BY DEF Accepted, Valid
<1>1. f.order \in {"built", "sorted"}
  BY DEF File, Orders
<1>2. \E i \in 1..Rows : RowAt(f.order, i) = r
  BY <1>1, OutboxAssumption DEF RowAt
<1>3. <<s, r>> \in RowsOf(s, f.order, 1..Rows)
  BY <1>2 DEF RowsOf
<1> QED BY <1>3 DEF Covered

LEMMA NoFileType == NoFile \in File /\ NoFile.at = "none" /\ NoFile.sent = 0
BY OutboxAssumption DEF NoFile, File, Orders

LEMMA IdleShape ==
  /\ Idle = [kind |-> Idle.kind, todo |-> Idle.todo, body |-> Idle.body, ended |-> Idle.ended]
  /\ Idle.ended = "no"
BY DEF Idle

-----------------------------------------------------------------------------
(* The queue and the archive only grow, so what covered or justified       *)
(* something goes on doing so.                                             *)
Grows ==
  /\ queue \subseteq queue'
  /\ \A e \in Snapshots \X Orders : cold[e].kept => cold'[e].kept

(* What may happen to a file in the outbox: it stays, it is the saved one  *)
(* again, or it changes for a reason.                                      *)
Handled(s) ==
  \/ box'[s] = box[s]
  \/ box'[s] = cache[s]
  \/ /\ RowsOf(s, box'[s].order, 1..box'[s].sent) \subseteq queue'
     /\ box'[s].at = "quarantine" => Accepted(s)'
     /\ box'[s].at = "none" => Reason(s)' \/ box[s].at = "none"

LEMMA Lasting ==
  ASSUME Grows, NEW s \in Snapshots
  PROVE  (Accepted(s) => Accepted(s)') /\ (Reason(s) => Reason(s)')
<1>1. Accepted(s) => Accepted(s)'
  BY DEF Grows, Accepted, Valid
<1>2. Kept(s) => Kept(s)'
  BY DEF Grows, Kept
<1> QED BY <1>1, <1>2 DEF Reason, Valid

LEMMA Files ==
  ASSUME OutboxInv, Grows, Shape', Working', \A s \in Snapshots : Handled(s),
         UNCHANGED cache \/ (cache' = box /\ UNCHANGED box),
         \A s \in Snapshots : RowsOf(s, "sorted", 1..cold'[<<s, "sorted">>].sent) \subseteq queue'
  PROVE  OutboxInv'
<1> SUFFICES ASSUME NEW s \in Snapshots
             PROVE  /\ Covered(s, box[s])' /\ Covered(s, cache[s])'
                    /\ ("quarantine" \in {box[s].at, cache[s].at} => Accepted(s))'
                    /\ (cache[s].at # "none" /\ box[s].at = "none" => Reason(s))'
  BY DEF OutboxInv, Cursors, Held
<1>1. /\ RowsOf(s, box[s].order, 1..box[s].sent) \subseteq queue'
      /\ RowsOf(s, cache[s].order, 1..cache[s].sent) \subseteq queue'
  BY DEF OutboxInv, Cursors, Covered, Grows
<1>2. Covered(s, box[s])' /\ Covered(s, cache[s])'
  BY <1>1 DEF Handled, Covered
<1>3. (Accepted(s) => Accepted(s)') /\ (Reason(s) => Reason(s)')
  BY Lasting
<1>4. /\ "quarantine" \in {box[s].at, cache[s].at} => Accepted(s)'
      /\ cache[s].at # "none" /\ box[s].at = "none" => Reason(s)'
  BY <1>3 DEF OutboxInv, Held
<1> HIDE DEF Reason, Accepted
<1>5. ("quarantine" \in {box[s].at, cache[s].at} => Accepted(s))'
  BY <1>4 DEF Handled
<1>6. (cache[s].at # "none" /\ box[s].at = "none" => Reason(s))'
  BY <1>4 DEF Handled
<1> QED BY <1>2, <1>5, <1>6

(* A step that leaves the stores alone.                                    *)
LEMMA Standing ==
  ASSUME OutboxInv, UNCHANGED <<cache, queue, cold>>, Shape', Working', \A s \in Snapshots : Handled(s)
  PROVE  OutboxInv'
<1>1. Grows
  BY DEF Grows
<1>2. \A s \in Snapshots : RowsOf(s, "sorted", 1..cold'[<<s, "sorted">>].sent) \subseteq queue'
  BY DEF OutboxInv, Cursors
<1> QED BY <1>1, <1>2, Files

(* A job that has learned nothing yet.                                     *)
LEMMA Blank ==
  ASSUME job' = [kind |-> job'.kind, todo |-> job'.todo, body |-> job'.body, ended |-> job'.ended],
         job'.ended = "no", box' \in [Snapshots -> File], cache' \in [Snapshots -> File],
         cold' \in [Snapshots \X Orders -> Manifest]
  PROVE  Shape' /\ Working'
BY DEF Shape, Working

-----------------------------------------------------------------------------
(* The actions of a scan.                                                  *)

LEMMA StartScanPreserves ==
  ASSUME OutboxInv, StartScan
  PROVE  OutboxInv'
<1>1. PICK dash \in BOOLEAN, current \in {{}, {Min(fresh)}} :
        /\ box' = [s \in Snapshots |-> IF s \in current
                     THEN [at |-> "pending", sent |-> 0, order |-> "built", dash |-> dash]
                     ELSE box[s]]
        /\ job' = [Idle EXCEPT !.kind = "scan", !.todo = Selected(current)]
  BY DEF StartScan
<1> DEFINE new == [at |-> "pending", sent |-> 0, order |-> "built", dash |-> dash]
<1>2. new \in File
  BY OutboxAssumption DEF File, Orders
<1>3. UNCHANGED <<cache, queue, cold>> /\ Shape
  BY DEF StartScan, OutboxInv
<1>4. box' \in [Snapshots -> File]
  <2>1. box' = [s \in Snapshots |-> IF s \in current THEN new ELSE box[s]]
    BY <1>1
  <2> HIDE DEF new
  <2> QED BY <2>1, <1>2, <1>3 DEF Shape
<1>5. job' = [kind |-> job'.kind, todo |-> job'.todo, body |-> job'.body, ended |-> job'.ended] /\ job'.ended = "no"
  BY <1>1 DEF Idle
<1>6. Shape' /\ Working'
  BY <1>3, <1>4, <1>5, Blank DEF Shape
<1>7. ASSUME NEW s \in Snapshots PROVE Handled(s)
  <2>1. box'[s] = box[s] \/ box'[s] = new
    BY <1>1
  <2>2. RowsOf(s, new.order, 1..new.sent) \subseteq queue'
    BY NoRows
  <2> QED BY <2>1, <2>2 DEF Handled
<1> QED BY <1>3, <1>6, <1>7, Standing

LEMMA SendPreserves ==
  ASSUME OutboxInv, Send
  PROVE  OutboxInv'
<1> DEFINE h == Head(job.todo)
           b == box[h]
           order == IF b.sent = 0 THEN "sorted" ELSE b.order
<1>1. PICK n \in b.sent..Rows, unheard \in {0, 1}, end \in {"complete", "deferred", "error"} :
          /\ n + unheard <= Rows
          /\ n < Rows => end # "complete"
          /\ queue' = queue \cup RowsOf(h, order, (b.sent + 1)..(n + unheard))
          /\ job' = [job EXCEPT !.body = [b EXCEPT !.sent = n, !.order = order], !.ended = end]
  BY DEF Send, SendRows
<1>2. UNCHANGED <<box, cache, cold>> /\ job.kind = "scan" /\ Shape
  BY DEF Send, OutboxInv
<1> DEFINE f == [b EXCEPT !.sent = n, !.order = order]
<1>3. /\ job'.kind = "scan" /\ job'.todo = job.todo /\ job'.body = f /\ job'.ended = end
      /\ job' = [kind |-> job'.kind, todo |-> job'.todo, body |-> job'.body, ended |-> job'.ended]
  <2>1. job' = [job EXCEPT !.body = f, !.ended = end]
    BY <1>1
  <2>2. job = [kind |-> job.kind, todo |-> job.todo, body |-> job.body, ended |-> job.ended]
    BY <1>2 DEF Shape
  <2> HIDE DEF f
  <2> QED BY <1>2, <2>1, <2>2
<1>4. Shape'
  BY <1>2, <1>3 DEF Shape
<1>5. ASSUME h \in Snapshots PROVE Learned(h)'
  <2>1. b \in File /\ b.sent \in Nat /\ Rows \in Nat /\ b.order \in Orders
    BY <1>2, <1>5, OutboxAssumption DEF Shape, File
  <2>2. order \in Orders /\ n \in Nat /\ n + unheard \in Nat /\ n <= n + unheard
    BY <2>1 DEF Orders
  <2>3. f \in File /\ f.at = b.at /\ f.sent = n /\ f.order = order
    <3>1. n \in 0..Rows
      BY <2>1
    <3> HIDE DEF b, order
    <3> QED BY <2>1, <2>2, <3>1 DEF File
  <2>4. RowsOf(h, order, 1..b.sent) \subseteq queue
    <3>1. CASE b.sent = 0
      BY <3>1, NoRows
    <3>2. CASE b.sent # 0
      BY <1>5, <3>2 DEF OutboxInv, Cursors, Covered
    <3> QED BY <3>1, <3>2
  <2>5. RowsOf(h, order, 1..n) \subseteq queue'
    <3> HIDE DEF order, b
    <3> QED BY <1>1, <2>1, <2>2, <2>4, Extend
  <2>6. end = "complete" => n = Rows
    BY <1>1, <2>1
  <2> HIDE DEF f, order
  <2> QED BY <1>2, <1>3, <2>3, <2>5, <2>6 DEF Learned, Covered
<1>6. Working'
  BY <1>3, <1>5 DEF Working
<1>7. Grows
  BY <1>1, <1>2 DEF Grows
<1>8. \A s \in Snapshots : RowsOf(s, "sorted", 1..cold'[<<s, "sorted">>].sent) \subseteq queue'
  BY <1>2, <1>7 DEF OutboxInv, Cursors, Grows
<1> QED BY <1>2, <1>4, <1>6, <1>7, <1>8, Files DEF Handled

(* The next file of the list: nothing is learned of it.                    *)
LEMMA NextOne ==
  ASSUME Shape, job' = Next1
  PROVE  /\ job' = [kind |-> job'.kind, todo |-> job'.todo, body |-> job'.body, ended |-> job'.ended]
         /\ job'.ended = "no"
BY DEF Shape, Next1

(* All acknowledged: the file has no reason to stay, or waits in           *)
(* quarantine with every valid row of it accepted.                         *)
LEMMA ReleasePreserves ==
  ASSUME OutboxInv, Release
  PROVE  OutboxInv'
<1> DEFINE h == Head(job.todo)
           b == [job.body EXCEPT !.at = "quarantine"]
<1>1. /\ box' = [box EXCEPT ![h] = IF Valid(h) = 1..Rows THEN NoFile ELSE b]
      /\ job' = Next1 /\ UNCHANGED <<cache, queue, cold>> /\ Shape
  BY DEF Release, OutboxInv
<1>2. ASSUME h \in Snapshots
      PROVE  /\ b \in File /\ b.at = "quarantine" /\ RowsOf(h, b.order, 1..b.sent) \subseteq queue
             /\ Accepted(h)
  <2>1. job.body \in File /\ Covered(h, job.body) /\ job.body.sent = Rows
    BY <1>2 DEF Release, OutboxInv, Working, Learned
  <2>2. b \in File /\ b.at = "quarantine" /\ b.order = job.body.order /\ b.sent = job.body.sent
    BY <2>1 DEF File
  <2> QED BY <1>2, <2>1, <2>2, AllRows DEF Covered
<1>3. box' \in [Snapshots -> File]
  <2>1. CASE h \in Snapshots
    <3> HIDE DEF h, b
    <3> QED BY <1>1, <1>2, <2>1, NoFileType DEF Shape
  <2>2. CASE h \notin Snapshots
    <3> HIDE DEF h, b
    <3> QED BY <1>1, <2>2 DEF Shape
  <2> QED BY <2>1, <2>2
<1>4. Shape' /\ Working'
  BY <1>1, <1>3, NextOne, Blank DEF Shape
<1>5. ASSUME NEW s \in Snapshots PROVE Handled(s)
  <2>1. CASE s # h
    <3> HIDE DEF h, b
    <3> QED BY <1>1, <2>1 DEF Handled, Shape
  <2>2. CASE s = h /\ Valid(h) = 1..Rows
    <3>1. box'[s] = NoFile
      <4> HIDE DEF h, b
      <4> QED BY <1>1, <2>2 DEF Shape
    <3>2. Reason(s)'
      BY <1>1, <1>2, <2>2 DEF Reason, Accepted, Valid
    <3>3. RowsOf(s, NoFile.order, 1..NoFile.sent) \subseteq queue'
      BY NoRows, NoFileType
    <3> QED BY <3>1, <3>2, <3>3, NoFileType DEF Handled
  <2>3. CASE s = h /\ Valid(h) # 1..Rows
    <3>1. box'[s] = b
      <4> HIDE DEF h, b
      <4> QED BY <1>1, <2>3 DEF Shape
    <3>2. Accepted(s)'
      BY <1>1, <1>2, <2>3 DEF Accepted, Valid
    <3>3. b.at = "quarantine" /\ RowsOf(s, b.order, 1..b.sent) \subseteq queue'
      BY <1>1, <1>2, <2>3
    <3> HIDE DEF b
    <3> QED BY <3>1, <3>2, <3>3 DEF Handled
  <2> QED BY <2>1, <2>2, <2>3
<1> QED BY <1>1, <1>4, <1>5, Standing

(* What a send has learned of the file it worked on.                       *)
LEMMA LearnedOf ==
  ASSUME OutboxInv, job.ended # "no", NEW h, h = Head(job.todo), h \in Snapshots
  PROVE  /\ job.body \in File /\ Covered(h, job.body) /\ job.body.at = box[h].at
         /\ RowsOf(h, job.body.order, 1..job.body.sent) \subseteq queue
BY DEF OutboxInv, Working, Learned, Covered

(* The file takes over the cursor of a send.                               *)
LEMMA Rewritten ==
  ASSUME OutboxInv, Grows, job.ended # "no", box' = [box EXCEPT ![Head(job.todo)] = job.body]
  PROVE  box' \in [Snapshots -> File] /\ \A s \in Snapshots : Handled(s)
<1> DEFINE h == Head(job.todo)
<1>1. box \in [Snapshots -> File] /\ box' = [box EXCEPT ![h] = job.body]
  BY DEF OutboxInv, Shape
<1>2. h \in Snapshots => job.body \in File
  BY LearnedOf
<1>3. box' \in [Snapshots -> File]
  <2> HIDE DEF h
  <2> QED BY <1>1, <1>2
<1>4. ASSUME NEW s \in Snapshots PROVE Handled(s)
  <2>1. CASE s # h
    <3> HIDE DEF h
    <3> QED BY <1>1, <2>1 DEF Handled
  <2>2. CASE s = h
    <3>1. box'[s] = job.body
      <4> HIDE DEF h
      <4> QED BY <1>1, <2>2
    <3>2. job.body.at = box[s].at /\ RowsOf(s, job.body.order, 1..job.body.sent) \subseteq queue'
      BY <2>2, LearnedOf DEF Grows
    <3>3. "quarantine" = box[s].at => Accepted(s)'
      BY Lasting DEF OutboxInv, Held
    <3> HIDE DEF Reason, Accepted
    <3> QED BY <3>1, <3>2, <3>3 DEF Handled
  <2> QED BY <2>1, <2>2
<1> QED BY <1>3, <1>4

LEMMA KeepPreserves ==
  ASSUME OutboxInv, Keep
  PROVE  OutboxInv'
<1>1. job.ended # "no" /\ job' = Next1 /\ UNCHANGED <<cache, queue, cold>> /\ Shape
      /\ box' = [box EXCEPT ![Head(job.todo)] = job.body]
  BY DEF Keep, OutboxInv
<1>2. Grows
  BY <1>1 DEF Grows
<1>3. box' \in [Snapshots -> File] /\ \A s \in Snapshots : Handled(s)
  BY <1>1, <1>2, Rewritten
<1>4. Shape' /\ Working'
  BY <1>1, <1>3, NextOne, Blank DEF Shape
<1> QED BY <1>1, <1>3, <1>4, Standing

-----------------------------------------------------------------------------
(* The archive.                                                            *)

(* An original is added, or its cursor grows to one that is covered.       *)
LEMMA Archiving ==
  ASSUME OutboxInv, NEW h, NEW body, h \in Snapshots => body \in File /\ Covered(h, body),
         cold' = Archived(h, body), UNCHANGED queue
  PROVE  /\ cold' \in [Snapshots \X Orders -> Manifest] /\ Grows
         /\ \A s \in Snapshots : RowsOf(s, "sorted", 1..cold'[<<s, "sorted">>].sent) \subseteq queue'
         /\ h \in Snapshots => Kept(h)'
<1> DEFINE a == <<h, body.order>>
           m == [kept |-> TRUE, sent |-> Max({cold[a].sent, body.sent}), completed |-> cold[a].completed]
<1>1. cold \in [Snapshots \X Orders -> Manifest] /\ cold' = [cold EXCEPT ![a] = m]
  BY DEF OutboxInv, Shape, Archived
<1>2. \A s \in Snapshots : RowsOf(s, "sorted", 1..cold[<<s, "sorted">>].sent) \subseteq queue
  BY DEF OutboxInv, Cursors
<1>3. "sorted" \in Orders
  BY DEF Orders
<1>4. CASE h \notin Snapshots
  <2>1. a \notin Snapshots \X Orders
    BY <1>4
  <2>2. cold' = cold
    <3> HIDE DEF a, m
    <3> QED BY <1>1, <2>1
  <2> QED BY <1>1, <1>2, <1>4, <2>2 DEF Grows
<1>5. CASE h \in Snapshots
  <2>1. body.order \in Orders /\ body.sent \in 0..Rows /\ Covered(h, body)
    BY <1>5 DEF File
  <2>2. a \in Snapshots \X Orders /\ cold[a] \in Manifest
    <3>1. a \in Snapshots \X Orders
      BY <1>5, <2>1
    <3> HIDE DEF a
    <3> QED BY <1>1, <3>1
  <2>3. cold[a].sent \in 0..Rows /\ cold[a].completed \in BOOLEAN
    <3> HIDE DEF a
    <3> QED BY <2>2 DEF Manifest
  <2>4. m.sent \in {cold[a].sent, body.sent}
    <3>1. cold[a].sent \in Nat /\ body.sent \in Nat
      <4> HIDE DEF a
      <4> QED BY <2>1, <2>3, CursorType
    <3> HIDE DEF a
    <3> QED BY <3>1, MaxOfTwo
  <2>5. m \in Manifest /\ m.kept
    <3>1. m.sent \in 0..Rows
      <4> HIDE DEF a, m
      <4> QED BY <2>1, <2>3, <2>4
    <3>2. Max({cold[a].sent, body.sent}) \in 0..Rows
      BY <3>1
    <3> HIDE DEF a
    <3> QED BY <2>3, <3>2, ManifestType
  <2>6. cold' \in [Snapshots \X Orders -> Manifest]
    <3> HIDE DEF a, m
    <3> QED BY <1>1, <2>2, <2>5
  <2>7. \A e \in Snapshots \X Orders : cold'[e] = cold[e] \/ (e = a /\ cold'[e] = m)
    <3> HIDE DEF a, m
    <3> QED BY <1>1
  <2>8. Grows
    <3> HIDE DEF a, m
    <3> QED BY <2>5, <2>7 DEF Grows
  <2>9. ASSUME NEW s \in Snapshots PROVE RowsOf(s, "sorted", 1..cold'[<<s, "sorted">>].sent) \subseteq queue'
    <3>1. <<s, "sorted">> \in Snapshots \X Orders
      BY <1>3
    <3>2. CASE cold'[<<s, "sorted">>] = cold[<<s, "sorted">>]
      BY <1>2, <3>2
    <3>3. CASE <<s, "sorted">> = a /\ cold'[<<s, "sorted">>] = m
      <4>1. s = h /\ body.order = "sorted"
        BY <3>3
      <4>2. m.sent = cold[<<s, "sorted">>].sent \/ m.sent = body.sent
        BY <2>4, <4>1
      <4>3. RowsOf(s, "sorted", 1..body.sent) \subseteq queue
        BY <2>1, <4>1 DEF Covered
      <4> HIDE DEF m
      <4> QED BY <1>2, <3>3, <4>2, <4>3
    <3> HIDE DEF a, m
    <3> QED BY <2>7, <3>1, <3>2, <3>3
  <2>10. Kept(h)'
    <3>1. cold'[a].kept
      <4> HIDE DEF a, m
      <4> QED BY <1>1, <2>2, <2>5
    <3> QED BY <2>1, <3>1 DEF Kept
  <2> QED BY <2>6, <2>8, <2>9, <2>10
<1> QED BY <1>4, <1>5

(* A file goes once its original is archived.                              *)
LEMMA FileArchived ==
  ASSUME OutboxInv, NEW h, NEW body, h \in Snapshots => body \in File /\ Covered(h, body),
         ArchiveKept(h, body), job' = Next1, UNCHANGED <<cache, queue>>
  PROVE  OutboxInv'
<1>1. cold' = Archived(h, body) /\ box' = [box EXCEPT ![h] = NoFile] /\ Shape
  BY DEF ArchiveKept, OutboxInv
<1>2. /\ cold' \in [Snapshots \X Orders -> Manifest] /\ Grows
      /\ \A s \in Snapshots : RowsOf(s, "sorted", 1..cold'[<<s, "sorted">>].sent) \subseteq queue'
      /\ h \in Snapshots => Kept(h)'
  BY <1>1, Archiving
<1>3. box' \in [Snapshots -> File]
  BY <1>1, NoFileType DEF Shape
<1>4. Shape' /\ Working'
  BY <1>1, <1>2, <1>3, NextOne, Blank DEF Shape
<1>5. ASSUME NEW s \in Snapshots PROVE Handled(s)
  <2>1. CASE s # h
    BY <1>1, <2>1 DEF Handled, Shape
  <2>2. CASE s = h
    <3>1. box'[s] = NoFile /\ Reason(s)'
      BY <1>1, <1>2, <2>2 DEF Shape, Reason
    <3>2. RowsOf(s, NoFile.order, 1..NoFile.sent) \subseteq queue'
      BY NoRows, NoFileType
    <3> HIDE DEF Reason
    <3> QED BY <3>1, <3>2, NoFileType DEF Handled
  <2> QED BY <2>1, <2>2
<1> QED BY <1>2, <1>4, <1>5, Files

(* An original whose receipt is lost may be there, with or without its     *)
(* cursor.                                                                 *)
LEMMA Unverified ==
  ASSUME OutboxInv, NEW h, NEW body, h \in Snapshots => body \in File /\ Covered(h, body),
         ArchiveUnverified(h, body) \/ UNCHANGED cold, UNCHANGED queue
  PROVE  /\ cold' \in [Snapshots \X Orders -> Manifest] /\ Grows
         /\ \A s \in Snapshots : RowsOf(s, "sorted", 1..cold'[<<s, "sorted">>].sent) \subseteq queue'
<1> DEFINE bare == [body EXCEPT !.sent = 0]
<1>1. h \in Snapshots => bare \in File /\ Covered(h, bare)
  <2> SUFFICES ASSUME h \in Snapshots PROVE bare \in File /\ Covered(h, bare)
    OBVIOUS
  <2>1. bare \in File /\ bare.sent = 0
    BY CursorType DEF File
  <2> HIDE DEF bare
  <2> QED BY <2>1, NoRows DEF Covered
<1>2. cold' = Archived(h, body) \/ cold' = Archived(h, bare) \/ UNCHANGED cold
  BY DEF ArchiveUnverified
<1>3. CASE cold' = Archived(h, body)
  BY <1>3, Archiving
<1>4. CASE cold' = Archived(h, bare)
  <2> HIDE DEF bare
  <2> QED BY <1>1, <1>4, Archiving
<1>5. CASE UNCHANGED cold
  BY <1>5 DEF Grows, OutboxInv, Cursors, Shape
<1> QED BY <1>2, <1>3, <1>4, <1>5

LEMMA ScanArchivePreserves ==
  ASSUME OutboxInv, ScanArchive
  PROVE  OutboxInv'
<1>1. /\ job.ended # "no" /\ ArchiveKept(Head(job.todo), job.body) /\ job' = Next1
      /\ UNCHANGED <<cache, queue>>
  BY DEF ScanArchive
<1>2. Head(job.todo) \in Snapshots => job.body \in File /\ Covered(Head(job.todo), job.body)
  BY <1>1, LearnedOf
<1> QED BY <1>1, <1>2, FileArchived

LEMMA ScanArchiveLostPreserves ==
  ASSUME OutboxInv, ScanArchiveLost
  PROVE  OutboxInv'
<1>1. /\ job.ended # "no" /\ ArchiveUnverified(Head(job.todo), job.body) /\ job' = Next1
      /\ UNCHANGED <<cache, queue>> /\ Shape /\ box' = [box EXCEPT ![Head(job.todo)] = job.body]
  BY DEF ScanArchiveLost, OutboxInv
<1>2. Head(job.todo) \in Snapshots => job.body \in File /\ Covered(Head(job.todo), job.body)
  BY <1>1, LearnedOf
<1>3. /\ cold' \in [Snapshots \X Orders -> Manifest] /\ Grows
      /\ \A s \in Snapshots : RowsOf(s, "sorted", 1..cold'[<<s, "sorted">>].sent) \subseteq queue'
  BY <1>1, <1>2, Unverified
<1>4. box' \in [Snapshots -> File] /\ \A s \in Snapshots : Handled(s)
  BY <1>1, <1>3, Rewritten
<1>5. Shape' /\ Working'
  BY <1>1, <1>3, <1>4, NextOne, Blank DEF Shape
<1> QED BY <1>1, <1>3, <1>4, <1>5, Files

-----------------------------------------------------------------------------
(* The actions of a recovery.                                              *)

LEMMA RecoverArchivePreserves ==
  ASSUME OutboxInv, RecoverArchive
  PROVE  OutboxInv'
<1>1. ArchiveKept(Head(job.todo), box[Head(job.todo)]) /\ job' = Next1 /\ UNCHANGED <<cache, queue>>
  BY DEF RecoverArchive
<1>2. \A s \in Snapshots : box[s] \in File /\ Covered(s, box[s])
  BY DEF OutboxInv, Shape, Cursors
<1> QED BY <1>1, <1>2, FileArchived

(* A job that is no scan has learned nothing from a send.                  *)
LEMMA Unlearned == ASSUME OutboxInv, job.kind # "scan" PROVE job.ended = "no"
BY DEF OutboxInv, Working

LEMMA RecoverStopPreserves ==
  ASSUME OutboxInv, RecoverStop
  PROVE  OutboxInv'
<1> DEFINE h == Head(job.todo)
<1>1. /\ ArchiveUnverified(h, box[h]) \/ UNCHANGED cold
      /\ job' = [job EXCEPT !.todo = <<>>] /\ job.kind = "recover"
      /\ UNCHANGED <<box, cache, queue>> /\ Shape
  BY DEF RecoverStop, OutboxInv
<1>2. h \in Snapshots => box[h] \in File /\ Covered(h, box[h])
  BY DEF OutboxInv, Shape, Cursors
<1>3. /\ cold' \in [Snapshots \X Orders -> Manifest] /\ Grows
      /\ \A s \in Snapshots : RowsOf(s, "sorted", 1..cold'[<<s, "sorted">>].sent) \subseteq queue'
  <2> HIDE DEF h
  <2> QED BY <1>1, <1>2, Unverified
<1>4. job' = [kind |-> job'.kind, todo |-> job'.todo, body |-> job'.body, ended |-> job'.ended] /\ job'.ended = "no"
  BY <1>1, Unlearned DEF Shape
<1>5. Shape' /\ Working'
  BY <1>1, <1>3, <1>4, Blank DEF Shape
<1> QED BY <1>1, <1>3, <1>5, Files DEF Handled

(* A replay sends the rows after the cursor of an original.                *)
LEMMA ReplayPreserves ==
  ASSUME OutboxInv, Replay
  PROVE  OutboxInv'
<1>1. UNCHANGED <<box, cache, job>> /\ Shape /\ job.ended = "no"
  BY Unlearned DEF Replay, OutboxInv
<1>0. PICK e \in Snapshots \X Orders :
        \E n \in cold[e].sent..Rows, unheard \in {0, 1}, patched \in BOOLEAN :
          /\ n + unheard <= Rows
          /\ LET order == IF cold[e].sent = 0 THEN "sorted" ELSE e[2]
             IN  queue' = queue \cup RowsOf(e[1], order, (cold[e].sent + 1)..(n + unheard))
          /\ cold' = IF patched
                     THEN [cold EXCEPT ![e].sent = n, ![e].completed = (n = Rows)]
                     ELSE cold
  BY DEF Replay
<1>2. PICK n \in cold[e].sent..Rows, unheard \in {0, 1}, patched \in BOOLEAN :
        /\ n + unheard <= Rows
        /\ LET order == IF cold[e].sent = 0 THEN "sorted" ELSE e[2]
           IN  queue' = queue \cup RowsOf(e[1], order, (cold[e].sent + 1)..(n + unheard))
        /\ cold' = IF patched
                   THEN [cold EXCEPT ![e].sent = n, ![e].completed = (n = Rows)]
                   ELSE cold
  BY <1>0
<1> DEFINE a == cold[e].sent
           m == [cold[e] EXCEPT !.sent = n, !.completed = (n = Rows)]
<1>3. cold[e] \in Manifest /\ a \in Nat /\ n \in Nat /\ n \in 0..Rows /\ n + unheard \in Nat /\ n <= n + unheard
  <2>1. cold[e] \in Manifest /\ a \in 0..Rows
    BY <1>1 DEF Shape, Manifest
  <2>2. n \in a..Rows
    OBVIOUS
  <2>3. Rows \in Nat
    BY OutboxAssumption
  <2>4. a \in Nat /\ n \in Nat /\ n \in 0..Rows
    <3> HIDE DEF a
    <3> QED BY <2>1, <2>2, <2>3
  <2> HIDE DEF a
  <2> QED BY <2>1, <2>4
<1>4. m \in Manifest /\ m.sent = n /\ m.kept = cold[e].kept
  <2> DEFINE done == (n = Rows)
  <2>1. done \in BOOLEAN
    OBVIOUS
  <2> HIDE DEF done
  <2> QED BY <1>3, <2>1 DEF Manifest
<1>5. cold' = cold \/ cold' = [cold EXCEPT ![e] = m]
  BY <1>2, <1>1 DEF Shape
<1>6. \A d \in Snapshots \X Orders : cold'[d] = cold[d] \/ (d = e /\ cold'[d] = m)
  <2> HIDE DEF m
  <2> QED BY <1>1, <1>5 DEF Shape
<1>7. cold' \in [Snapshots \X Orders -> Manifest]
  <2> HIDE DEF m
  <2> QED BY <1>1, <1>4, <1>5 DEF Shape
<1>8. Grows
  <2> HIDE DEF m
  <2> QED BY <1>2, <1>4, <1>6 DEF Grows
<1>9. ASSUME NEW s \in Snapshots PROVE RowsOf(s, "sorted", 1..cold'[<<s, "sorted">>].sent) \subseteq queue'
  <2>1. RowsOf(s, "sorted", 1..cold[<<s, "sorted">>].sent) \subseteq queue /\ <<s, "sorted">> \in Snapshots \X Orders
    BY DEF OutboxInv, Cursors, Orders
  <2>2. CASE cold'[<<s, "sorted">>] = cold[<<s, "sorted">>]
    BY <2>1, <2>2, <1>8 DEF Grows
  <2>3. CASE <<s, "sorted">> = e /\ cold'[<<s, "sorted">>] = m
    <3>1. e[1] = s /\ e[2] = "sorted"
      BY <2>3
    <3>2. queue' = queue \cup RowsOf(s, "sorted", (a + 1)..(n + unheard))
      BY <1>2, <3>1
    <3>3. RowsOf(s, "sorted", 1..a) \subseteq queue
      BY <2>1, <2>3
    <3>4. RowsOf(s, "sorted", 1..n) \subseteq queue'
      <4> HIDE DEF a
      <4> QED BY <1>3, <3>2, <3>3, Extend
    <3> HIDE DEF m
    <3> QED BY <1>4, <2>3, <3>4
  <2> HIDE DEF m
  <2> QED BY <1>6, <2>1, <2>2, <2>3
<1>10. Shape' /\ Working'
  BY <1>1, <1>7 DEF Shape, Working
<1> QED BY <1>1, <1>8, <1>9, <1>10, Files DEF Handled

-----------------------------------------------------------------------------
(* The beginning and the end of a job.                                     *)

LEMMA Turning ==
  ASSUME OutboxInv, UNCHANGED <<queue, cold>>,
         job' = [kind |-> job'.kind, todo |-> job'.todo, body |-> job'.body, ended |-> job'.ended], job'.ended = "no",
         \/ UNCHANGED <<box, cache>>
         \/ cache' = box /\ UNCHANGED box
         \/ box' = cache /\ UNCHANGED cache
  PROVE  OutboxInv'
<1>1. Shape
  BY DEF OutboxInv
<1>3. Shape' /\ Working'
  BY <1>1, Blank DEF Shape
<1>4. Grows
  BY DEF Grows
<1>5. \A s \in Snapshots : RowsOf(s, "sorted", 1..cold'[<<s, "sorted">>].sent) \subseteq queue'
  BY DEF OutboxInv, Cursors
<1> QED BY <1>3, <1>4, <1>5, Files DEF Handled

LEMMA TurnsPreserve ==
  ASSUME OutboxInv, StartRecovery \/ EndJob \/ Interrupt \/ Save \/ Lose
  PROVE  OutboxInv'
<1>1. UNCHANGED <<queue, cold>>
  BY DEF StartRecovery, EndJob, Interrupt, Save, Lose
<1>2. \/ UNCHANGED <<box, cache>>
      \/ cache' = box /\ UNCHANGED box
      \/ box' = cache /\ UNCHANGED cache
  BY DEF StartRecovery, EndJob, Interrupt, Save, Lose
<1>3. job' = [kind |-> job'.kind, todo |-> job'.todo, body |-> job'.body, ended |-> job'.ended] /\ job'.ended = "no"
  <2>1. CASE StartRecovery
    BY <2>1 DEF StartRecovery, Idle
  <2>2. CASE EndJob
    BY <2>2 DEF EndJob, Idle
  <2>3. CASE Interrupt
    BY <2>3 DEF Interrupt, Idle
  <2>4. CASE Save \/ Lose
    BY <2>4 DEF Save, Lose, Idle
  <2> QED BY <2>1, <2>2, <2>3, <2>4
<1> QED BY <1>1, <1>2, <1>3, Turning

-----------------------------------------------------------------------------
(* The theorems.                                                           *)

LEMMA OutboxInitially == Init => OutboxInv
<1> SUFFICES ASSUME Init PROVE OutboxInv
  OBVIOUS
<1>1. \A s \in Snapshots : box[s] = NoFile /\ cache[s] = NoFile
  BY DEF Init
<1>2. NoManifest \in Manifest /\ NoManifest.sent = 0
  BY CursorType DEF NoManifest, Manifest
<1>3. \A s \in Snapshots : cold[<<s, "sorted">>] = NoManifest
  BY DEF Init, Orders
<1>4. Shape
  BY <1>2, NoFileType DEF Init, Shape, Idle
<1>5. Cursors
  BY <1>1, <1>2, <1>3, NoFileType, NoRows DEF Cursors, Covered
<1>6. Working
  BY DEF Init, Idle, Working
<1>7. Held
  BY <1>1, NoFileType DEF Held
<1> QED BY <1>4, <1>5, <1>6, <1>7 DEF OutboxInv

LEMMA OutboxInductive == OutboxInv /\ [Next]_vars => OutboxInv'
<1> SUFFICES ASSUME OutboxInv, [Next]_vars PROVE OutboxInv'
  OBVIOUS
<1>1. CASE UNCHANGED vars
  <2>1. Shape' /\ Cursors'
    BY <1>1 DEF vars, OutboxInv, Shape, Cursors, Covered
  <2>2. Working'
    BY <1>1 DEF vars, OutboxInv, Working, Learned, Covered
  <2>3. Held'
    BY <1>1 DEF vars, OutboxInv, Held, Reason, Accepted, Kept
  <2> QED BY <2>1, <2>2, <2>3 DEF OutboxInv
<1> QED BY <1>1, StartScanPreserves, SendPreserves, ReleasePreserves, KeepPreserves, ScanArchivePreserves,
       ScanArchiveLostPreserves, RecoverArchivePreserves, RecoverStopPreserves, ReplayPreserves,
       TurnsPreserve DEF Next

(* Neither a signal, a lost reply, a lost machine, a replay nor the sort   *)
(* that moves the recent episodes first puts a cursor ahead of the rows    *)
(* that the queue has accepted.                                            *)
THEOREM CursorsStayBehind == Spec => []CursorsAreAcknowledged
<1>1. ASSUME OutboxInv PROVE CursorsAreAcknowledged
  <2> SUFFICES ASSUME NEW s \in Snapshots, NEW f \in {box[s], cache[s], cold[<<s, "sorted">>]}
               PROVE  RowsOf(s, IF "order" \in DOMAIN f THEN f.order ELSE "sorted", 1..f.sent) \subseteq queue
    BY DEF CursorsAreAcknowledged
  <2>1. CASE f \in {box[s], cache[s]}
    <3>1. "order" \in DOMAIN f
      BY <1>1, <2>1 DEF OutboxInv, Shape, File
    <3>2. Covered(s, f)
      BY <1>1, <2>1 DEF OutboxInv, Cursors
    <3> QED BY <3>1, <3>2 DEF Covered
  <2>2. CASE f = cold[<<s, "sorted">>]
    <3>1. "order" \notin DOMAIN f
      BY <1>1, <2>2 DEF OutboxInv, Shape, Manifest, Orders
    <3>2. RowsOf(s, "sorted", 1..f.sent) \subseteq queue
      BY <1>1, <2>2 DEF OutboxInv, Cursors
    <3> QED BY <3>1, <3>2
  <2> QED BY <2>1, <2>2
<1> QED BY <1>1, OutboxInitially, OutboxInductive, PTL DEF Spec

(* Only a save changes the saved outbox, and what it takes over has kept   *)
(* every saved file or has a reason not to.                                *)
LEMMA SavedStep ==
  ASSUME OutboxInv, OutboxInv', [Next]_vars, NEW s \in Snapshots, cache[s].at # "none"
  PROVE  \/ cache'[s].at = "pending"
         \/ cache'[s].at = "quarantine" /\ Accepted(s)'
         \/ cache'[s].at = "none" /\ (Kept(s) \/ (Accepted(s) /\ Valid(s) = 1..Rows))'
<1>1. cache'[s].at \in {"none", "pending", "quarantine"}
  BY DEF OutboxInv, Shape, File
<1>2. cache'[s].at = "quarantine" => Accepted(s)'
  BY DEF OutboxInv, Held
<1>3. CASE UNCHANGED cache
  BY <1>1, <1>2, <1>3
<1>4. CASE Save
  <2>1. cache'[s] = box[s] /\ UNCHANGED <<queue, cold>>
    BY <1>4 DEF Save
  <2>2. box[s].at = "none" => (Kept(s) \/ (Accepted(s) /\ Valid(s) = 1..Rows))'
    BY <2>1 DEF OutboxInv, Held, Reason, Kept, Accepted, Valid
  <2> QED BY <1>1, <1>2, <2>1, <2>2
<1>5. UNCHANGED cache \/ Save
  BY DEF Next, vars, StartScan, Send, Release, Keep, ScanArchive, ScanArchiveLost, StartRecovery, RecoverArchive,
         RecoverStop, Replay, EndJob, Interrupt, Lose
<1> QED BY <1>3, <1>4, <1>5

(* Whatever is interrupted, lost or archived, a file that was saved once   *)
(* stays in the saved outbox until its valid rows are accepted or its      *)
(* original is archived.                                                   *)
THEOREM NothingSavedIsDropped == Spec => NothingIsDropped
<1>1. OutboxInv /\ OutboxInv' /\ [Next]_vars =>
        [\A s \in Snapshots : cache[s].at # "none" =>
           \/ cache'[s].at = "pending"
           \/ cache'[s].at = "quarantine" /\ Accepted(s)'
           \/ cache'[s].at = "none" /\ (Kept(s) \/ (Accepted(s) /\ Valid(s) = 1..Rows))']_vars
  BY SavedStep
<1> QED BY <1>1, OutboxInitially, OutboxInductive, PTL DEF Spec, NothingIsDropped
=============================================================================
