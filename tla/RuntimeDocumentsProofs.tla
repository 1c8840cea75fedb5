----------------------- MODULE RuntimeDocumentsProofs -----------------------
(* Proofs about RuntimeDocuments for any parts, publishers and readers.    *)
EXTENDS RuntimeDocuments, TLAPS

(* No publication carries a clock reading of the future: what it stamps in *)
(* its commit is a time that has been.                                     *)
Clocked == \A w \in Publishers : pub[w].clock <= now

(* The inductive invariant.                                                *)
IInv == TypeOK /\ Clocked /\ ManifestComplete

LEMMA MaxOfTwo ==
  ASSUME NEW a \in Int, NEW b \in Int
  PROVE  Max({a, b}) \in {a, b} /\ a <= Max({a, b})
<1>1. \E x \in {a, b} : \A y \in {a, b} : x >= y
  OBVIOUS
<1> QED BY <1>1 DEF Max

LEMMA UnitTypes == Grace \in Nat /\ Latency \in Nat /\ MaxTime \in Nat /\ Revisions \subseteq Nat
BY RuntimeAssumption

LEMMA ReadingType ==
  ASSUME now \in Nat, NEW t \in Readings
  PROVE  t \in Nat /\ t <= now
<1> DEFINE b == now - Latency
           m == Max({0, b})
<1>1. b \in Int
  BY UnitTypes
<1>2. m \in {0, b} /\ 0 <= m
  <2> HIDE DEF b
  <2> QED BY <1>1, MaxOfTwo
<1>3. t \in m .. now
  BY DEF Readings
<1> HIDE DEF b, m
<1> QED BY <1>1, <1>2, <1>3

(* What the invariant says of a publication.                               *)
LEMMA PubFacts ==
  ASSUME IInv, NEW w \in Publishers
  PROVE  /\ pub[w] \in Pub /\ pub[w].clock <= now /\ now \in Nat
         /\ pub[w].doc \in Doc /\ pub[w].scan \in Doc /\ root \in Doc
BY UnitTypes DEF IInv, TypeOK, Clocked, Pub

LEMMA NoRootType == NoRoot \in Doc
BY DEF NoRoot, Doc, Absent

LEMMA IdleType == Idle \in Pub /\ Idle.clock = 0
BY NoRootType DEF Idle, Pub

(* A publication that goes on by itself leaves the store alone.            *)
LEMMA PubOnly ==
  ASSUME IInv, NEW w \in Publishers, NEW s \in Pub, s.clock <= now, Set(w, s),
         UNCHANGED <<now, touched, root, refs, gc, reader>>
  PROVE  IInv'
<1>1. pub' \in [Publishers -> Pub]
  BY DEF IInv, TypeOK, Set
<1>2. Clocked'
  BY DEF IInv, TypeOK, Set, Clocked
<1>3. TypeOK'
  BY <1>1 DEF IInv, TypeOK, Doc
<1> QED BY <1>2, <1>3 DEF IInv, ManifestComplete, Present

-----------------------------------------------------------------------------
(* The documents a publication sends.                                      *)

LEMMA SummaryType == ASSUME NEW scan \in Doc PROVE Summary(scan) \in Doc
BY DEF Summary, Doc, SummaryRevision

LEMMA ProceedPreserves ==
  ASSUME IInv, NEW w \in Publishers, Proceed(w), UNCHANGED <<now, touched, root, refs, gc, reader>>
  PROVE  IInv'
<1>1. pub[w] \in Pub /\ pub[w].scan \in Doc /\ now \in Nat
  BY PubFacts
<1>2. CASE pub[w].stage = "retire"
  <2> DEFINE s == [pub[w] EXCEPT !.phase = "send", !.stage = "summary", !.doc = Summary(pub[w].scan), !.clock = 0]
  <2>1. s \in Pub /\ s.clock = 0
    BY <1>1, SummaryType DEF Pub
  <2>2. Set(w, s)
    BY <1>2 DEF Proceed
  <2> HIDE DEF s
  <2> QED BY <1>1, <2>1, <2>2, PubOnly
<1>3. CASE pub[w].stage = "summary"
  <2> DEFINE s == [pub[w] EXCEPT !.phase = "probe", !.clock = 0]
  <2>1. s \in Pub /\ s.clock = 0
    BY <1>1 DEF Pub
  <2>2. Set(w, s)
    BY <1>3 DEF Proceed
  <2> HIDE DEF s
  <2> QED BY <1>1, <2>1, <2>2, PubOnly
<1>4. CASE pub[w].stage = "complete"
  <2> DEFINE d == [pub[w].scan EXCEPT !.source = Absent, !.by = "nobody", !.parts = {}]
             s == [Idle EXCEPT !.phase = "done", !.scan = d]
  <2>1. d \in Doc
    <3>1. Absent \in Int
      BY DEF Absent
    <3> QED BY <1>1, <3>1 DEF Doc
  <2>2. s \in Pub /\ s.clock = 0
    <3> HIDE DEF d
    <3> QED BY <2>1, IdleType DEF Pub
  <2>3. Set(w, s)
    BY <1>4 DEF Proceed
  <2> HIDE DEF s
  <2> QED BY <1>1, <2>2, <2>3, PubOnly
<1> QED BY <1>1, <1>2, <1>3, <1>4 DEF Pub

LEMMA BuildPreserves ==
  ASSUME IInv, NEW w \in Publishers, Build(w)
  PROVE  IInv'
<1>1. now \in Nat /\ UNCHANGED <<now, touched, root, refs, gc, reader>>
  BY PubFacts DEF Build
<1>2. PICK parts \in SUBSET Parts \ {{}} :
       \/ /\ Kind = "checkpoint"
          /\ \E rev \in Revisions :
               LET scan == [source |-> now, rev |-> rev, gen |-> now, by |-> w, parts |-> parts] IN
               Set(w, [Idle EXCEPT !.phase = "probe", !.scan = scan, !.doc = scan])
       \/ /\ Kind = "dashboard"
          /\ LET scan == [source |-> now, rev |-> CompleteRevision, gen |-> now, by |-> w, parts |-> parts] IN
             \/ Set(w, [Idle EXCEPT !.phase = "send", !.stage = "summary", !.scan = scan, !.doc = Summary(scan)])
             \/ /\ Retirement /\ root # NoRoot
                /\ Set(w, [Idle EXCEPT !.phase = "load", !.stage = "retire", !.scan = scan])
  BY DEF Build
<1> DEFINE scan(rev) == [source |-> now, rev |-> rev, gen |-> now, by |-> w, parts |-> parts]
<1>3. ASSUME NEW rev \in Nat PROVE scan(rev) \in Doc
  BY <1>1, <1>3 DEF Doc
<1>4. CASE \E rev \in Revisions : Set(w, [Idle EXCEPT !.phase = "probe", !.scan = scan(rev), !.doc = scan(rev)])
  <2>1. PICK rev \in Revisions : Set(w, [Idle EXCEPT !.phase = "probe", !.scan = scan(rev), !.doc = scan(rev)])
    BY <1>4
  <2> DEFINE d == scan(rev)
             s == [Idle EXCEPT !.phase = "probe", !.scan = d, !.doc = d]
  <2>2. d \in Doc
    BY <1>3, UnitTypes
  <2>3. s \in Pub /\ s.clock = 0
    <3> HIDE DEF d
    <3> QED BY <2>2, IdleType DEF Pub
  <2>4. Set(w, s)
    BY <2>1
  <2> HIDE DEF s
  <2> QED BY <1>1, <2>3, <2>4, PubOnly
<1> DEFINE d == scan(CompleteRevision)
           summary == [Idle EXCEPT !.phase = "send", !.stage = "summary", !.scan = d, !.doc = Summary(d)]
           retire == [Idle EXCEPT !.phase = "load", !.stage = "retire", !.scan = d]
<1>5. d \in Doc
  BY <1>3 DEF CompleteRevision
<1>6. CASE Set(w, summary)
  <2>1. summary \in Pub /\ summary.clock = 0
    <3> HIDE DEF d
    <3> QED BY <1>5, IdleType, SummaryType DEF Pub
  <2> HIDE DEF summary
  <2> QED BY <1>1, <1>6, <2>1, PubOnly
<1>7. CASE Set(w, retire)
  <2>1. retire \in Pub /\ retire.clock = 0
    <3> HIDE DEF d
    <3> QED BY <1>5, IdleType DEF Pub
  <2> HIDE DEF retire
  <2> QED BY <1>1, <1>7, <2>1, PubOnly
<1> QED BY <1>2, <1>4, <1>6, <1>7

LEMMA RepairPreserves ==
  ASSUME IInv, NEW w \in Publishers, Repair(w)
  PROVE  IInv'
<1>1. now \in Nat /\ root \in Doc /\ UNCHANGED <<now, touched, root, refs, gc, reader>>
  BY PubFacts DEF Repair
<1>2. PICK parts \in SUBSET Parts \ {{}} :
        LET scan == [root EXCEPT !.parts = parts] IN
        Set(w, [Idle EXCEPT !.phase = "probe", !.scan = scan, !.doc = scan])
  BY DEF Repair
<1> DEFINE d == [root EXCEPT !.parts = parts]
           s == [Idle EXCEPT !.phase = "probe", !.scan = d, !.doc = d]
<1>3. d \in Doc
  BY <1>1 DEF Doc
<1>4. s \in Pub /\ s.clock = 0
  <2> HIDE DEF d
  <2> QED BY <1>3, IdleType DEF Pub
<1>5. Set(w, s)
  BY <1>2
<1> HIDE DEF s
<1> QED BY <1>1, <1>4, <1>5, PubOnly

LEMMA LoadPreserves ==
  ASSUME IInv, NEW w \in Publishers, Load(w)
  PROVE  IInv'
<1>1. /\ now \in Nat /\ root \in Doc /\ pub[w] \in Pub /\ pub[w].clock <= now
      /\ UNCHANGED <<now, touched, root, refs, gc, reader>>
  BY PubFacts DEF Load
<1>2. CASE Proceed(w)
  BY <1>1, <1>2, ProceedPreserves
<1>3. CASE \E t \in {t \in Readings : t >= pub[w].scan.gen}, kept \in SUBSET root.parts :
             Set(w, [pub[w] EXCEPT !.phase = "send",
                       !.doc = [root EXCEPT !.source = t, !.rev = @ + 1, !.parts = kept]])
  <2>1. PICK t \in Readings, kept \in SUBSET root.parts :
          Set(w, [pub[w] EXCEPT !.phase = "send",
                    !.doc = [root EXCEPT !.source = t, !.rev = @ + 1, !.parts = kept]])
    BY <1>3
  <2> DEFINE d == [root EXCEPT !.source = t, !.rev = @ + 1, !.parts = kept]
             s == [pub[w] EXCEPT !.phase = "send", !.doc = d]
  <2>2. d \in Doc
    <3>1. t \in Int /\ root.rev + 1 \in Nat /\ kept \in SUBSET Parts
      BY <1>1, ReadingType DEF Doc
    <3> QED BY <1>1, <3>1 DEF Doc
  <2>3. s \in Pub /\ s.clock <= now
    <3> HIDE DEF d
    <3> QED BY <1>1, <2>2 DEF Pub
  <2>4. Set(w, s)
    BY <2>1
  <2> HIDE DEF s
  <2> QED BY <1>1, <2>3, <2>4, PubOnly
<1> QED BY <1>2, <1>3 DEF Load

-----------------------------------------------------------------------------
(* The parts are looked for and uploaded.                                  *)

LEMMA ProbePreserves ==
  ASSUME IInv, NEW w \in Publishers, Probe(w)
  PROVE  IInv'
<1>1. /\ now \in Nat /\ pub[w] \in Pub /\ pub[w].clock <= now /\ pub[w].scan.parts \in SUBSET Parts
      /\ UNCHANGED <<now, touched, root, refs, gc, reader>>
  BY PubFacts DEF Probe, Doc
<1>2. PICK found \in {pub[w].scan.parts \cap Present, {}} :
        Set(w, [pub[w] EXCEPT !.phase = "upload", !.todo = pub[w].scan.parts \ found, !.since = now])
  BY DEF Probe
<1> DEFINE s == [pub[w] EXCEPT !.phase = "upload", !.todo = pub[w].scan.parts \ found, !.since = now]
<1>3. s \in Pub /\ s.clock <= now
  BY <1>1 DEF Pub
<1>4. Set(w, s)
  BY <1>2
<1> HIDE DEF s
<1> QED BY <1>1, <1>3, <1>4, PubOnly

(* The rows of the parts change, and at most one publication with them.    *)
LEMMA Touching ==
  ASSUME IInv, NEW w \in Publishers, UNCHANGED <<now, gc, reader>>,
         touched' \in [Parts -> Int], \A p \in Parts : touched'[p] \in Absent .. now,
         root' \in Doc, ManifestComplete',
         \/ UNCHANGED pub
         \/ \E s \in Pub : s.clock <= now /\ Set(w, s)
  PROVE  IInv'
<1>1. pub' \in [Publishers -> Pub] /\ Clocked'
  <2>1. CASE UNCHANGED pub
    BY <2>1 DEF IInv, TypeOK, Clocked
  <2>2. CASE \E s \in Pub : s.clock <= now /\ Set(w, s)
    BY <2>2 DEF IInv, TypeOK, Set, Clocked
  <2> QED BY <2>1, <2>2
<1>2. refs' \subseteq Parts
  BY DEF ManifestComplete, Doc
<1>3. TypeOK'
  BY <1>1, <1>2 DEF IInv, TypeOK, Doc
<1> QED BY <1>1, <1>3 DEF IInv

LEMMA UploadPreserves ==
  ASSUME IInv, NEW w \in Publishers, Upload(w)
  PROVE  IInv'
<1>1. /\ now \in Nat /\ pub[w] \in Pub /\ pub[w].clock <= now /\ pub[w].todo \subseteq Parts
      /\ touched \in [Parts -> Int] /\ root \in Doc
      /\ \A p \in Parts : touched[p] \in Absent .. now
  BY PubFacts DEF Pub, IInv, TypeOK
<1>2. PICK p \in pub[w].todo, t \in Readings :
       /\ touched' = [touched EXCEPT ![p] = Stamp(t)]
       /\ \/ Set(w, [pub[w] EXCEPT !.todo = @ \ {p}, !.sent = @ \cup {p}])
          \/ UNCHANGED pub
  BY DEF Upload
<1>3. t \in Nat /\ t <= now /\ Stamp(t) = t /\ p \in Parts
  BY <1>1, ReadingType DEF Stamp
<1>4. touched' \in [Parts -> Int] /\ \A q \in Parts : touched'[q] = touched[q] \/ touched'[q] = t
  BY <1>1, <1>2, <1>3
<1>5. Absent \in Int /\ t # Absent /\ t \in Absent .. now
  BY <1>1, <1>3 DEF Absent
<1>6. \A q \in Parts : touched'[q] \in Absent .. now
  BY <1>1, <1>4, <1>5
<1>7. Present \subseteq Present'
  BY <1>4, <1>5 DEF Present
<1>8. UNCHANGED <<now, gc, reader, root, refs>>
  BY DEF Upload
<1>9. ManifestComplete'
  BY <1>7, <1>8 DEF IInv, ManifestComplete
<1>10. UNCHANGED pub \/ \E s \in Pub : s.clock <= now /\ Set(w, s)
  <2> DEFINE s == [pub[w] EXCEPT !.todo = @ \ {p}, !.sent = @ \cup {p}]
  <2>1. s \in Pub /\ s.clock <= now
    BY <1>1, <1>3 DEF Pub
  <2>2. UNCHANGED pub \/ Set(w, s)
    BY <1>2
  <2> HIDE DEF s
  <2> QED BY <2>1, <2>2
<1> QED BY <1>1, <1>4, <1>6, <1>8, <1>9, <1>10, Touching

LEMMA UploadedPreserves ==
  ASSUME IInv, NEW w \in Publishers, Uploaded(w)
  PROVE  IInv'
<1>1. /\ now \in Nat /\ pub[w] \in Pub /\ pub[w].clock <= now /\ pub[w].scan \in Doc
      /\ UNCHANGED <<now, touched, root, refs, gc, reader>>
  BY PubFacts DEF Uploaded
<1> DEFINE s == [pub[w] EXCEPT !.phase = "send", !.stage = "complete", !.doc = pub[w].scan]
<1>2. s \in Pub /\ s.clock <= now
  BY <1>1 DEF Pub
<1>3. Set(w, s)
  BY DEF Uploaded
<1> HIDE DEF s
<1> QED BY <1>1, <1>2, <1>3, PubOnly

-----------------------------------------------------------------------------
(* A document is sent, committed and answered.                             *)

LEMMA GuardedType ==
  ASSUME NEW d \in Doc, NEW e \in Guarded(d)
  PROVE  e \in Doc
<1>1. CASE e = d
  BY <1>1
<1>2. CASE \E kept \in SUBSET d.parts : e = [d EXCEPT !.parts = kept]
  BY <1>2 DEF Doc
<1> QED BY <1>1, <1>2 DEF Guarded

LEMMA ComparePreserves ==
  ASSUME IInv, NEW w \in Publishers, Compare(w)
  PROVE  IInv'
<1>1. /\ now \in Nat /\ pub[w] \in Pub /\ pub[w].doc \in Doc
      /\ UNCHANGED <<now, touched, root, refs, gc, reader>>
  BY PubFacts DEF Compare
<1>2. PICK doc \in Guarded(pub[w].doc) :
        IF root = doc THEN Proceed(w)
        ELSE Set(w, [pub[w] EXCEPT !.phase = "commit", !.doc = doc, !.clock = now])
  BY DEF Compare
<1>3. CASE Proceed(w)
  BY <1>1, <1>3, ProceedPreserves
<1>4. CASE Set(w, [pub[w] EXCEPT !.phase = "commit", !.doc = doc, !.clock = now])
  <2> DEFINE s == [pub[w] EXCEPT !.phase = "commit", !.doc = doc, !.clock = now]
  <2>1. doc \in Doc
    BY <1>1, GuardedType
  <2>2. s \in Pub /\ s.clock = now
    BY <1>1, <2>1 DEF Pub
  <2>3. Set(w, s)
    BY <1>4
  <2> HIDE DEF s
  <2> QED BY <1>1, <2>2, <2>3, PubOnly
<1> QED BY <1>2, <1>3, <1>4

LEMMA CommitPreserves ==
  ASSUME IInv, NEW w \in Publishers, Commit(w)
  PROVE  IInv'
<1> DEFINE doc == pub[w].doc
           s == [pub[w] EXCEPT !.phase = "reply", !.clock = 0]
           clock == pub[w].clock
<1>1. /\ now \in Nat /\ pub[w] \in Pub /\ clock \in Nat /\ clock <= now /\ doc \in Doc /\ root \in Doc
      /\ touched \in [Parts -> Int]
      /\ \A p \in Parts : touched[p] \in Absent .. now
      /\ UNCHANGED <<now, gc, reader>>
  BY PubFacts DEF Pub, IInv, TypeOK, Commit
<1>2. s \in Pub /\ s.clock = 0
  BY <1>1 DEF Pub
<1>5. s.clock <= now /\ Set(w, s)
  <2>1. Set(w, s)
    BY DEF Commit
  <2> HIDE DEF s
  <2> QED BY <1>1, <1>2, <2>1
<1>3. CASE Complete(doc) /\ Supersedes(doc, root)
  <2>1. root' = doc /\ refs' = doc.parts /\ touched' = Retouch(refs \ doc.parts, clock)
    BY <1>3 DEF Commit
  <2>2. Absent \in Int /\ clock # Absent /\ clock \in Absent .. now
    <3> HIDE DEF clock
    <3> QED BY <1>1 DEF Absent
  <2>3. touched' \in [Parts -> Int] /\ \A q \in Parts : touched'[q] = touched[q] \/ touched'[q] = clock
    <3> HIDE DEF clock, doc
    <3> QED BY <1>1, <2>1 DEF Retouch
  <2>4. \A q \in Parts : touched'[q] \in Absent .. now
    <3> HIDE DEF clock
    <3> QED BY <1>1, <2>2, <2>3
  <2>5. Present \subseteq Present'
    <3> HIDE DEF clock
    <3> QED BY <2>2, <2>3 DEF Present
  <2>6. ManifestComplete'
    <3> HIDE DEF doc
    <3> QED BY <1>3, <2>1, <2>5 DEF ManifestComplete, Complete
  <2> HIDE DEF s, doc
  <2> QED BY <1>1, <1>2, <1>5, <2>1, <2>3, <2>4, <2>6, Touching
<1>4. CASE ~(Complete(doc) /\ Supersedes(doc, root))
  <2>1. UNCHANGED <<now, touched, root, refs, gc, reader>>
    BY <1>4 DEF Commit
  <2> HIDE DEF s
  <2> QED BY <1>2, <1>5, <2>1, PubOnly
<1> QED BY <1>3, <1>4

LEMMA ReplyPreserves ==
  ASSUME IInv, NEW w \in Publishers, Reply(w)
  PROVE  IInv'
<1>1. now \in Nat /\ UNCHANGED <<now, touched, root, refs, gc, reader>>
  BY PubFacts DEF Reply
<1>2. CASE Proceed(w)
  BY <1>1, <1>2, ProceedPreserves
<1>3. CASE Set(w, Idle)
  BY <1>1, <1>3, IdleType, PubOnly
<1> QED BY <1>2, <1>3 DEF Reply

LEMMA RetryPreserves ==
  ASSUME IInv, NEW w \in Publishers, Retry(w)
  PROVE  IInv'
<1>1. now \in Nat /\ pub[w] \in Pub /\ UNCHANGED <<now, touched, root, refs, gc, reader>>
  BY PubFacts DEF Retry
<1> DEFINE s == [pub[w] EXCEPT !.phase = "send", !.clock = 0]
<1>2. s \in Pub /\ s.clock = 0
  BY <1>1 DEF Pub
<1>3. Set(w, s)
  BY DEF Retry
<1> HIDE DEF s
<1> QED BY <1>1, <1>2, <1>3, PubOnly

LEMMA AbandonPreserves ==
  ASSUME IInv, NEW w \in Publishers, Abandon(w)
  PROVE  IInv'
<1>1. now \in Nat /\ Set(w, Idle) /\ UNCHANGED <<now, touched, root, refs, gc, reader>>
  BY PubFacts DEF Abandon
<1> QED BY <1>1, IdleType, PubOnly

-----------------------------------------------------------------------------
(* The collector, the restores and the clock.                              *)

LEMMA SelectPreserves ==
  ASSUME IInv, Select
  PROVE  IInv'
<1>1. now \in Nat /\ touched \in [Parts -> Int] /\ Grace \in Nat
      /\ UNCHANGED <<now, touched, root, refs, pub, reader>>
  BY UnitTypes DEF Select, IInv, TypeOK
<1>2. PICK t \in Readings :
        gc' = [phase |-> "page", cutoff |-> t - Grace,
               page |-> {[part |-> p, at |-> touched[p]] : p \in Eligible(t - Grace)}]
  BY DEF Select
<1>3. t - Grace \in Int
  BY <1>1, ReadingType
<1>4. Eligible(t - Grace) \subseteq Parts
  BY DEF Eligible, Present
<1>5. {[part |-> p, at |-> touched[p]] : p \in Eligible(t - Grace)} \in SUBSET [part : Parts, at : Int]
  BY <1>1, <1>4
<1>6. gc' \in [phase : {"idle", "page"}, cutoff : Int, page : SUBSET [part : Parts, at : Int]]
  BY <1>2, <1>3, <1>5
<1>7. TypeOK'
  BY <1>1, <1>6 DEF IInv, TypeOK
<1> QED BY <1>1, <1>7 DEF IInv, Clocked, ManifestComplete, Present

LEMMA DeletePreserves ==
  ASSUME IInv, Delete
  PROVE  IInv'
<1>1. /\ now \in Nat /\ touched \in [Parts -> Int]
      /\ \A p \in Parts : touched[p] \in Absent .. now
      /\ UNCHANGED <<now, root, refs, pub, reader>>
      /\ touched' = [p \in Parts |-> IF p \in Deleted THEN Absent ELSE touched[p]]
      /\ gc' = [phase |-> "idle", cutoff |-> 0, page |-> {}]
  BY UnitTypes DEF Delete, IInv, TypeOK
<1>2. Deleted \cap refs = {}
  BY DEF Deleted, Eligible
<1>3. Absent \in Int /\ Absent \in Absent .. now
  BY <1>1 DEF Absent
<1>4. touched' \in [Parts -> Int] /\ \A p \in Parts : touched'[p] \in Absent .. now
  BY <1>1, <1>3
<1>5. ManifestComplete'
  BY <1>1, <1>2 DEF IInv, ManifestComplete, Present
<1>6. TypeOK'
  BY <1>1, <1>4 DEF IInv, TypeOK
<1> QED BY <1>1, <1>5, <1>6 DEF IInv, Clocked

LEMMA ReaderPreserves ==
  ASSUME IInv, NEW r \in Readers, ReadRoot(r) \/ ReadPart(r)
  PROVE  IInv'
<1>1. UNCHANGED <<now, touched, root, refs, pub, gc>> /\ now \in Nat /\ root.parts \subseteq Parts
  BY UnitTypes DEF ReadRoot, ReadPart, IInv, TypeOK, Doc
<1> DEFINE Reader == [phase : {"idle", "reading"}, todo : SUBSET Parts, at : Nat]
<1>2. reader \in [Readers -> Reader]
  BY DEF IInv, TypeOK
<1>3. reader' \in [Readers -> Reader]
  <2>1. CASE ReadRoot(r)
    BY <1>1, <1>2, <2>1 DEF ReadRoot
  <2>2. CASE ReadPart(r)
    <3>1. PICK p \in reader[r].todo :
            LET rest == reader[r].todo \ {p} IN
            reader' = [reader EXCEPT ![r] =
              IF p \in Present /\ rest # {} THEN [phase |-> "reading", todo |-> rest, at |-> reader[r].at]
              ELSE [phase |-> "idle", todo |-> {}, at |-> 0]]
      BY <2>2 DEF ReadPart
    <3>2. [phase |-> "reading", todo |-> reader[r].todo \ {p}, at |-> reader[r].at] \in Reader
      BY <1>2
    <3>3. [phase |-> "idle", todo |-> {}, at |-> 0] \in Reader
      OBVIOUS
    <3> HIDE DEF Reader
    <3> QED BY <1>2, <3>1, <3>2, <3>3
  <2> QED BY <2>1, <2>2
<1>4. TypeOK'
  BY <1>1, <1>3 DEF IInv, TypeOK
<1> QED BY <1>1, <1>4 DEF IInv, Clocked, ManifestComplete, Present

LEMMA TickPreserves ==
  ASSUME IInv, Tick
  PROVE  IInv'
<1>1. now \in Nat /\ now' = now + 1 /\ now' \in 0 .. MaxTime /\ UNCHANGED <<touched, root, refs, pub, gc, reader>>
  BY UnitTypes DEF Tick, IInv, TypeOK
<1>2. \A p \in Parts : touched'[p] \in Absent .. now'
  <2>1. Absent \in Int
    BY DEF Absent
  <2> QED BY <1>1, <2>1 DEF IInv, TypeOK
<1>3. TypeOK'
  BY <1>1, <1>2 DEF IInv, TypeOK
<1>4. Clocked'
  <2>1. \A w \in Publishers : pub[w].clock \in Nat /\ pub[w].clock <= now
    BY PubFacts DEF Pub
  <2> QED BY <1>1, <2>1 DEF Clocked
<1> QED BY <1>1, <1>3, <1>4 DEF IInv, ManifestComplete, Present

-----------------------------------------------------------------------------
(* The theorems.                                                           *)

LEMMA Initially == Init => IInv
<1> SUFFICES ASSUME Init PROVE IInv
  OBVIOUS
<1>1. now = 0 /\ now \in 0 .. MaxTime
  BY UnitTypes DEF Init
<1>2. Absent \in Int /\ Absent \in Absent .. now
  BY <1>1 DEF Absent
<1>3. touched \in [Parts -> Int] /\ \A p \in Parts : touched[p] \in Absent .. now
  BY <1>2 DEF Init
<1>4. /\ root \in Doc /\ refs \subseteq Parts /\ refs = root.parts /\ root.parts \subseteq Present
      /\ pub \in [Publishers -> Pub] /\ \A w \in Publishers : pub[w].clock = 0
  BY NoRootType, IdleType DEF Init, NoRoot
<1>5. gc \in [phase : {"idle", "page"}, cutoff : Int, page : SUBSET [part : Parts, at : Int]]
  BY DEF Init
<1>6. reader \in [Readers -> [phase : {"idle", "reading"}, todo : SUBSET Parts, at : Nat]]
  BY DEF Init
<1>7. TypeOK
  BY <1>1, <1>3, <1>4, <1>5, <1>6 DEF TypeOK
<1>8. Clocked
  BY <1>1, <1>4 DEF Clocked
<1> QED BY <1>4, <1>7, <1>8 DEF IInv, ManifestComplete

LEMMA Inductive == IInv /\ [Next]_vars => IInv'
<1> SUFFICES ASSUME IInv, [Next]_vars PROVE IInv'
  OBVIOUS
<1>1. ASSUME NEW w \in Publishers,
             \/ Build(w) \/ Repair(w) \/ Load(w) \/ Probe(w) \/ Upload(w) \/ Uploaded(w)
             \/ Compare(w) \/ Commit(w) \/ Reply(w) \/ Retry(w) \/ Abandon(w)
      PROVE  IInv'
  BY <1>1, BuildPreserves, RepairPreserves, LoadPreserves, ProbePreserves, UploadPreserves, UploadedPreserves,
     ComparePreserves, CommitPreserves, ReplyPreserves, RetryPreserves, AbandonPreserves
<1>2. ASSUME NEW r \in Readers, ReadRoot(r) \/ ReadPart(r)
      PROVE  IInv'
  BY <1>2, ReaderPreserves
<1>3. CASE UNCHANGED vars
  BY <1>3 DEF vars, IInv, TypeOK, Clocked, ManifestComplete, Present
<1> QED BY <1>1, <1>2, <1>3, SelectPreserves, DeletePreserves, TickPreserves DEF Next

(* Whatever is published, collected and restored at the same time, every   *)
(* variable keeps its shape and no row is touched in the future.           *)
THEOREM RuntimeTypes == Spec => []TypeOK
<1>1. IInv => TypeOK
  BY DEF IInv
<1> QED BY <1>1, Initially, Inductive, PTL DEF Spec

(* The manifest that is stored names only parts that are stored and        *)
(* protected: neither the collector nor a competing publication leaves a   *)
(* partial one.                                                            *)
THEOREM ManifestsAreComplete == Spec => []ManifestComplete
<1>1. IInv => ManifestComplete
  BY DEF IInv
<1> QED BY <1>1, Initially, Inductive, PTL DEF Spec

(* The stored root changes in a commit only, and the commit replaces it by *)
(* a document that is newer or has the same source time and revision.      *)
LEMMA RootStep ==
  ASSUME IInv, [Next]_vars
  PROVE  [~Newer(root, root')]_root
<1>1. ASSUME NEW w \in Publishers, Commit(w)
      PROVE  root' = root \/ ~Newer(root, root')
  <2>1. root \in Doc /\ pub[w].doc \in Doc
    BY PubFacts
  <2>2. root' = root \/ (root' = pub[w].doc /\ Supersedes(pub[w].doc, root))
    BY <1>1 DEF Commit
  <2>3. ASSUME NEW c \in Doc, NEW d \in Doc, Supersedes(d, c) PROVE ~Newer(c, d)
    BY <2>3 DEF Supersedes, SameContent, Newer, Doc
  <2> QED BY <2>1, <2>2, <2>3
<1>2. root' = root \/ \E w \in Publishers : Commit(w)
  BY DEF Next, vars, Tick, Select, Delete, Build, Repair, Load, Probe, Upload, Uploaded, Compare, Reply, Retry,
         Abandon, ReadRoot, ReadPart
<1> QED BY <1>1, <1>2

(* No publication, repair or retirement puts a root back to an older       *)
(* source time or revision.                                                *)
THEOREM RootsNeverGoBack == Spec => NeverBack
<1>1. IInv /\ [Next]_vars => [~Newer(root, root')]_root
  BY RootStep
<1> QED BY <1>1, Initially, Inductive, PTL DEF Spec, NeverBack

-----------------------------------------------------------------------------
(* What a restore relies on.                                               *)

(* A part a restore still needs is referenced, or was given its time after *)
(* the manifest was read; the collector deletes nothing that young.        *)
Fresh ==
  /\ gc.phase = "page" => gc.cutoff <= now - Grace
  /\ \A r \in Readers :
       /\ reader[r].at <= now
       /\ now - reader[r].at <= Grace - Latency =>
            \A p \in reader[r].todo : p \in Present /\ (p \in refs \/ touched[p] >= reader[r].at - Latency)

LEMMA ReadingBound ==
  ASSUME now \in Nat, NEW t \in Readings
  PROVE  t \in Nat /\ t <= now /\ t >= now - Latency
<1> DEFINE b == now - Latency
           m == Max({b, 0})
<1>1. b \in Int
  BY UnitTypes
<1>2. m \in {0, b} /\ b <= m
  <2> HIDE DEF b
  <2> QED BY <1>1, MaxOfTwo
<1>3. t \in m .. now
  <2>1. {0, b} = {b, 0}
    OBVIOUS
  <2> QED BY <2>1 DEF Readings
<1>4. t \in Nat /\ t <= now
  BY ReadingType
<1> HIDE DEF m
<1> QED BY <1>1, <1>2, <1>3, <1>4

(* What the invariants say of a part that a restore needs.                 *)
LEMMA FreshTypes ==
  ASSUME IInv
  PROVE  /\ now \in Nat /\ Grace \in Nat /\ Latency \in Nat
         /\ touched \in [Parts -> Int] /\ refs \subseteq Parts /\ gc.cutoff \in Int
         /\ \A r \in Readers : reader[r].at \in Nat /\ reader[r].todo \subseteq Parts
BY UnitTypes DEF IInv, TypeOK

(* Parts are stamped with readings of the clock, and only stamped parts    *)
(* lose their reference.                                                   *)
LEMMA StampingKeepsFresh ==
  ASSUME IInv, Fresh, UNCHANGED <<now, gc, reader>>,
         \A p \in Parts : touched'[p] = touched[p] \/ (touched'[p] \in Nat /\ touched'[p] >= now - Latency),
         \A p \in refs : p \in refs' \/ (touched'[p] \in Nat /\ touched'[p] >= now - Latency)
  PROVE  Fresh'
<1>1. gc'.phase = "page" => gc'.cutoff <= now' - Grace
  BY DEF Fresh
<1>2. ASSUME NEW r \in Readers
      PROVE  /\ reader'[r].at <= now'
             /\ now' - reader'[r].at <= Grace - Latency =>
                  \A p \in reader'[r].todo : p \in Present' /\ (p \in refs' \/ touched'[p] >= reader'[r].at - Latency)
  <2>1. reader' = reader /\ now' = now /\ reader[r].at <= now /\ reader[r].at \in Nat
    BY FreshTypes DEF Fresh
  <2> SUFFICES ASSUME now - reader[r].at <= Grace - Latency, NEW p \in reader[r].todo
               PROVE  p \in Present' /\ (p \in refs' \/ touched'[p] >= reader[r].at - Latency)
    BY <2>1
  <2>2. p \in Parts /\ p \in Present /\ (p \in refs \/ touched[p] >= reader[r].at - Latency)
    BY FreshTypes DEF Fresh
  <2>3. touched[p] \in Int /\ touched[p] # Absent
    BY <2>2, FreshTypes DEF Present
  <2>4. CASE touched'[p] \in Nat /\ touched'[p] >= now - Latency
    <3>1. touched'[p] >= reader[r].at - Latency
      BY <2>1, <2>4, FreshTypes
    <3>2. touched'[p] # Absent
      BY <2>4 DEF Absent
    <3> QED BY <2>2, <3>1, <3>2 DEF Present
  <2>5. CASE touched'[p] = touched[p]
    <3>1. p \in Present'
      BY <2>2, <2>3, <2>5 DEF Present
    <3> QED BY <2>2, <2>4, <2>5, <3>1
  <2> QED BY <2>2, <2>4, <2>5
<1> QED BY <1>1, <1>2 DEF Fresh

LEMMA UploadKeepsFresh ==
  ASSUME IInv, Fresh, NEW w \in Publishers, Upload(w)
  PROVE  Fresh'
<1>1. UNCHANGED <<now, gc, reader, refs>>
  BY DEF Upload
<1>2. PICK p \in pub[w].todo, t \in Readings : touched' = [touched EXCEPT ![p] = t]
  BY DEF Upload, Stamp
<1>3. t \in Nat /\ t >= now - Latency
  BY FreshTypes, ReadingBound
<1>4. \A q \in Parts : touched'[q] = touched[q] \/ touched'[q] = t
  BY <1>2, FreshTypes
<1>5. \A q \in Parts : touched'[q] = touched[q] \/ (touched'[q] \in Nat /\ touched'[q] >= now - Latency)
  BY <1>3, <1>4
<1> QED BY <1>1, <1>5, StampingKeepsFresh

LEMMA CommitKeepsFresh ==
  ASSUME IInv, Fresh, NEW w \in Publishers, Commit(w)
  PROVE  Fresh'
<1> DEFINE doc == pub[w].doc
           clock == pub[w].clock
<1>1. UNCHANGED <<now, gc, reader>> /\ now <= clock + Latency
  BY DEF Commit
<1>2. clock \in Nat /\ clock >= now - Latency
  <2>1. clock \in Nat
    BY PubFacts DEF Pub
  <2> HIDE DEF clock
  <2> QED BY <1>1, <2>1, FreshTypes
<1>3. CASE UNCHANGED <<touched, refs>>
  BY <1>1, <1>3, StampingKeepsFresh
<1>4. CASE touched' = Retouch(refs \ doc.parts, clock) /\ refs' = doc.parts
  <2>1. \A p \in Parts : touched'[p] = IF p \in refs /\ p \notin refs' THEN clock ELSE touched[p]
    <3> HIDE DEF clock, doc
    <3> QED BY <1>4 DEF Retouch
  <2>2. refs \subseteq Parts
    BY FreshTypes
  <2> HIDE DEF clock
  <2>3. \A p \in Parts : touched'[p] = touched[p] \/ (touched'[p] \in Nat /\ touched'[p] >= now - Latency)
    BY <1>2, <2>1
  <2>4. \A p \in refs : p \in refs' \/ (touched'[p] \in Nat /\ touched'[p] >= now - Latency)
    BY <1>2, <2>1, <2>2
  <2> QED BY <1>1, <2>3, <2>4, StampingKeepsFresh
<1> QED BY <1>3, <1>4 DEF Commit

(* What is deleted is older than the grace.                                *)
LEMMA DeleteKeepsFresh ==
  ASSUME IInv, Fresh, Delete
  PROVE  Fresh'
<1>1. /\ UNCHANGED <<now, refs, reader>> /\ gc'.phase = "idle" /\ gc.phase = "page"
      /\ \A p \in Parts : touched'[p] = IF p \in Deleted THEN Absent ELSE touched[p]
  BY DEF Delete
<1>2. \A p \in Deleted : p \notin refs /\ touched[p] < now - Grace
  <2>1. \A p \in Deleted : p \in Parts /\ p \notin refs /\ touched[p] < gc.cutoff
    BY DEF Deleted, Eligible, Present
  <2>2. gc.cutoff <= now - Grace /\ gc.cutoff \in Int /\ now \in Nat /\ Grace \in Nat /\ touched \in [Parts -> Int]
    BY <1>1, FreshTypes DEF Fresh
  <2> QED BY <2>1, <2>2
<1>3. ASSUME NEW r \in Readers, now - reader[r].at <= Grace - Latency, NEW p \in reader[r].todo
      PROVE  p \in Present' /\ (p \in refs' \/ touched'[p] >= reader[r].at - Latency)
  <2>1. /\ p \in Parts /\ p \in Present /\ (p \in refs \/ touched[p] >= reader[r].at - Latency)
        /\ reader[r].at \in Nat /\ touched[p] \in Int
    BY <1>3, FreshTypes DEF Fresh
  <2>2. p \notin Deleted
    BY <1>2, <1>3, <2>1, FreshTypes
  <2>3. touched'[p] = touched[p]
    BY <1>1, <2>1, <2>2
  <2> QED BY <1>1, <2>1, <2>3 DEF Present
<1> QED BY <1>1, <1>3 DEF Fresh

LEMMA SelectKeepsFresh ==
  ASSUME IInv, Fresh, Select
  PROVE  Fresh'
<1>1. UNCHANGED <<now, touched, refs, reader>>
  BY DEF Select
<1>2. PICK t \in Readings : gc'.cutoff = t - Grace
  BY DEF Select
<1>3. gc'.cutoff <= now - Grace
  BY <1>2, FreshTypes, ReadingBound
<1> QED BY <1>1, <1>3 DEF Fresh, Present

(* A restore begins with parts that are all referenced.                    *)
LEMMA ReadingKeepsFresh ==
  ASSUME IInv, Fresh, NEW r \in Readers, ReadRoot(r) \/ ReadPart(r)
  PROVE  Fresh'
<1>1. UNCHANGED <<now, touched, refs, gc>> /\ now \in Nat
  BY FreshTypes DEF ReadRoot, ReadPart
<1>2. ASSUME NEW q \in Readers
      PROVE  /\ reader'[q].at <= now
             /\ now - reader'[q].at <= Grace - Latency =>
                  \A p \in reader'[q].todo : p \in Present /\ (p \in refs \/ touched[p] >= reader'[q].at - Latency)
  <2>1. CASE reader'[q] = reader[q]
    BY <2>1 DEF Fresh
  <2>2. CASE reader'[q].todo = root.parts /\ reader'[q].at = now
    BY <1>1, <2>2 DEF IInv, ManifestComplete
  <2>3. CASE reader'[q].todo = {} /\ reader'[q].at = 0
    BY <1>1, <2>3
  <2>4. CASE reader'[q].todo \subseteq reader[q].todo /\ reader'[q].at = reader[q].at
    BY <2>4 DEF Fresh
  <2>5. CASE ReadRoot(r)
    BY <2>1, <2>2, <2>5 DEF ReadRoot, IInv, TypeOK
  <2>6. CASE ReadPart(r)
    <3>1. PICK p \in reader[r].todo :
            reader' = [reader EXCEPT ![r] =
              IF p \in Present /\ reader[r].todo \ {p} # {}
              THEN [phase |-> "reading", todo |-> reader[r].todo \ {p}, at |-> reader[r].at]
              ELSE [phase |-> "idle", todo |-> {}, at |-> 0]]
      BY <2>6 DEF ReadPart
    <3>2. \/ reader'[q] = reader[q]
          \/ reader'[q] = [phase |-> "reading", todo |-> reader[q].todo \ {p}, at |-> reader[q].at]
          \/ reader'[q] = [phase |-> "idle", todo |-> {}, at |-> 0]
      BY <3>1 DEF IInv, TypeOK
    <3> QED BY <2>1, <2>3, <2>4, <3>2
  <2> QED BY <2>5, <2>6
<1> QED BY <1>1, <1>2 DEF Fresh, Present

LEMMA TickKeepsFresh ==
  ASSUME IInv, Fresh, Tick
  PROVE  Fresh'
<1>1. now' = now + 1 /\ UNCHANGED <<touched, refs, gc, reader>>
  BY DEF Tick
<1>2. \A r \in Readers : reader[r].at \in Nat /\ reader[r].at <= now'
  BY <1>1, FreshTypes DEF Fresh
<1>3. gc.phase = "page" => gc.cutoff <= now' - Grace
  BY <1>1, FreshTypes DEF Fresh
<1>4. \A r \in Readers : now' - reader[r].at <= Grace - Latency => now - reader[r].at <= Grace - Latency
  BY <1>1, <1>2, FreshTypes
<1> QED BY <1>1, <1>2, <1>3, <1>4 DEF Fresh, Present

LEMMA FreshInductive == IInv /\ Fresh /\ [Next]_vars => Fresh'
<1> SUFFICES ASSUME IInv, Fresh, [Next]_vars PROVE Fresh'
  OBVIOUS
<1>1. CASE UNCHANGED <<now, touched, refs, gc, reader>>
  BY <1>1 DEF Fresh, Present
<1>2. ASSUME NEW w \in Publishers,
             \/ Build(w) \/ Repair(w) \/ Load(w) \/ Probe(w) \/ Uploaded(w)
             \/ Compare(w) \/ Reply(w) \/ Retry(w) \/ Abandon(w)
      PROVE  UNCHANGED <<now, touched, refs, gc, reader>>
  BY <1>2 DEF Build, Repair, Load, Probe, Uploaded, Compare, Reply, Retry, Abandon
<1>3. UNCHANGED vars => UNCHANGED <<now, touched, refs, gc, reader>>
  BY DEF vars
<1> QED BY <1>1, <1>2, <1>3, UploadKeepsFresh, CommitKeepsFresh, DeleteKeepsFresh, SelectKeepsFresh,
       ReadingKeepsFresh, TickKeepsFresh DEF Next

LEMMA FreshInitially == Init => Fresh
BY UnitTypes DEF Init, Fresh

(* A restore that takes less than the grace, less the time a statement may *)
(* run late, finds every part of the manifest it has read: whatever is     *)
(* published after it, the parts that leave are stamped once more.         *)
THEOREM RestoresFindTheirParts == Spec => []RestoreComplete
<1>1. Fresh => RestoreComplete
  BY DEF Fresh, RestoreComplete
<1> QED BY <1>1, Initially, Inductive, FreshInitially, FreshInductive, PTL DEF Spec

-----------------------------------------------------------------------------
(* What is acknowledged.                                                   *)

(* Without retirements a document is as old as the scan it carries, and    *)
(* the last document of a publication carries its scan.                    *)
Straight(s) ==
  /\ s.phase # "load" /\ s.stage # "retire"
  /\ s.doc.source = s.doc.gen
  /\ s.phase # "done" =>
       /\ s.scan.source = s.scan.gen
       /\ s.stage = "complete" => s.doc.gen = s.scan.gen /\ s.doc.rev = s.scan.rev

Told(s) == s.phase = "done" => Later(root, s.scan)

Honest ==
  /\ root.source = root.gen
  /\ \A w \in Publishers : Straight(pub[w]) /\ Told(pub[w])

LEMMA HonestOf ==
  ASSUME IInv, Honest, NEW w \in Publishers
  PROVE  /\ Straight(pub[w]) /\ pub[w] \in Pub /\ pub[w].scan \in Doc /\ pub[w].doc \in Doc
         /\ root \in Doc /\ root.source = root.gen
BY PubFacts DEF Honest

(* A publication goes on, and the root stays.                              *)
LEMMA OneGoesOn ==
  ASSUME IInv, Honest, NEW w \in Publishers, NEW s, Set(w, s), UNCHANGED root, Straight(s), Told(s)
  PROVE  Honest'
<1>1. pub' = [pub EXCEPT ![w] = s] /\ pub \in [Publishers -> Pub]
  BY DEF Set, IInv, TypeOK
<1>2. \A v \in Publishers : pub'[v] = pub[v] \/ pub'[v] = s
  BY <1>1
<1> QED BY <1>2 DEF Honest, Straight, Told

LEMMA IdleIsHonest == Straight(Idle) /\ Told(Idle)
BY DEF Straight, Told, Idle, NoRoot

(* The last document of a publication is acknowledged rightly.             *)
LEMMA ProceedStaysHonest ==
  ASSUME IInv, Honest, NEW w \in Publishers, Proceed(w), UNCHANGED root, pub[w].phase # "done",
         pub[w].stage = "complete" => Later(root, pub[w].scan)
  PROVE  Honest'
<1>1. /\ Straight(pub[w]) /\ pub[w] \in Pub /\ pub[w].scan \in Doc /\ pub[w].stage # "retire"
      /\ pub[w].scan.source = pub[w].scan.gen
  BY HonestOf DEF Straight
<1>2. CASE pub[w].stage = "summary"
  <2> DEFINE s == [pub[w] EXCEPT !.phase = "probe", !.clock = 0]
  <2>1. Set(w, s)
    BY <1>2 DEF Proceed
  <2>2. s.phase = "probe" /\ s.stage = "summary" /\ s.doc = pub[w].doc /\ s.scan = pub[w].scan
    BY <1>1, <1>2 DEF Pub
  <2> HIDE DEF s
  <2>3. Straight(s) /\ Told(s)
    BY <1>1, <2>2 DEF Straight, Told
  <2> QED BY <2>1, <2>3, OneGoesOn
<1>3. CASE pub[w].stage = "complete"
  <2> DEFINE c == [pub[w].scan EXCEPT !.source = Absent, !.by = "nobody", !.parts = {}]
             s == [Idle EXCEPT !.phase = "done", !.scan = c]
  <2>1. Set(w, s)
    BY <1>3 DEF Proceed
  <2>2. c.gen = pub[w].scan.gen /\ c.rev = pub[w].scan.rev
    BY <1>1 DEF Doc
  <2>3. s.phase = "done" /\ s.stage = "complete" /\ s.doc = NoRoot /\ s.scan = c
    <3> HIDE DEF c
    <3> QED BY DEF Idle
  <2> HIDE DEF s, c
  <2>4. Straight(s)
    BY <2>3 DEF Straight, NoRoot
  <2>5. Told(s)
    BY <1>3, <2>2, <2>3 DEF Told, Later
  <2> QED BY <2>1, <2>4, <2>5, OneGoesOn
<1> QED BY <1>1, <1>2, <1>3 DEF Pub

LEMMA BuildStaysHonest ==
  ASSUME IInv, Honest, ~Retirement, NEW w \in Publishers, Build(w)
  PROVE  Honest'
<1>1. UNCHANGED root
  BY DEF Build
<1>2. PICK parts \in SUBSET Parts, rev \in Nat :
        LET scan == [source |-> now, rev |-> rev, gen |-> now, by |-> w, parts |-> parts] IN
        \/ Set(w, [Idle EXCEPT !.phase = "probe", !.scan = scan, !.doc = scan])
        \/ Set(w, [Idle EXCEPT !.phase = "send", !.stage = "summary", !.scan = scan, !.doc = Summary(scan)])
  <2>1. CompleteRevision \in Nat
    BY DEF CompleteRevision
  <2> QED BY <2>1, UnitTypes DEF Build
<1> DEFINE scan == [source |-> now, rev |-> rev, gen |-> now, by |-> w, parts |-> parts]
           whole == [Idle EXCEPT !.phase = "probe", !.scan = scan, !.doc = scan]
           part == [Idle EXCEPT !.phase = "send", !.stage = "summary", !.scan = scan, !.doc = Summary(scan)]
<1>3. Set(w, whole) \/ Set(w, part)
  BY <1>2
<1>4. Straight(whole) /\ Told(whole)
  BY DEF Idle, Straight, Told
<1>5. Straight(part) /\ Told(part)
  BY DEF Idle, Straight, Told, Summary
<1> HIDE DEF whole, part
<1> QED BY <1>1, <1>3, <1>4, <1>5, OneGoesOn

LEMMA RepairStaysHonest ==
  ASSUME IInv, Honest, NEW w \in Publishers, Repair(w)
  PROVE  Honest'
<1>1. UNCHANGED root /\ root \in Doc /\ root.source = root.gen
  BY HonestOf DEF Repair
<1>2. PICK parts \in SUBSET Parts :
        LET scan == [root EXCEPT !.parts = parts] IN
        Set(w, [Idle EXCEPT !.phase = "probe", !.scan = scan, !.doc = scan])
  BY DEF Repair
<1> DEFINE scan == [root EXCEPT !.parts = parts]
           s == [Idle EXCEPT !.phase = "probe", !.scan = scan, !.doc = scan]
<1>3. scan.source = scan.gen
  BY <1>1 DEF Doc
<1>4. Set(w, s)
  BY <1>2
<1>5. s.phase = "probe" /\ s.stage = "complete" /\ s.doc = scan /\ s.scan = scan
  <2> HIDE DEF scan
  <2> QED BY DEF Idle
<1> HIDE DEF s, scan
<1>6. Straight(s) /\ Told(s)
  BY <1>3, <1>5 DEF Straight, Told
<1> QED BY <1>1, <1>4, <1>6, OneGoesOn

(* The parts are looked for and sent: the documents stay.                  *)
LEMMA PartsStayHonest ==
  ASSUME IInv, Honest, NEW w \in Publishers, Probe(w) \/ Upload(w) \/ Uploaded(w)
  PROVE  Honest'
<1>1. /\ Straight(pub[w]) /\ pub[w] \in Pub /\ UNCHANGED root
      /\ pub[w].phase \in {"probe", "upload"} /\ pub[w].scan.source = pub[w].scan.gen
  BY HonestOf DEF Straight, Probe, Upload, Uploaded
<1>2. CASE Probe(w)
  <2>1. PICK todo : Set(w, [pub[w] EXCEPT !.phase = "upload", !.todo = todo, !.since = now])
    BY <1>2 DEF Probe
  <2> DEFINE s == [pub[w] EXCEPT !.phase = "upload", !.todo = todo, !.since = now]
  <2>2. s.phase = "upload" /\ s.stage = pub[w].stage /\ s.doc = pub[w].doc /\ s.scan = pub[w].scan
    BY <1>1 DEF Pub
  <2>3. Set(w, s)
    BY <2>1
  <2> HIDE DEF s
  <2>4. Straight(s) /\ Told(s)
    BY <1>1, <2>2 DEF Straight, Told
  <2> QED BY <1>1, <2>3, <2>4, OneGoesOn
<1>3. CASE Upload(w)
  <2>1. PICK p : UNCHANGED pub \/ Set(w, [pub[w] EXCEPT !.todo = @ \ {p}, !.sent = @ \cup {p}])
    BY <1>3 DEF Upload
  <2> DEFINE s == [pub[w] EXCEPT !.todo = @ \ {p}, !.sent = @ \cup {p}]
  <2>2. s.phase = pub[w].phase /\ s.stage = pub[w].stage /\ s.doc = pub[w].doc /\ s.scan = pub[w].scan
    BY <1>1 DEF Pub
  <2>3. UNCHANGED pub \/ Set(w, s)
    BY <2>1
  <2>4. CASE UNCHANGED pub
    BY <1>1, <2>4 DEF Honest, Straight, Told
  <2> HIDE DEF s
  <2>5. Straight(s) /\ Told(s)
    BY <1>1, <2>2 DEF Straight, Told
  <2> QED BY <1>1, <2>3, <2>4, <2>5, OneGoesOn
<1>4. CASE Uploaded(w)
  <2> DEFINE s == [pub[w] EXCEPT !.phase = "send", !.stage = "complete", !.doc = pub[w].scan]
  <2>1. s.phase = "send" /\ s.stage = "complete" /\ s.doc = pub[w].scan /\ s.scan = pub[w].scan
    BY <1>1 DEF Pub
  <2>2. Set(w, s)
    BY <1>4 DEF Uploaded
  <2> HIDE DEF s
  <2>3. Straight(s) /\ Told(s)
    BY <1>1, <2>1 DEF Straight, Told
  <2> QED BY <1>1, <2>2, <2>3, OneGoesOn
<1> QED BY <1>2, <1>3, <1>4

LEMMA CompareStaysHonest ==
  ASSUME IInv, Honest, ~Retirement, NEW w \in Publishers, Compare(w)
  PROVE  Honest'
<1>1. /\ Straight(pub[w]) /\ pub[w] \in Pub /\ root \in Doc /\ UNCHANGED root /\ pub[w].phase = "send"
      /\ pub[w].scan.source = pub[w].scan.gen
  BY HonestOf DEF Compare, Straight
<1>2. IF root = pub[w].doc THEN Proceed(w)
      ELSE Set(w, [pub[w] EXCEPT !.phase = "commit", !.doc = pub[w].doc, !.clock = now])
  BY DEF Compare, Guarded
<1>3. CASE root = pub[w].doc
  <2>1. pub[w].stage = "complete" => Later(root, pub[w].scan)
    BY <1>1, <1>3 DEF Straight, Later, Doc
  <2> QED BY <1>1, <1>2, <1>3, <2>1, ProceedStaysHonest
<1>4. CASE root # pub[w].doc
  <2> DEFINE s == [pub[w] EXCEPT !.phase = "commit", !.doc = pub[w].doc, !.clock = now]
  <2>1. s.phase = "commit" /\ s.stage = pub[w].stage /\ s.doc = pub[w].doc /\ s.scan = pub[w].scan
    BY <1>1 DEF Pub
  <2>2. Set(w, s)
    BY <1>2, <1>4
  <2> HIDE DEF s
  <2>3. Straight(s) /\ Told(s)
    BY <1>1, <2>1 DEF Straight, Told
  <2> QED BY <1>1, <2>2, <2>3, OneGoesOn
<1> QED BY <1>3, <1>4

(* A commit puts a root that is later for whoever was told of the old one. *)
LEMMA CommitStaysHonest ==
  ASSUME IInv, Honest, NEW w \in Publishers, Commit(w)
  PROVE  Honest'
<1>1. /\ Straight(pub[w]) /\ pub[w] \in Pub /\ root \in Doc /\ pub[w].doc \in Doc /\ pub[w].phase = "commit"
      /\ root.source = root.gen /\ pub[w].doc.source = pub[w].doc.gen
  BY HonestOf DEF Commit, Straight
<1>2. root' = root \/ (root' = pub[w].doc /\ Supersedes(pub[w].doc, root))
  BY DEF Commit
<1>3. root'.source = root'.gen
  BY <1>1, <1>2
<1>4. ASSUME NEW c \in Doc, Later(root, c) PROVE Later(root', c)
  BY <1>1, <1>2, <1>4 DEF Supersedes, Newer, SameContent, Later, Doc
<1> DEFINE s == [pub[w] EXCEPT !.phase = "reply", !.clock = 0]
<1>5. s.phase = "reply" /\ s.stage = pub[w].stage /\ s.doc = pub[w].doc /\ s.scan = pub[w].scan
  BY <1>1 DEF Pub
<1>6. Set(w, s)
  BY DEF Commit
<1> HIDE DEF s
<1>7. Straight(s) /\ s.phase # "done"
  BY <1>1, <1>5 DEF Straight
<1>8. \A v \in Publishers : pub'[v] = pub[v] \/ pub'[v] = s
  BY <1>6 DEF Set, IInv, TypeOK
<1>9. ASSUME NEW v \in Publishers PROVE Straight(pub'[v]) /\ (pub'[v].phase = "done" => Later(root', pub'[v].scan))
  <2>1. CASE pub'[v] = pub[v]
    <3>1. Straight(pub[v]) /\ pub[v].scan \in Doc /\ (pub[v].phase = "done" => Later(root, pub[v].scan))
      BY HonestOf DEF Honest, Told
    <3> QED BY <1>4, <2>1, <3>1
  <2>2. CASE pub'[v] = s
    BY <1>7, <2>2
  <2> QED BY <1>8, <2>1, <2>2
<1> QED BY <1>3, <1>9 DEF Honest, Straight, Told

(* What is answered as stale is not later than the root.                   *)
LEMMA ReplyStaysHonest ==
  ASSUME IInv, Honest, NEW w \in Publishers, Reply(w)
  PROVE  Honest'
<1>1. /\ Straight(pub[w]) /\ pub[w] \in Pub /\ root \in Doc /\ pub[w].doc \in Doc /\ pub[w].phase = "reply"
      /\ pub[w].scan \in Doc /\ root.source = root.gen /\ UNCHANGED root
  BY HonestOf DEF Reply
<1>2. CASE Acknowledged(pub[w].doc) /\ Proceed(w)
  <2>1. ASSUME pub[w].stage = "complete" PROVE Later(root, pub[w].scan)
    <3>1. /\ pub[w].doc.source = pub[w].doc.gen
          /\ pub[w].doc.gen = pub[w].scan.gen /\ pub[w].doc.rev = pub[w].scan.rev
      BY <1>1, <2>1 DEF Straight
    <3>2. root = pub[w].doc \/ ~Newer(pub[w].doc, root)
      BY <1>2 DEF Acknowledged
    <3> QED BY <1>1, <3>1, <3>2 DEF Newer, Later, Doc
  <2> QED BY <1>1, <1>2, <2>1, ProceedStaysHonest
<1>3. CASE Set(w, Idle)
  BY <1>1, <1>3, IdleIsHonest, OneGoesOn
<1> QED BY <1>2, <1>3 DEF Reply

LEMMA RetryStaysHonest ==
  ASSUME IInv, Honest, NEW w \in Publishers, Retry(w) \/ Abandon(w)
  PROVE  Honest'
<1>1. Straight(pub[w]) /\ pub[w] \in Pub /\ UNCHANGED root
  BY HonestOf DEF Retry, Abandon
<1>2. CASE Retry(w)
  <2> DEFINE s == [pub[w] EXCEPT !.phase = "send", !.clock = 0]
  <2>1. s.phase = "send" /\ s.stage = pub[w].stage /\ s.doc = pub[w].doc /\ s.scan = pub[w].scan
    BY <1>1 DEF Pub
  <2>2. Set(w, s) /\ pub[w].phase # "done"
    BY <1>2 DEF Retry
  <2> HIDE DEF s
  <2>3. Straight(s) /\ Told(s)
    BY <1>1, <2>1, <2>2 DEF Straight, Told
  <2> QED BY <1>1, <2>2, <2>3, OneGoesOn
<1>3. CASE Abandon(w)
  BY <1>1, <1>3, IdleIsHonest, OneGoesOn DEF Abandon
<1> QED BY <1>2, <1>3

LEMMA HonestInductive == ~Retirement /\ IInv /\ Honest /\ [Next]_vars => Honest'
<1> SUFFICES ASSUME ~Retirement, IInv, Honest, [Next]_vars PROVE Honest'
  OBVIOUS
<1>1. CASE UNCHANGED <<root, pub>>
  BY <1>1 DEF Honest, Straight, Told
<1>2. Tick \/ Select \/ Delete \/ (\E r \in Readers : ReadRoot(r) \/ ReadPart(r)) \/ UNCHANGED vars
        => UNCHANGED <<root, pub>>
  BY DEF Tick, Select, Delete, ReadRoot, ReadPart, vars
<1>3. ASSUME NEW w \in Publishers, Load(w) PROVE FALSE
  BY <1>3, HonestOf DEF Load, Straight
<1> QED BY <1>1, <1>2, <1>3, BuildStaysHonest, RepairStaysHonest, PartsStayHonest, CompareStaysHonest,
       CommitStaysHonest, ReplyStaysHonest, RetryStaysHonest DEF Next

LEMMA HonestInitially == Init => Honest
<1> SUFFICES ASSUME Init PROVE Honest
  OBVIOUS
<1>1. root.source = root.gen
  BY DEF Init, NoRoot
<1>2. \A w \in Publishers : pub[w] = Idle
  BY DEF Init
<1> QED BY <1>1, <1>2, IdleIsHonest DEF Honest

(* Who is told that a document is stored, or that it is stale, finds that  *)
(* scan or a later one stored, after any lost answers, retries, repairs    *)
(* and competing publications.  The rewrite of the dashboard by a          *)
(* retirement is excluded: it dates an old scan anew, and the property     *)
(* fails with it.                                                          *)
THEOREM AcknowledgedIsStored == ~Retirement => (Spec => []Published)
<1>1. Honest => Published
  BY DEF Honest, Told, Published
<1> SUFFICES ASSUME ~Retirement PROVE Spec => []Published
  OBVIOUS
<1>2. IInv /\ Honest /\ [Next]_vars => Honest'
  BY HonestInductive
<1> QED BY <1>1, <1>2, Initially, Inductive, HonestInitially, PTL DEF Spec
=============================================================================
