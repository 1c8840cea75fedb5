-------------------------- MODULE ScannerChainProofs --------------------------
(***************************************************************************)
(* The parts whose other side the code does not control, for every value   *)
(* of the constants: the chain that replaces its blocks while it is read   *)
(* or moves a cohort's tokens on, and the repository of the backups, which *)
(* loses replies.                                                          *)
(***************************************************************************)
EXTENDS MCScannerParts, Integers, Sequences, FiniteSetTheorems, NaturalsInduction, WellFoundedInduction, TLAPS

(* A set of numbers that is not empty has a least one.                     *)
LEMMA LeastNumber ==
  ASSUME NEW T \in SUBSET Nat, T # {}
  PROVE  \E n \in T : \A m \in T : n <= m
<1> DEFINE Below == {p \in Nat \X Nat : p[1] < p[2]}
<1>1. IsWellFoundedOn(Below, Nat)
  <2>1. OpToRel(<, Nat) = Below
    BY DEF OpToRel
  <2> QED BY <2>1, NatLessThanWellFounded
<1> HIDE DEF Below
<1>2. PICK n \in T : \A m \in T : ~(<<m, n>> \in Below)
  <2>1. T \subseteq Nat
    OBVIOUS
  <2> QED BY <1>1, <2>1, WFMin
<1>3. \A m \in T : n <= m
  <2> TAKE m \in T
  <2>1. m \in Nat /\ n \in Nat /\ <<m, n>> \in Nat \X Nat
    OBVIOUS
  <2>2. ~(m < n)
    BY <1>2, <2>1 DEF Below
  <2> QED BY <2>1, <2>2
<1> QED BY <1>3

(* A bounded set of numbers has a largest one.                             *)
LEMMA LargestNumber ==
  ASSUME NEW B \in Nat, NEW S \in SUBSET (0..B), S # {}
  PROVE  \E x \in S : \A y \in S : x >= y
<1> DEFINE T == {B - x : x \in S}
<1>1. T \in SUBSET Nat /\ T # {}
  <2>1. \A x \in S : B - x \in Nat
    OBVIOUS
  <2> QED BY <2>1
<1>2. PICK n \in T : \A m \in T : n <= m
  <2> HIDE DEF T
  <2> QED BY <1>1, LeastNumber
<1>3. PICK x \in S : n = B - x
  OBVIOUS
<1>4. \A y \in S : x >= y
  <2> TAKE y \in S
  <2>1. B - y \in T
    OBVIOUS
  <2>2. n <= B - y
    BY <1>2, <2>1
  <2> QED BY <1>3, <2>2
<1> QED BY <1>4

-----------------------------------------------------------------------------
(* Robinhood: what a buyer kept is proved on the chain.                    *)

(* What a mined block, a log, a cohort, a database and a scan are.         *)
ChainBlock == [fork : Nat, kind : ChainMined]
ChainLog == [block : Nat, fork : Nat]
ChainCohort == [bought : Nat, lower : Int, from : Nat, block : Nat]
ChainDatabase == [logs : SUBSET ChainLog, read : SUBSET ChainLog, block : Nat, fork : Nat,
                  cohort : ChainCohort]
ChainScan == [phase : {"idle", "logs", "checkpoint", "cohort", "end"}, head : Nat,
              start : Nat, end : Nat, fork : Nat]

(* The chain's variables have their shape; every block is of a fork that   *)
(* there was.                                                              *)
ChainShape ==
    /\ c1 \in Seq(ChainBlock) /\ c2 \in ChainDatabase /\ c3 \in ChainDatabase
    /\ c4 \in ChainDatabase /\ c5 \in ChainScan /\ c6 \in Nat
    /\ \A i \in 1..Len(c1) : c1[i].fork <= c6

(* A block that the chain has, or had and will not have again.             *)
Known(b, f) == f <= c6 /\ (f = c6 => b <= Len(c1))

(* What holds of a database whatever became of its blocks.                 *)
ChainSound(d) ==
    /\ IsFiniteSet(d.logs) /\ Known(d.block, d.fork)
    /\ \A l \in d.logs \cup d.read :
          /\ l.block >= 1 /\ Known(l.block, l.fork)
          /\ CH!Canonical(l.block, l.fork) => c1[l.block].kind = "buy"

(* The chain proves what a cohort is said to have bought and kept.         *)
CohortProven(c) ==
    /\ c.from >= 1 /\ c.block <= Len(c1)
    /\ c.bought <= CH!Bought(c.from, c.block)
    /\ c.lower <= CH!Less(c.bought, CH!Spent(c.from, c.block))
    /\ c.lower <= CH!Balance(c.block)

(* What holds of a database while its checkpoint is on the chain.          *)
ChainValid(d) ==
    /\ d.cohort # CH!NoCohort => CohortProven(d.cohort)
    /\ \A l \in d.read : CH!Canonical(l.block, l.fork)

(* A database is sound; and valid while its checkpoint is on the chain,    *)
(* unless it rests on blocks whose loss went unnoticed.                    *)
ChainKept(d, name) ==
    ChainSound(d) /\ (name \notin c8 /\ CH!Canonical(d.block, d.fork) => ChainValid(d))

(* What a scan has under way: it adds what its head covers, and nothing to *)
(* a database that is ahead of it.                                         *)
ChainScanning ==
    /\ c5.head >= 1 /\ c5.start >= 1 /\ Known(c5.head, c5.fork) /\ ChainSound(c2)
    /\ c3.block > c5.head => c2 = c3
    /\ c2.cohort = c3.cohort \/ c2.cohort.block <= c5.head
    /\ \A l \in c2.read : l \in c3.read \/ l.block <= c5.head
    /\ /\ "saved" \notin c8 /\ CH!Canonical(c5.head, c5.fork)
       /\ CH!Canonical(c2.block, c2.fork)
       => ChainValid(c2)
    /\ c5.phase = "logs" => c2 = c3
    /\ c5.phase \in {"checkpoint", "cohort"} =>
         c3.block <= c5.head /\ 1 <= c5.end /\ c5.end <= c5.head
    /\ c5.phase = "checkpoint" =>
         /\ c2.block <= c5.head
         /\ CH!Canonical(c5.head, c5.fork) => CH!Canonical(c2.block, c2.fork)
    /\ c5.phase = "cohort" => c2.block = c5.end

(* The invariant of the chain scan.                                        *)
ChainInv ==
    /\ ChainShape /\ ChainKept(c3, "saved") /\ ChainKept(c4, "backup")
    /\ c5.phase = "idle" => c2 = c3
    /\ c5.phase # "idle" => ChainScanning

-----------------------------------------------------------------------------
(* Cardinality in the part is Cardinality.                                 *)
LEMMA ChainCardinality ==
  ASSUME NEW S
  PROVE  CH!Cardinality(S) = Cardinality(S)
BY Zenon DEF CH!Cardinality, Cardinality

(* Some of the blocks are finitely many, at most all of them.              *)
LEMMA BlocksHaving ==
  ASSUME NEW kind, NEW a \in Int, NEW b \in Int
  PROVE  /\ IsFiniteSet(CH!Having(kind, a, b))
         /\ Cardinality(CH!Having(kind, a, b)) \in Nat
         /\ \A S \in SUBSET CH!Having(kind, a, b) :
              IsFiniteSet(S) /\ Cardinality(S) <= Cardinality(CH!Having(kind, a, b))
<1>1. IsFiniteSet(a..b)
  BY FS_Interval
<1>2. CH!Having(kind, a, b) \in SUBSET (a..b)
  BY DEF CH!Having
<1>3. IsFiniteSet(CH!Having(kind, a, b))
  BY <1>1, <1>2, FS_Subset, Zenon
<1> QED BY <1>3, FS_CardinalityType, FS_Subset

(* What was bought and what was spent are numbers; a balance is their      *)
(* difference.                                                             *)
LEMMA BoughtIsCounted ==
  ASSUME NEW a \in Int, NEW b \in Int
  PROVE  CH!Bought(a, b) \in Nat /\ CH!Spent(a, b) \in Nat /\ CH!Balance(b) \in Int
<1>1. \A kind : /\ CH!Cardinality(CH!Having(kind, a, b)) \in Nat
                /\ CH!Cardinality(CH!Having(kind, 1, b)) \in Nat
  BY BlocksHaving, ChainCardinality
<1> QED BY <1>1 DEF CH!Bought, CH!Spent, CH!Balance

(* The longer a range, the more was bought in it.                          *)
LEMMA BoughtGrows ==
  ASSUME NEW a \in Int, NEW b \in Int, NEW d \in Int, b <= d
  PROVE  CH!Bought(a, b) <= CH!Bought(a, d)
<1>1. CH!Having("buy", a, b) \in SUBSET CH!Having("buy", a, d)
  BY DEF CH!Having
<1>2. Cardinality(CH!Having("buy", a, b)) <= Cardinality(CH!Having("buy", a, d))
  BY <1>1, BlocksHaving, Zenon
<1> QED BY <1>2, BlocksHaving, ChainCardinality DEF CH!Bought

(* What was spent in a range is what was spent in its two parts.           *)
LEMMA SpentAdds ==
  ASSUME NEW a \in Int, NEW b \in Int, NEW d \in Int
  PROVE  CH!Spent(a, d) <= CH!Spent(a, b) + CH!Spent(b + 1, d)
<1> DEFINE S == CH!Having("out", a, b)
           T == CH!Having("out", b + 1, d)
<1>1. CH!Having("out", a, d) \in SUBSET (S \cup T)
  BY DEF CH!Having
<1>2. IsFiniteSet(S) /\ IsFiniteSet(T) /\ Cardinality(S) \in Nat /\ Cardinality(T) \in Nat
  BY BlocksHaving
<1>3. Cardinality(CH!Having("out", a, d)) \in Nat
  BY BlocksHaving
<1> HIDE DEF S, T
<1>4. IsFiniteSet(S \cup T) /\ Cardinality(S \cup T) = Cardinality(S) + Cardinality(T) - Cardinality(S \cap T)
  BY <1>2, FS_Union, Zenon
<1>5. Cardinality(S \cap T) \in Nat
  <2>1. S \cap T \in SUBSET S
    OBVIOUS
  <2> QED BY <1>2, <2>1, FS_Subset, FS_CardinalityType, Zenon
<1>6. Cardinality(CH!Having("out", a, d)) <= Cardinality(S \cup T)
  BY <1>1, <1>4, FS_Subset, Zenon
<1>7. Cardinality(S \cup T) \in Nat
  BY <1>4, FS_CardinalityType
<1>8. Cardinality(CH!Having("out", a, d)) <= Cardinality(S) + Cardinality(T)
  BY <1>2, <1>3, <1>4, <1>5, <1>6, <1>7
<1> QED BY <1>8, ChainCardinality DEF CH!Spent, S, T

(* As many blocks as there are canonical receipts of purchases in a range  *)
(* were purchases in it.                                                   *)
LEMMA LogsAreBuys ==
  ASSUME ChainShape, NEW S \in SUBSET ChainLog, NEW a \in Nat, NEW b \in Nat, a >= 1,
         \A l \in S : /\ a <= l.block /\ l.block <= b /\ CH!Canonical(l.block, l.fork)
                      /\ c1[l.block].kind = "buy"
  PROVE  2 * Cardinality(S) \in Nat /\ 2 * Cardinality(S) <= CH!Bought(a, b)
<1> DEFINE f == [l \in S |-> l.block]
           T == CH!Having("buy", a, b)
<1>1. \A l \in S : l.block \in 1..Len(c1) /\ c1[l.block].fork = l.fork
  BY DEF CH!Canonical, ChainShape, ChainLog
<1>2. \A l \in S : l.block \in T
  BY <1>1 DEF CH!Having, ChainLog, ChainShape
<1>3. \A l, m \in S : l.block = m.block => l = m
  BY <1>1 DEF ChainLog
<1>4. f \in Injection(S, T)
  <2>1. f \in [S -> T]
    BY <1>2
  <2>2. \A l, m \in S : f[l] = f[m] => l = m
    BY <1>3
  <2> QED BY <2>1, <2>2 DEF Injection, IsInjective
<1>5. IsFiniteSet(T) /\ Cardinality(T) \in Nat
  BY BlocksHaving
<1> HIDE DEF T, f
<1>6. IsFiniteSet(S) /\ Cardinality(S) <= Cardinality(T)
  BY <1>4, <1>5, FS_Injection, Zenon
<1>7. Cardinality(S) \in Nat
  BY <1>6, FS_CardinalityType
<1> QED BY <1>5, <1>6, <1>7, ChainCardinality DEF CH!Bought, T

(* The logs up to a block are finitely many.                               *)
LEMMA LogsAreFinite ==
  ASSUME NEW a \in Int, NEW b \in Int
  PROVE  IsFiniteSet({[block |-> i, fork |-> c1[i].fork] : i \in CH!Having("buy", a, b)})
<1> DEFINE T == CH!Having("buy", a, b)
           S == {[block |-> i, fork |-> c1[i].fork] : i \in T}
           f == [l \in S |-> l.block]
<1>1. IsFiniteSet(T)
  BY BlocksHaving
<1> HIDE DEF T
<1>2. f \in [S -> T]
  OBVIOUS
<1>3. \A l, m \in S : f[l] = f[m] => l = m
  OBVIOUS
<1>4. f \in Injection(S, T)
  BY <1>2, <1>3 DEF Injection, IsInjective
<1> HIDE DEF S, f
<1> QED BY <1>1, <1>4, FS_Injection, Zenon DEF S, T

(* Min of two numbers, as a recheck takes it.                              *)
LEMMA LeastOfTwo ==
  ASSUME NEW a \in Int, NEW b \in Int
  PROVE  /\ CH!Min({a, b}) \in {a, b} /\ CH!Min({a, b}) <= a /\ CH!Min({a, b}) <= b
<1>1. \E x \in {a, b} : \A y \in {a, b} : x =< y
  BY SMT
<1> QED BY <1>1 DEF CH!Min

(* The lower bound of a balance is the least of three numbers, as a proof  *)
(* takes it.                                                               *)
LEMMA LeastOfThree ==
  ASSUME NEW a \in Int, NEW b \in Int, NEW d \in Int
  PROVE  /\ CH!Min({a, b, d}) \in {a, b, d}
         /\ CH!Min({a, b, d}) <= a /\ CH!Min({a, b, d}) <= b /\ CH!Min({a, b, d}) <= d
<1>1. \E x \in {a, b, d} : \A y \in {a, b, d} : x =< y
  <2>1. CASE a <= b /\ a <= d
    BY <2>1
  <2>2. CASE b <= a /\ b <= d
    BY <2>2
  <2>3. CASE d <= a /\ d <= b
    BY <2>3
  <2> QED BY <2>1, <2>2, <2>3
<1> QED BY <1>1 DEF CH!Min

-----------------------------------------------------------------------------
(* What the chain keeps of its blocks.                                     *)
ChainAgrees(n) ==
    /\ c1' \in Seq(ChainBlock) /\ n \in Nat /\ n <= Len(c1) /\ n <= Len(c1')
    /\ \A i \in 1..n : c1'[i] = c1[i]
ChainGrown ==
    /\ ChainAgrees(Len(c1)) /\ Len(c1') = Len(c1) + 1 /\ c1'[Len(c1) + 1].fork = c6
    /\ c6' = c6
ChainTaken(i) ==
    /\ i \in 1..Len(c1) /\ ChainAgrees(i - 1) /\ Len(c1') = i - 1 /\ c6' = c6 + 1
ChainMoved == ChainGrown \/ \E i \in 1..Len(c1) : ChainTaken(i)

(* What a database loses is noticed by it, or it is doubted from then on.  *)
ChainNoticed(i) ==
    /\ c8 \subseteq c8'
    /\ "saved" \notin c8' => CH!Notices(c3, i)
    /\ "backup" \notin c8' => CH!Notices(c4, i)
ChainGoesOn ==
    \/ ChainGrown /\ c8' = c8
    \/ \E i \in 1..Len(c1) : ChainTaken(i) /\ ChainNoticed(i)

(* A new block is put on those that are there.                             *)
LEMMA MineGrows ==
  ASSUME ChainShape, NEW kind \in ChainMined, CH!Mine(kind)
  PROVE  ChainGrown
<1>1. c1' = Append(c1, [fork |-> c6, kind |-> kind]) /\ c6' = c6
  BY DEF CH!Mine
<1>2. [fork |-> c6, kind |-> kind] \in ChainBlock
  BY DEF ChainBlock, ChainShape
<1>3. c1' \in Seq(ChainBlock) /\ Len(c1') = Len(c1) + 1 /\ Len(c1) \in Nat
  BY <1>1, <1>2 DEF ChainShape
<1>4. \A i \in 1..Len(c1) : c1'[i] = c1[i]
  BY <1>1, <1>2 DEF ChainShape
<1>5. c1'[Len(c1) + 1].fork = c6
  BY <1>1, <1>2 DEF ChainShape
<1> QED BY <1>1, <1>3, <1>4, <1>5 DEF ChainGrown, ChainAgrees

(* A reorganization takes the blocks from one on.                          *)
LEMMA ReorganizeTakes ==
  ASSUME ChainShape, CH!Reorganize
  PROVE  \E i \in 1..Len(c1) : ChainTaken(i) /\ ChainNoticed(i)
<1>1. PICK i \in 1..Len(c1) :
        /\ c1' = SubSeq(c1, 1, i - 1)
        /\ c8' = c8 \cup {name \in {"saved"} : ~CH!Notices(c3, i)}
                   \cup {name \in {"backup"} : ~CH!Notices(c4, i)}
  BY DEF CH!Reorganize
<1>2. c6' = c6 + 1
  BY DEF CH!Reorganize
<1>3. Len(c1) \in Nat /\ i \in Nat /\ i - 1 \in Nat /\ i - 1 <= Len(c1)
  BY DEF ChainShape
<1>4. c1' \in Seq(ChainBlock) /\ Len(c1') = i - 1 /\ (\A j \in 1..(i - 1) : c1'[j] = c1[j])
  BY <1>1, <1>3 DEF ChainShape
<1>5. ChainTaken(i)
  BY <1>2, <1>3, <1>4 DEF ChainTaken, ChainAgrees
<1>6. ChainNoticed(i)
  BY <1>1 DEF ChainNoticed
<1> QED BY <1>1, <1>5, <1>6

(* A block that the chain has or had is one that it has or had when the    *)
(* chain moved.                                                            *)
LEMMA MovedKnown ==
  ASSUME ChainShape, ChainMoved, NEW b \in Nat, NEW f \in Nat, Known(b, f)
  PROVE  /\ Known(b, f)'
         /\ CH!Canonical(b, f)' => CH!Canonical(b, f) /\ (b >= 1 => c1'[b] = c1[b])
<1>1. c1 \in Seq(ChainBlock) /\ Len(c1) \in Nat /\ c6 \in Nat /\ f <= c6 /\ (f = c6 => b <= Len(c1))
  BY DEF ChainShape, Known
<1>2. CASE ChainGrown
  <2>1. /\ c1' \in Seq(ChainBlock) /\ Len(c1') = Len(c1) + 1 /\ c1'[Len(c1) + 1].fork = c6 /\ c6' = c6
        /\ \A i \in 1..Len(c1) : c1'[i] = c1[i]
    BY <1>2 DEF ChainGrown, ChainAgrees
  <2>2. Known(b, f)'
    BY <1>1, <2>1 DEF Known
  <2>3. ASSUME b \in DOMAIN c1', c1'[b].fork = f
        PROVE  b \in 1..Len(c1)
    BY <1>1, <2>1, <2>3
  <2> QED BY <1>1, <2>1, <2>2, <2>3 DEF CH!Canonical
<1>3. CASE \E i \in 1..Len(c1) : ChainTaken(i)
  <2>1. PICK i \in 1..Len(c1) : ChainTaken(i)
    BY <1>3
  <2>2. /\ c1' \in Seq(ChainBlock) /\ Len(c1') = i - 1 /\ c6' = c6 + 1
        /\ \A j \in 1..(i - 1) : c1'[j] = c1[j]
    BY <2>1 DEF ChainTaken, ChainAgrees
  <2>3. Known(b, f)'
    BY <1>1, <2>2 DEF Known
  <2>4. ASSUME b \in DOMAIN c1'
        PROVE  b \in 1..Len(c1) /\ c1'[b] = c1[b]
    BY <1>1, <2>1, <2>2, <2>4
  <2> QED BY <1>1, <2>2, <2>3, <2>4 DEF CH!Canonical
<1> QED BY <1>2, <1>3 DEF ChainMoved

(* What holds of a database whatever became of its blocks goes on holding. *)
LEMMA MovedSound ==
  ASSUME ChainShape, ChainMoved
  PROVE  \A d \in ChainDatabase : ChainSound(d) => ChainSound(d)'
<1> SUFFICES ASSUME NEW d \in ChainDatabase, ChainSound(d) PROVE ChainSound(d)'
  OBVIOUS
<1>1. d.block \in Nat /\ d.fork \in Nat /\ \A l \in d.logs \cup d.read : l.block \in Nat /\ l.fork \in Nat
  BY DEF ChainDatabase, ChainLog
<1>2. Known(d.block, d.fork)'
  BY <1>1, MovedKnown DEF ChainSound
<1>3. ASSUME NEW l \in d.logs \cup d.read
      PROVE  /\ l.block >= 1 /\ Known(l.block, l.fork)'
             /\ CH!Canonical(l.block, l.fork)' => c1'[l.block].kind = "buy"
  <2>1. l.block >= 1 /\ Known(l.block, l.fork) /\ (CH!Canonical(l.block, l.fork) => c1[l.block].kind = "buy")
    BY DEF ChainSound
  <2>2. /\ Known(l.block, l.fork)'
        /\ CH!Canonical(l.block, l.fork)' => CH!Canonical(l.block, l.fork) /\ (l.block >= 1 => c1'[l.block] = c1[l.block])
    BY <1>1, <2>1, MovedKnown
  <2> QED BY <2>1, <2>2
<1>4. IsFiniteSet(d.logs)
  BY DEF ChainSound
<1> QED BY <1>2, <1>3, <1>4 DEF ChainSound

(* What was bought and spent in blocks that stay is what was bought and    *)
(* spent before.                                                           *)
LEMMA SameBlocks ==
  ASSUME ChainShape, NEW n, ChainAgrees(n), NEW kind, NEW a \in Nat, a >= 1, NEW b \in Nat, b <= n
  PROVE  CH!Having(kind, a, b)' = CH!Having(kind, a, b)
<1>1. Len(c1) \in Nat /\ Len(c1') \in Nat /\ n \in Nat /\ n <= Len(c1) /\ n <= Len(c1')
  BY DEF ChainShape, ChainAgrees
<1>2. \A i \in a..b : i \in 1..n /\ i <= Len(c1) /\ i <= Len(c1')
  BY <1>1
<1>3. \A i \in a..b : c1'[i] = c1[i]
  BY <1>2 DEF ChainAgrees
<1> QED BY <1>2, <1>3 DEF CH!Having

(* A proof stands while the blocks that it counts stand.                   *)
LEMMA SameProof ==
  ASSUME ChainShape, NEW n, ChainAgrees(n)
  PROVE  \A c \in ChainCohort : CohortProven(c) /\ c.block <= n => CohortProven(c)'
<1> SUFFICES ASSUME NEW c \in ChainCohort, CohortProven(c), c.block <= n PROVE CohortProven(c)'
  OBVIOUS
<1>1. c.block \in Nat /\ c.from \in Nat /\ c.from >= 1 /\ c.bought \in Nat /\ c.lower \in Int
  BY DEF ChainCohort, CohortProven
<1>2. c.block <= Len(c1')
  BY <1>1 DEF ChainAgrees, ChainShape
<1>3. CH!Having("buy", c.from, c.block)' = CH!Having("buy", c.from, c.block)
  BY <1>1, SameBlocks
<1>4. CH!Having("out", c.from, c.block)' = CH!Having("out", c.from, c.block)
  BY <1>1, SameBlocks
<1>5. /\ CH!Having("buy", 1, c.block)' = CH!Having("buy", 1, c.block)
      /\ CH!Having("in", 1, c.block)' = CH!Having("in", 1, c.block)
      /\ CH!Having("out", 1, c.block)' = CH!Having("out", 1, c.block)
  BY <1>1, SameBlocks
<1>6. CH!Bought(c.from, c.block)' = CH!Bought(c.from, c.block)
  BY <1>3 DEF CH!Bought, CH!Cardinality
<1>7. CH!Spent(c.from, c.block)' = CH!Spent(c.from, c.block)
  BY <1>4 DEF CH!Spent, CH!Cardinality
<1>8. CH!Balance(c.block)' = CH!Balance(c.block)
  BY <1>5 DEF CH!Balance, CH!Bought, CH!Spent, CH!Cardinality
<1> QED BY <1>1, <1>2, <1>6, <1>7, <1>8 DEF CohortProven, CH!Less

(* A database whose checkpoint stays on the chain stays valid.             *)
LEMMA SameValid ==
  ASSUME ChainShape, NEW n, ChainAgrees(n)
  PROVE  \A d \in ChainDatabase :
           /\ ChainValid(d)
           /\ d.cohort # CH!NoCohort => d.cohort.block <= n
           /\ \A l \in d.read : l.block <= n
           => ChainValid(d)'
<1> SUFFICES ASSUME NEW d \in ChainDatabase, ChainValid(d), d.cohort # CH!NoCohort => d.cohort.block <= n,
                    \A l \in d.read : l.block <= n
             PROVE  ChainValid(d)'
  OBVIOUS
<1>1. d.cohort # CH!NoCohort => CohortProven(d.cohort)'
  BY SameProof DEF ChainDatabase, ChainValid
<1>2. ASSUME NEW l \in d.read PROVE CH!Canonical(l.block, l.fork)'
  <2>1. l.block \in Nat /\ l.block <= n /\ CH!Canonical(l.block, l.fork)
    BY DEF ChainDatabase, ChainLog, ChainValid
  <2>2. /\ c1 \in Seq(ChainBlock) /\ c1' \in Seq(ChainBlock) /\ n \in Nat /\ n <= Len(c1')
        /\ \A i \in 1..n : c1'[i] = c1[i]
    BY DEF ChainShape, ChainAgrees
  <2>3. l.block \in DOMAIN c1 => l.block \in DOMAIN c1' /\ c1'[l.block] = c1[l.block]
    BY <2>1, <2>2
  <2> QED BY <2>1, <2>3 DEF CH!Canonical
<1>3. d.cohort # CH!NoCohort' => CohortProven(d.cohort)'
  BY <1>1 DEF CH!NoCohort
<1> QED BY <1>2, <1>3 DEF ChainValid

(* A database stays valid under a new block.                               *)
LEMMA GrownValid ==
  ASSUME ChainShape, ChainGrown
  PROVE  \A d \in ChainDatabase : ChainSound(d) /\ ChainValid(d) => ChainValid(d)'
<1> SUFFICES ASSUME NEW d \in ChainDatabase, ChainSound(d), ChainValid(d) PROVE ChainValid(d)'
  OBVIOUS
<1>1. ChainAgrees(Len(c1))
  BY DEF ChainGrown
<1>2. d.cohort # CH!NoCohort => d.cohort.block <= Len(c1)
  BY DEF ChainValid, CohortProven
<1>3. \A l \in d.read : l.block <= Len(c1)
  <2> SUFFICES ASSUME NEW l \in d.read PROVE l.block <= Len(c1)
    OBVIOUS
  <2>1. l.block \in Nat /\ l.block >= 1
    BY DEF ChainDatabase, ChainLog, ChainSound
  <2>2. CH!Canonical(l.block, l.fork)
    BY DEF ChainValid
  <2> QED BY <2>1, <2>2 DEF CH!Canonical, ChainShape
<1> QED BY <1>1, <1>2, <1>3, SameValid

(* A database whose checkpoint a reorganization spares stays valid.        *)
LEMMA TakenValid ==
  ASSUME ChainShape, NEW i \in 1..Len(c1), ChainTaken(i)
  PROVE  \A d \in ChainDatabase :
           /\ ChainSound(d) /\ CH!Canonical(d.block, d.fork)'
           /\ CH!Canonical(d.block, d.fork) => ChainValid(d)
           /\ i <= d.block \/ (i > d.cohort.block /\ \A l \in d.read : i > l.block)
           => ChainValid(d)'
<1> SUFFICES ASSUME NEW d \in ChainDatabase, ChainSound(d), CH!Canonical(d.block, d.fork)',
                    CH!Canonical(d.block, d.fork) => ChainValid(d),
                    i <= d.block \/ (i > d.cohort.block /\ \A l \in d.read : i > l.block)
             PROVE  ChainValid(d)'
  OBVIOUS
<1>1. /\ d.block \in Nat /\ d.fork \in Nat /\ d.cohort.block \in Nat
      /\ \A l \in d.read : l.block \in Nat
  BY DEF ChainDatabase, ChainCohort, ChainLog
<1>2. ChainMoved
  BY DEF ChainMoved
<1>3. CH!Canonical(d.block, d.fork)
  BY <1>1, <1>2, MovedKnown DEF ChainSound
<1>4. i \in Nat /\ i >= 1 /\ Len(c1') = i - 1 /\ c1' \in Seq(ChainBlock) /\ ChainAgrees(i - 1)
  BY DEF ChainTaken, ChainAgrees, ChainShape
<1>5. d.block < i
  <2>1. d.block = 0 \/ d.block \in DOMAIN c1'
    BY DEF CH!Canonical
  <2> QED BY <1>1, <1>4, <2>1
<1>6. d.cohort.block <= i - 1 /\ \A l \in d.read : l.block <= i - 1
  BY <1>1, <1>4, <1>5
<1> QED BY <1>3, <1>4, <1>6, SameValid

(* A database is a kept one whatever becomes of the chain.                 *)
LEMMA KeptMoves ==
  ASSUME ChainShape, ChainGoesOn, NEW d, NEW name,
         \/ d = c3 /\ d' = c3 /\ name = "saved"
         \/ d = c4 /\ d' = c4 /\ name = "backup",
         ChainKept(d, name)
  PROVE  ChainKept(d, name)'
<1>1. ChainMoved /\ d \in ChainDatabase /\ d' = d /\ c8 \subseteq c8'
  BY DEF ChainMoved, ChainShape, ChainGoesOn, ChainNoticed
<1>2. ChainSound(d)'
  BY <1>1, MovedSound DEF ChainKept
<1>3. ASSUME name \notin c8', CH!Canonical(d.block, d.fork)' PROVE ChainValid(d)'
  <2>1. CASE ChainGrown
    <3>1. CH!Canonical(d.block, d.fork)
      BY <1>1, <1>3, MovedKnown DEF ChainKept, ChainSound, ChainDatabase
    <3> QED BY <1>1, <1>3, <2>1, <3>1, GrownValid DEF ChainKept
  <2>2. CASE \E i \in 1..Len(c1) : ChainTaken(i) /\ ChainNoticed(i)
    <3>1. PICK i \in 1..Len(c1) : ChainTaken(i) /\ ChainNoticed(i)
      BY <2>2
    <3>2. i <= d.block \/ (i > d.cohort.block /\ \A l \in d.read : i > l.block)
      BY <1>3, <3>1 DEF ChainNoticed, CH!Notices
    <3> QED BY <1>1, <1>3, <3>1, <3>2, TakenValid DEF ChainKept
  <2> QED BY <2>1, <2>2 DEF ChainGoesOn
<1> QED BY <1>2, <1>3 DEF ChainKept

(* A scan goes on under a chain that grows, or that is cut above its head. *)
LEMMA ScanMoves ==
  ASSUME ChainShape, ChainScanning, ChainGoesOn, UNCHANGED <<c2, c3, c5>>
  PROVE  ChainScanning'
<1>1. ChainMoved /\ c8 \subseteq c8'
  BY DEF ChainMoved, ChainGoesOn, ChainNoticed
<1>2. /\ c2 \in ChainDatabase /\ c3 \in ChainDatabase /\ c5 \in ChainScan
      /\ c5.head \in Nat /\ c5.fork \in Nat /\ c2.block \in Nat /\ c2.fork \in Nat
      /\ c3.block \in Nat /\ c2.cohort.block \in Nat /\ c3.cohort.block \in Nat
      /\ \A l \in c2.read \cup c3.read : l.block \in Nat
  BY DEF ChainShape, ChainScan, ChainDatabase, ChainCohort, ChainLog
<1>3. ChainSound(c2)' /\ Known(c5.head, c5.fork)'
  <2>1. ChainSound(c2)'
    BY <1>1, <1>2, MovedSound DEF ChainScanning
  <2>2. ASSUME NEW b \in Nat, NEW f \in Nat, Known(b, f) PROVE Known(b, f)'
    BY <1>1, <2>2, MovedKnown
  <2>3. Known(c5.head, c5.fork)'
    BY <1>2, <2>2 DEF ChainScanning, Known
  <2> QED BY <2>1, <2>3
<1>4. /\ CH!Canonical(c5.head, c5.fork)' => CH!Canonical(c5.head, c5.fork)
      /\ CH!Canonical(c2.block, c2.fork)' => CH!Canonical(c2.block, c2.fork)
  <2>1. ASSUME NEW b \in Nat, NEW f \in Nat, Known(b, f), CH!Canonical(b, f)' PROVE CH!Canonical(b, f)
    BY <1>1, <2>1, MovedKnown
  <2> QED BY <1>2, <2>1 DEF ChainScanning, ChainSound, CH!Canonical
<1>5. CH!Canonical(c5.head, c5.fork)' =>
        \E n \in Nat : ChainAgrees(n) /\ c5.head <= n
                       /\ \/ ChainGrown /\ n = Len(c1)
                          \/ \E i \in 1..Len(c1) : ChainTaken(i) /\ ChainNoticed(i) /\ n = i - 1
  <2> SUFFICES ASSUME CH!Canonical(c5.head, c5.fork)'
               PROVE  \E n \in Nat : ChainAgrees(n) /\ c5.head <= n
                       /\ \/ ChainGrown /\ n = Len(c1)
                          \/ \E i \in 1..Len(c1) : ChainTaken(i) /\ ChainNoticed(i) /\ n = i - 1
    OBVIOUS
  <2>1. c5.head \in DOMAIN c1' /\ c5.head \in DOMAIN c1 /\ c5.head >= 1
    BY <1>4 DEF CH!Canonical, ChainScanning
  <2>2. CASE ChainGrown
    <3>1. ChainAgrees(Len(c1)) /\ Len(c1) \in Nat /\ c5.head <= Len(c1)
      BY <2>1, <2>2 DEF ChainGrown, ChainShape
    <3> QED BY <2>2, <3>1
  <2>3. CASE \E i \in 1..Len(c1) : ChainTaken(i) /\ ChainNoticed(i)
    <3>1. PICK i \in 1..Len(c1) : ChainTaken(i) /\ ChainNoticed(i)
      BY <2>3
    <3>2. ChainAgrees(i - 1) /\ i - 1 \in Nat /\ c5.head <= i - 1
      <4>1. c1' \in Seq(ChainBlock) /\ Len(c1') = i - 1 /\ ChainAgrees(i - 1)
        BY <3>1 DEF ChainTaken, ChainAgrees
      <4> QED BY <2>1, <4>1 DEF ChainShape
    <3> QED BY <3>1, <3>2
  <2> QED BY <2>2, <2>3 DEF ChainGoesOn
<1>6. ASSUME "saved" \notin c8', CH!Canonical(c5.head, c5.fork)', CH!Canonical(c2.block, c2.fork)'
      PROVE  ChainValid(c2)'
  <2>1. ChainValid(c2)
    BY <1>1, <1>4, <1>6 DEF ChainScanning
  <2>2. CASE ChainGrown
    BY <1>2, <2>1, <2>2, GrownValid DEF ChainScanning
  <2>3. CASE \E i \in 1..Len(c1) : ChainTaken(i) /\ ChainNoticed(i)
    <3>1. PICK i \in 1..Len(c1) : ChainTaken(i) /\ ChainNoticed(i)
      BY <2>3
    <3>2. c1' \in Seq(ChainBlock) /\ Len(c1') = i - 1 /\ ChainAgrees(i - 1) /\ i \in Nat /\ i >= 1
      BY <3>1 DEF ChainTaken, ChainAgrees, ChainShape
    <3>3. c5.head <= i - 1 /\ c2.block <= i - 1
      <4>1. c5.head \in DOMAIN c1' /\ (c2.block = 0 \/ c2.block \in DOMAIN c1')
        BY <1>6 DEF CH!Canonical, ChainScanning
      <4> QED BY <1>2, <3>2, <4>1
    <3>4. c3.block < i
      BY <1>2, <3>2, <3>3 DEF ChainScanning
    <3>5. i > c3.cohort.block /\ \A l \in c3.read : i > l.block
      BY <1>2, <1>6, <3>1, <3>2, <3>4 DEF ChainNoticed, CH!Notices
    <3>6. c2.cohort.block <= i - 1 /\ \A l \in c2.read : l.block <= i - 1
      BY <1>2, <3>2, <3>3, <3>5 DEF ChainScanning
    <3> QED BY <1>2, <2>1, <3>2, <3>6, SameValid
  <2> QED BY <2>2, <2>3 DEF ChainGoesOn
<1>7. ASSUME c5.phase = "checkpoint", CH!Canonical(c5.head, c5.fork)'
      PROVE  CH!Canonical(c2.block, c2.fork)'
  <2>1. CH!Canonical(c2.block, c2.fork) /\ c2.block <= c5.head
    BY <1>4, <1>7 DEF ChainScanning
  <2>2. PICK n \in Nat : ChainAgrees(n) /\ c5.head <= n
    BY <1>5, <1>7
  <2>3. c2.block = 0 \/ (c2.block \in DOMAIN c1' /\ c1'[c2.block] = c1[c2.block])
    BY <1>2, <2>1, <2>2 DEF ChainAgrees, ChainShape, CH!Canonical
  <2> QED BY <2>1, <2>3 DEF CH!Canonical
<1> QED BY <1>3, <1>6, <1>7 DEF ChainScanning

-----------------------------------------------------------------------------
(* Between two blocks everything that is said of the chain stays.          *)
LEMMA ChainStands ==
  ASSUME UNCHANGED <<c1, c6>>
  PROVE  /\ \A b, f : (Known(b, f)' <=> Known(b, f)) /\ (CH!Canonical(b, f)' <=> CH!Canonical(b, f))
         /\ \A d : (ChainSound(d)' <=> ChainSound(d)) /\ (ChainValid(d)' <=> ChainValid(d))
         /\ \A d, n : c8' = c8 => (ChainKept(d, n)' <=> ChainKept(d, n))
<1>1. \A b, f : (Known(b, f)' <=> Known(b, f)) /\ (CH!Canonical(b, f)' <=> CH!Canonical(b, f))
  BY DEF Known, CH!Canonical
<1>2. \A kind, a, b : CH!Having(kind, a, b)' = CH!Having(kind, a, b)
  BY DEF CH!Having
<1>3. \A c : CohortProven(c)' <=> CohortProven(c)
  <2> SUFFICES ASSUME NEW c PROVE CohortProven(c)' <=> CohortProven(c)
    OBVIOUS
  <2>1. \A a, b : /\ CH!Bought(a, b)' = CH!Bought(a, b) /\ CH!Spent(a, b)' = CH!Spent(a, b)
                  /\ CH!Balance(b)' = CH!Balance(b)
    BY <1>2 DEF CH!Bought, CH!Spent, CH!Balance, CH!Cardinality
  <2> QED BY <2>1 DEF CohortProven, CH!Less
<1>4. \A d : ChainSound(d)' <=> ChainSound(d)
  BY <1>1 DEF ChainSound
<1>5. \A d : ChainValid(d)' <=> ChainValid(d)
  BY <1>1, <1>3 DEF ChainValid, CH!NoCohort
<1> QED BY <1>1, <1>4, <1>5 DEF ChainKept

(* The cohort before the first purchase was counted.                       *)
LEMMA NoCohortShape == CH!NoCohort \in ChainCohort /\ CH!NoCohort.block = 0
BY DEF CH!NoCohort, ChainCohort

(* A cohort less what was spent keeps its shape.                           *)
LEMMA LessShape ==
  ASSUME NEW n \in Int, NEW m \in Int
  PROVE  CH!Less(n, m) \in Nat /\ (n > m => CH!Less(n, m) = n - m) /\ (n <= m => CH!Less(n, m) = 0)
BY DEF CH!Less

(* A cohort that is counted from receipts read up to a block is proven     *)
(* there (inspect_incremental).                                            *)
LEMMA FrozenProven ==
  ASSUME ChainShape, NEW buys \in SUBSET ChainLog, IsFiniteSet(buys), NEW from \in Nat
  PROVE  /\ CH!Frozen(buys, from) \in ChainCohort
         /\ CH!Frozen(buys, from) # CH!NoCohort =>
              /\ CH!Frozen(buys, from).from = from /\ CH!Frozen(buys, from).block = c5.head
              /\ CH!Frozen(buys, from).bought = 2 * Cardinality(buys)
              /\ CH!Frozen(buys, from).lower <= CH!Less(2 * Cardinality(buys), CH!Spent(from, c5.head))
              /\ CH!Frozen(buys, from).lower <= CH!Balance(c5.head)
<1> DEFINE bought == 2 * Cardinality(buys)
           kept == CH!Less(bought, CH!Spent(from, c5.head))
           lower == CH!Min({CH!Balance(c5.head), kept})
<1>1. c5.head \in Int /\ from \in Int /\ c5.head \in Nat
  BY DEF ChainShape, ChainScan
<1>2. bought \in Nat
  BY FS_CardinalityType
<1>3. CH!Spent(from, c5.head) \in Nat /\ CH!Balance(c5.head) \in Int
  BY <1>1, BoughtIsCounted, Zenon
<1>4. kept \in Nat
  BY <1>2, <1>3, LessShape
<1>5. lower \in Int /\ lower <= kept /\ lower <= CH!Balance(c5.head)
  <2>1. kept \in Int
    BY <1>4
  <2> HIDE DEF kept
  <2>2. lower \in {CH!Balance(c5.head), kept} /\ lower <= kept /\ lower <= CH!Balance(c5.head)
    BY <1>3, <2>1, LeastOfTwo, Zenon
  <2> QED BY <1>3, <2>1, <2>2
<1>6. \/ CH!Frozen(buys, from) = [bought |-> bought, lower |-> lower, from |-> from, block |-> c5.head]
      \/ CH!Frozen(buys, from) = CH!NoCohort
  BY ChainCardinality DEF CH!Frozen
<1> HIDE DEF bought, kept, lower
<1>7. [bought |-> bought, lower |-> lower, from |-> from, block |-> c5.head] \in ChainCohort
  BY <1>1, <1>2, <1>5 DEF ChainCohort
<1> QED BY <1>5, <1>6, <1>7, NoCohortShape DEF bought, kept

(* A proven cohort that is rechecked up to a later block is proven there   *)
(* (recheck_cohort).                                                       *)
LEMMA RecheckedProven ==
  ASSUME ChainShape
  PROVE  /\ CH!Rechecked \in ChainCohort
         /\ CH!Rechecked = c2.cohort \/ CH!Rechecked.block = c5.head
         /\ CohortProven(c2.cohort) /\ c5.head <= Len(c1) => CohortProven(CH!Rechecked)
<1> DEFINE c == c2.cohort
           spent == CH!Spent(c.block + 1, c5.head)
           left == CH!Less(c.lower, spent)
           lower == CH!Min({left, c.bought, CH!Balance(c5.head)})
           new == [bought |-> c.bought, lower |-> lower, from |-> c.from, block |-> c5.head]
<1>1. /\ c \in ChainCohort /\ c.bought \in Nat /\ c.lower \in Int /\ c.from \in Nat /\ c.block \in Nat
      /\ c5.head \in Nat /\ Len(c1) \in Nat
  <2>1. c \in ChainCohort
    BY DEF ChainShape, ChainDatabase
  <2>2. c5.head \in Nat /\ Len(c1) \in Nat
    BY DEF ChainShape, ChainScan
  <2> HIDE DEF c
  <2> QED BY <2>1, <2>2 DEF ChainCohort
<1>2. CASE c5.head <= c.block
  <2>1. CH!Rechecked = c
    BY <1>2 DEF CH!Rechecked
  <2> QED BY <1>1, <2>1
<1>3. CASE c5.head > c.block
  <2>0. c5.head \in Int /\ c.block + 1 \in Int
    BY <1>1
  <2>1. spent \in Nat /\ CH!Balance(c5.head) \in Int
    BY <2>0, BoughtIsCounted, Zenon
  <2>2. left \in Nat /\ (c.lower > spent => left = c.lower - spent) /\ (c.lower <= spent => left = 0)
    <3>1. spent \in Int /\ c.lower \in Int
      BY <1>1, <2>1
    <3> QED BY <3>1, LessShape, Zenon
  <2> HIDE DEF spent, left
  <2>3. lower \in Int /\ lower <= left /\ lower <= c.bought /\ lower <= CH!Balance(c5.head)
    <3>1. left \in Int /\ c.bought \in Int /\ CH!Balance(c5.head) \in Int
      BY <1>1, <2>1, <2>2
    <3>2. /\ lower \in {left, c.bought, CH!Balance(c5.head)}
          /\ lower <= left /\ lower <= c.bought /\ lower <= CH!Balance(c5.head)
      BY <3>1, LeastOfThree, Zenon
    <3> QED BY <3>1, <3>2
  <2>4. CH!Rechecked = [c EXCEPT !.lower = lower, !.block = c5.head]
    BY <1>1, <1>3 DEF CH!Rechecked, spent, left
  <2> HIDE DEF lower
  <2>5. CH!Rechecked = new
    BY <1>1, <2>4 DEF ChainCohort
  <2>6. new \in ChainCohort /\ new.block = c5.head
    BY <1>1, <2>3 DEF ChainCohort
  <2>7. ASSUME CohortProven(c), c5.head <= Len(c1)
        PROVE  CohortProven(new)
    <3>1. /\ c.from >= 1 /\ c.bought <= CH!Bought(c.from, c.block)
          /\ c.lower <= CH!Less(c.bought, CH!Spent(c.from, c.block))
      BY <2>7 DEF CohortProven
    <3>7. c.from \in Int /\ c.block \in Int /\ c5.head \in Int /\ c.block <= c5.head
      BY <1>1, <1>3
    <3>2. CH!Bought(c.from, c.block) <= CH!Bought(c.from, c5.head)
      BY <3>7, BoughtGrows, Zenon
    <3>3. CH!Spent(c.from, c5.head) <= CH!Spent(c.from, c.block) + spent
      BY <3>7, SpentAdds, Zenon DEF spent
    <3>4. /\ CH!Bought(c.from, c.block) \in Nat /\ CH!Bought(c.from, c5.head) \in Nat
          /\ CH!Spent(c.from, c.block) \in Nat /\ CH!Spent(c.from, c5.head) \in Nat
      BY <3>7, BoughtIsCounted, Zenon
    <3>5. lower <= CH!Less(c.bought, CH!Spent(c.from, c5.head))
      <4> DEFINE s == CH!Spent(c.from, c.block)
                 t == CH!Spent(c.from, c5.head)
      <4>2. /\ CH!Less(c.bought, s) \in Nat /\ CH!Less(c.bought, t) \in Nat
            /\ c.bought > s => CH!Less(c.bought, s) = c.bought - s
            /\ c.bought <= s => CH!Less(c.bought, s) = 0
            /\ c.bought > t => CH!Less(c.bought, t) = c.bought - t
            /\ c.bought <= t => CH!Less(c.bought, t) = 0
        <5>1. c.bought \in Int /\ s \in Int /\ t \in Int
          BY <1>1, <3>4
        <5> HIDE DEF s, t
        <5> QED BY <5>1, LessShape, Zenon
      <4>3. /\ t <= s + spent /\ s \in Nat /\ t \in Nat /\ c.lower <= CH!Less(c.bought, s)
        BY <3>1, <3>3, <3>4
      <4> HIDE DEF s, t
      <4>4. lower <= CH!Less(c.bought, t)
        <5> DEFINE u == CH!Less(c.bought, s)
                   v == CH!Less(c.bought, t)
        <5>1. /\ u \in Nat /\ v \in Nat /\ s \in Nat /\ t \in Nat /\ spent \in Nat /\ left \in Nat
              /\ c.bought \in Nat /\ c.lower \in Int /\ lower \in Int
          BY <1>1, <2>1, <2>2, <2>3, <4>2, <4>3
        <5>2. /\ t <= s + spent /\ c.lower <= u /\ lower <= left
              /\ c.bought > s => u = c.bought - s
              /\ c.bought <= s => u = 0
              /\ c.bought > t => v = c.bought - t
              /\ c.lower > spent => left = c.lower - spent
              /\ c.lower <= spent => left = 0
          BY <2>2, <2>3, <4>2, <4>3
        <5> HIDE DEF u, v, c
        <5>3. ASSUME c.lower <= spent PROVE lower <= v
          BY <5>1, <5>2, <5>3
        <5>4. ASSUME c.lower > spent, c.bought > s PROVE lower <= v
          <6>1. CASE c.bought > t
            BY <5>1, <5>2, <5>4, <6>1
          <6>2. CASE c.bought <= t
            BY <5>1, <5>2, <5>4, <6>2
          <6> QED BY <5>1, <6>1, <6>2
        <5>5. ASSUME c.lower > spent, c.bought <= s PROVE lower <= v
          BY <5>1, <5>2, <5>5
        <5>6. lower <= v
          BY <5>1, <5>3, <5>4, <5>5
        <5> QED BY <5>6 DEF v
      <4> QED BY <4>4 DEF t
    <3>6. c.bought <= CH!Bought(c.from, c5.head)
      BY <1>1, <3>1, <3>2, <3>4
    <3> QED BY <2>3, <2>7, <3>1, <3>5, <3>6 DEF CohortProven
  <2> QED BY <2>5, <2>6, <2>7
<1> QED BY <1>1, <1>2, <1>3

(* A block of the chain has a fork and a kind.                             *)
LEMMA BlockShape ==
  ASSUME ChainShape
  PROVE  \A i \in 1..Len(c1) : c1[i] \in ChainBlock /\ c1[i].fork \in Nat /\ c1[i].fork <= c6
<1>1. \A i \in 1..Len(c1) : c1[i] \in ChainBlock
  BY DEF ChainShape
<1>2. \A x \in ChainBlock : x.fork \in Nat
  BY DEF ChainBlock
<1> QED BY <1>1, <1>2 DEF ChainShape

(* Before the first block there is nothing to prove.                       *)
LEMMA ChainInit ==
  ASSUME CH!Init
  PROVE  ChainInv
<1>1. c1 = <<>> /\ c2 = CH!Empty /\ c3 = CH!Empty /\ c4 = CH!Empty /\ c5 = CH!NoScan /\ c6 = 0
  BY DEF CH!Init
<1>2. /\ CH!Empty \in ChainDatabase /\ CH!Empty.logs = {} /\ CH!Empty.read = {}
      /\ CH!Empty.block = 0 /\ CH!Empty.fork = 0 /\ CH!Empty.cohort = CH!NoCohort
  BY NoCohortShape DEF CH!Empty, ChainDatabase
<1>3. CH!NoScan \in ChainScan /\ CH!NoScan.phase = "idle"
  BY DEF CH!NoScan, ChainScan
<1>4. Len(c1) = 0 /\ c1 \in Seq(ChainBlock)
  BY <1>1
<1>5. ChainShape
  BY <1>1, <1>2, <1>3, <1>4 DEF ChainShape
<1>6. ChainKept(CH!Empty, "saved") /\ ChainKept(CH!Empty, "backup")
  <2>1. IsFiniteSet({})
    BY FS_EmptySet
  <2> QED BY <1>1, <1>2, <1>4, <2>1 DEF ChainKept, ChainSound, ChainValid, Known
<1> QED BY <1>1, <1>3, <1>5, <1>6 DEF ChainInv

(* The chain goes its own way under a scan and under the databases.        *)
LEMMA ChainMoves ==
  ASSUME ChainInv, CH!Reorganize \/ \E kind \in ChainMined : CH!Mine(kind)
  PROVE  ChainInv'
<1>1. ChainShape
  BY DEF ChainInv
<1>2. ChainGoesOn
  <2>1. CASE CH!Reorganize
    BY <1>1, <2>1, ReorganizeTakes DEF ChainGoesOn
  <2>2. CASE \E kind \in ChainMined : CH!Mine(kind)
    <3>1. c8' = c8
      BY <2>2 DEF CH!Mine
    <3> QED BY <1>1, <2>2, <3>1, MineGrows DEF ChainGoesOn
  <2> QED BY <2>1, <2>2
<1>3. UNCHANGED <<c2, c3, c4, c5>>
  BY DEF CH!Mine, CH!Reorganize
<1>4. ChainShape'
  <2>1. CASE ChainGrown
    <3>1. /\ c1' \in Seq(ChainBlock) /\ Len(c1') = Len(c1) + 1 /\ c1'[Len(c1) + 1].fork = c6
          /\ c6' = c6 /\ \A i \in 1..Len(c1) : c1'[i] = c1[i]
      BY <2>1 DEF ChainGrown, ChainAgrees
    <3>2. Len(c1) \in Nat /\ c6 \in Nat /\ \A i \in 1..Len(c1) : c1[i].fork <= c6
      BY <1>1 DEF ChainShape
    <3>3. \A i \in 1..Len(c1') : c1'[i].fork <= c6'
      <4> SUFFICES ASSUME NEW i \in 1..Len(c1') PROVE c1'[i].fork <= c6'
        OBVIOUS
      <4>1. i \in 1..Len(c1) \/ i = Len(c1) + 1
        BY <3>1, <3>2
      <4> QED BY <3>1, <3>2, <4>1
    <3> QED BY <1>1, <1>3, <3>1, <3>3 DEF ChainShape
  <2>2. CASE \E i \in 1..Len(c1) : ChainTaken(i)
    <3>1. PICK i \in 1..Len(c1) : ChainTaken(i)
      BY <2>2
    <3>2. /\ c1' \in Seq(ChainBlock) /\ Len(c1') = i - 1 /\ c6' = c6 + 1
          /\ \A j \in 1..(i - 1) : c1'[j] = c1[j]
      BY <3>1 DEF ChainTaken, ChainAgrees
    <3>3. Len(c1) \in Nat /\ c6 \in Nat /\ (\A j \in 1..Len(c1) : c1[j].fork \in Nat /\ c1[j].fork <= c6)
      BY <1>1, BlockShape DEF ChainShape
    <3>4. \A j \in 1..Len(c1') : c1'[j].fork <= c6'
      <4> SUFFICES ASSUME NEW j \in 1..Len(c1') PROVE c1'[j].fork <= c6'
        OBVIOUS
      <4>1. j \in 1..(i - 1) /\ j \in 1..Len(c1)
        BY <3>2, <3>3
      <4> QED BY <3>2, <3>3, <4>1
    <3> QED BY <1>1, <1>3, <3>2, <3>4 DEF ChainShape
  <2> QED BY <1>2, <2>1, <2>2 DEF ChainGoesOn
<1>5. ChainKept(c3, "saved")' /\ ChainKept(c4, "backup")'
  BY <1>1, <1>2, <1>3, KeptMoves DEF ChainInv
<1>6. c5.phase # "idle" => ChainScanning'
  BY <1>1, <1>2, <1>3, ScanMoves DEF ChainInv
<1> QED BY <1>3, <1>4, <1>5, <1>6 DEF ChainInv

(* A scan begins at the head that the chain has (scan).                    *)
LEMMA ChainBegins ==
  ASSUME ChainInv, CH!Begin
  PROVE  ChainInv'
<1> DEFINE head == Len(c1) - ChainConfirm
<1>1. /\ c5.phase = "idle" /\ Len(c1) > ChainConfirm /\ UNCHANGED <<c1, c2, c3, c4, c6, c8>>
      /\ c5' = [phase |-> "logs", head |-> head, start |-> CH!Start(head), end |-> 0,
                fork |-> c1[head].fork]
  BY DEF CH!Begin
<1>2. ChainShape /\ ChainKept(c3, "saved") /\ ChainKept(c4, "backup") /\ c2 = c3
  BY <1>1 DEF ChainInv
<1>3. head \in 1..Len(c1)
  BY <1>1, <1>2, ChainAssumption DEF ChainShape
<1>4. c1[head].fork \in Nat /\ c1[head].fork <= c6
  BY <1>2, <1>3, BlockShape
<1>5. CH!Start(head) \in Nat /\ CH!Start(head) >= 1
  <2>1. head \in Int /\ ChainWindow \in Int
    BY <1>3, ChainAssumption
  <2>2. CH!Less(head, ChainWindow) \in Nat
    BY <2>1, LessShape, Zenon
  <2> QED BY <2>2 DEF CH!Start
<1>6. ChainShape'
  BY <1>1, <1>2, <1>3, <1>4, <1>5 DEF ChainShape, ChainScan
<1>7. ChainKept(c3, "saved")' /\ ChainKept(c4, "backup")'
  BY <1>1, <1>2, ChainStands
<1>8. Known(c5.head, c5.fork)'
  BY <1>1, <1>2, <1>3, <1>4 DEF Known, ChainShape
<1>9. "saved" \notin c8' /\ CH!Canonical(c2.block, c2.fork)' => ChainValid(c2)'
  BY <1>1, <1>2, <1>7 DEF ChainKept
<1> HIDE DEF head
<1>10. ChainScanning'
  BY <1>1, <1>2, <1>3, <1>5, <1>7, <1>8, <1>9 DEF ChainScanning, ChainKept
<1> QED BY <1>1, <1>6, <1>7, <1>10 DEF ChainInv

(* The end of a range of logs.                                             *)
LEMMA LogsEnd ==
  ASSUME NEW head \in Nat, head >= 1, NEW left \in Nat, left >= 1
  PROVE  LET end == CH!Min({head, left + ChainMaxLog - 1})
         IN  end \in Nat /\ 1 <= end /\ end <= head
<1> DEFINE last == left + ChainMaxLog - 1
<1>1. last \in Nat /\ last >= 1
  BY ChainAssumption
<1> HIDE DEF last
<1>2. head \in Int /\ last \in Int
  BY <1>1
<1>3. CH!Min({head, last}) \in {head, last} /\ CH!Min({head, last}) <= head
  BY <1>2, LeastOfTwo, Zenon
<1>4. CH!Min({head, last}) \in Nat /\ 1 <= CH!Min({head, last}) /\ CH!Min({head, last}) <= head
  BY <1>1, <1>3
<1> QED BY <1>4 DEF last

(* The scan reads a range of logs and puts them into the database          *)
(* (inspect_incremental).                                                  *)
LEMMA ChainReads ==
  ASSUME ChainInv, CH!ReadLogs
  PROVE  ChainInv'
<1> DEFINE left == IF c2.block = 0 THEN c5.start ELSE c2.block + 1
           end == CH!Min({c5.head, left + ChainMaxLog - 1})
           new == {[block |-> i, fork |-> c1[i].fork] : i \in CH!Having("buy", left, end)}
<1>1. /\ c5.phase = "logs" /\ c2.block <= c5.head /\ CH!Canonical(c2.block, c2.fork)
      /\ c2' = [c2 EXCEPT !.logs = @ \cup new]
      /\ c5' = [c5 EXCEPT !.phase = "checkpoint", !.end = end]
      /\ UNCHANGED <<c1, c3, c4, c6, c8>>
  BY DEF CH!ReadLogs, CH!MayRead
<1>2. ChainShape /\ ChainKept(c3, "saved") /\ ChainKept(c4, "backup") /\ ChainScanning /\ c2 = c3
  BY <1>1 DEF ChainInv, ChainScanning
<1>3. /\ c2 \in ChainDatabase /\ c2.block \in Nat /\ c2.logs \subseteq ChainLog
      /\ c5 \in ChainScan /\ c5.head \in Nat /\ c5.start \in Nat
  BY <1>2 DEF ChainShape, ChainDatabase, ChainScan
<1>4. c5.head >= 1 /\ c5.start >= 1
  BY <1>2 DEF ChainScanning
<1>5. left \in Nat /\ left >= 1
  BY <1>3, <1>4
<1>6. end \in Nat /\ 1 <= end /\ end <= c5.head
  <2> HIDE DEF left
  <2>1. \A h \in Nat : h >= 1 => LET e == CH!Min({h, left + ChainMaxLog - 1})
                                 IN  e \in Nat /\ 1 <= e /\ e <= h
    BY <1>5, LogsEnd
  <2> QED BY <1>3, <1>4, <2>1
<1> HIDE DEF left, end
<1>7. \A i \in CH!Having("buy", left, end) : i \in 1..Len(c1) /\ c1[i].kind = "buy"
  BY <1>2, <1>5, <1>6 DEF CH!Having, ChainShape
<1>8. ASSUME NEW l \in new
      PROVE  /\ l \in ChainLog /\ l.block >= 1 /\ Known(l.block, l.fork)
             /\ c1[l.block].kind = "buy"
  <2>1. PICK i \in 1..Len(c1) : l = [block |-> i, fork |-> c1[i].fork] /\ c1[i].kind = "buy"
    BY <1>7
  <2>2. c1[i].fork \in Nat /\ c1[i].fork <= c6
    BY <1>2, BlockShape
  <2> QED BY <1>2, <2>1, <2>2 DEF ChainLog, Known, ChainShape
<1>9. IsFiniteSet(new)
  <2>1. left \in Int /\ end \in Int
    BY <1>5, <1>6
  <2> QED BY <2>1, LogsAreFinite
<1> HIDE DEF new
<1>10. /\ c2' \in ChainDatabase /\ c2'.logs = c2.logs \cup new /\ c2'.read = c2.read
       /\ c2'.block = c2.block /\ c2'.fork = c2.fork /\ c2'.cohort = c2.cohort
  <2>1. c2' = [logs |-> c2.logs \cup new, read |-> c2.read, block |-> c2.block, fork |-> c2.fork,
               cohort |-> c2.cohort]
    BY <1>1, <1>3 DEF ChainDatabase
  <2> QED BY <1>3, <1>8, <2>1 DEF ChainDatabase
<1>11. /\ c5' \in ChainScan /\ c5'.phase = "checkpoint" /\ c5'.end = end /\ c5'.head = c5.head
       /\ c5'.start = c5.start /\ c5'.fork = c5.fork
  <2>1. c5' = [phase |-> "checkpoint", head |-> c5.head, start |-> c5.start, end |-> end, fork |-> c5.fork]
    BY <1>1, <1>3 DEF ChainScan
  <2> QED BY <1>3, <1>6, <2>1 DEF ChainScan
<1>12. ChainShape'
  BY <1>1, <1>2, <1>10, <1>11 DEF ChainShape
<1>13. ChainKept(c3, "saved")' /\ ChainKept(c4, "backup")'
  BY <1>1, <1>2, ChainStands
<1>14. ChainSound(c2)
  BY <1>2 DEF ChainScanning
<1>15. ChainSound(c2')
  <2>1. IsFiniteSet(c2.logs \cup new)
    BY <1>9, <1>14, FS_Union DEF ChainSound
  <2> QED BY <1>8, <1>10, <1>14, <2>1 DEF ChainSound
<1>16. "saved" \notin c8 /\ CH!Canonical(c2'.block, c2'.fork) => ChainValid(c2')
  BY <1>2, <1>10 DEF ChainKept, ChainValid
<1>17. ChainSound(c2)' /\ (ChainValid(c2)' <=> ChainValid(c2'))
  <2>1. \A d : (ChainSound(d)' <=> ChainSound(d)) /\ (ChainValid(d)' <=> ChainValid(d))
    BY <1>1, ChainStands
  <2> QED BY <1>15, <2>1
<1>18. \A b, f : (Known(b, f)' <=> Known(b, f)) /\ (CH!Canonical(b, f)' <=> CH!Canonical(b, f))
  BY <1>1, ChainStands
<1>19. ChainScanning'
  <2>1. Known(c5.head, c5.fork)' /\ c3'.block <= c5'.head /\ c2'.block <= c5'.head
    BY <1>1, <1>2, <1>10, <1>11, <1>18 DEF ChainScanning
  <2>2. CH!Canonical(c2.block, c2.fork)'
    BY <1>1, <1>10, <1>18
  <2>3. "saved" \notin c8' => ChainValid(c2)'
    BY <1>1, <1>10, <1>16, <1>17
  <2>4. ~(c3'.block > c5'.head)
    BY <1>1, <1>2, <1>3, <1>11
  <2> QED BY <1>1, <1>2, <1>4, <1>6, <1>10, <1>11, <1>17, <2>1, <2>2, <2>3, <2>4 DEF ChainScanning
<1> QED BY <1>11, <1>12, <1>13, <1>19 DEF ChainInv

(* The range is checkpointed, or the block is gone by then.                *)
LEMMA ChainCheckpoints ==
  ASSUME ChainInv, CH!Checkpoint
  PROVE  ChainInv'
<1>1. /\ c5.phase = "checkpoint" /\ c5.end <= Len(c1)
      /\ c2' = [c2 EXCEPT !.block = c5.end, !.fork = c1[c5.end].fork]
      /\ c5' = [c5 EXCEPT !.phase = "cohort"]
      /\ UNCHANGED <<c1, c3, c4, c6, c8>>
  BY DEF CH!Checkpoint
<1>2. ChainShape /\ ChainKept(c3, "saved") /\ ChainKept(c4, "backup") /\ ChainScanning
  BY <1>1 DEF ChainInv
<1>3. c2 \in ChainDatabase /\ c5 \in ChainScan /\ c5.head \in Nat /\ c5.end \in Nat /\ Len(c1) \in Nat
  BY <1>2 DEF ChainShape, ChainScan
<1>4. 1 <= c5.end /\ c5.end <= c5.head /\ c3.block <= c5.head
  BY <1>1, <1>2 DEF ChainScanning
<1>5. c5.end \in 1..Len(c1) /\ c1[c5.end].fork \in Nat /\ c1[c5.end].fork <= c6
  BY <1>1, <1>2, <1>3, <1>4, BlockShape
<1>6. /\ c2' \in ChainDatabase /\ c2'.logs = c2.logs /\ c2'.read = c2.read
      /\ c2'.block = c5.end /\ c2'.fork = c1[c5.end].fork /\ c2'.cohort = c2.cohort
  <2>1. c2' = [logs |-> c2.logs, read |-> c2.read, block |-> c5.end, fork |-> c1[c5.end].fork,
               cohort |-> c2.cohort]
    BY <1>1, <1>3 DEF ChainDatabase
  <2> QED BY <1>3, <1>5, <2>1 DEF ChainDatabase
<1>7. /\ c5' \in ChainScan /\ c5'.phase = "cohort" /\ c5'.end = c5.end /\ c5'.head = c5.head
      /\ c5'.start = c5.start /\ c5'.fork = c5.fork
  BY <1>1, <1>3 DEF ChainScan
<1>8. ChainShape'
  BY <1>1, <1>2, <1>6, <1>7 DEF ChainShape
<1>9. ChainKept(c3, "saved")' /\ ChainKept(c4, "backup")'
  BY <1>1, <1>2, ChainStands
<1>10. ChainSound(c2')
  <2>1. Known(c2'.block, c2'.fork)
    BY <1>1, <1>5, <1>6 DEF Known
  <2> QED BY <1>2, <1>6, <2>1 DEF ChainSound, ChainScanning
<1>11. "saved" \notin c8 /\ CH!Canonical(c5.head, c5.fork) => ChainValid(c2')
  <2>1. "saved" \notin c8 /\ CH!Canonical(c5.head, c5.fork) => ChainValid(c2)
    BY <1>1, <1>2 DEF ChainScanning
  <2> QED BY <1>6, <2>1 DEF ChainValid
<1>12. \A b, f : (Known(b, f)' <=> Known(b, f)) /\ (CH!Canonical(b, f)' <=> CH!Canonical(b, f))
  BY <1>1, ChainStands
<1>13. ChainSound(c2)' /\ (ChainValid(c2)' <=> ChainValid(c2'))
  <2>1. \A d : (ChainSound(d)' <=> ChainSound(d)) /\ (ChainValid(d)' <=> ChainValid(d))
    BY <1>1, ChainStands
  <2> QED BY <1>10, <2>1
<1>14. ChainScanning'
  <2>1. Known(c5.head, c5.fork)' /\ (CH!Canonical(c5.head, c5.fork)' => CH!Canonical(c5.head, c5.fork))
    BY <1>2, <1>7, <1>12 DEF ChainScanning
  <2>2. "saved" \notin c8' /\ CH!Canonical(c5.head, c5.fork)' => ChainValid(c2)'
    BY <1>1, <1>11, <1>13, <2>1
  <2>3. ~(c3'.block > c5'.head)
    <3>1. c3.block \in Nat
      BY <1>2 DEF ChainShape, ChainDatabase
    <3> QED BY <1>1, <1>3, <1>4, <1>7, <3>1
  <2>4. /\ c5'.head >= 1 /\ c5'.start >= 1
        /\ c2'.cohort = c3'.cohort \/ c2'.cohort.block <= c5'.head
        /\ \A l \in c2'.read : l \in c3'.read \/ l.block <= c5'.head
    BY <1>1, <1>2, <1>6, <1>7 DEF ChainScanning
  <2>5. c3'.block <= c5'.head /\ 1 <= c5'.end /\ c5'.end <= c5'.head /\ c2'.block = c5'.end
    BY <1>1, <1>4, <1>6, <1>7
  <2> QED BY <1>7, <1>13, <2>1, <2>2, <2>3, <2>4, <2>5 DEF ChainScanning
<1> QED BY <1>7, <1>8, <1>9, <1>14 DEF ChainInv

(* Receipts that were read name blocks of the chain.                       *)
LEMMA GotLogs ==
  ASSUME ChainShape, ChainScanning, NEW last \in 0..c5.head
  PROVE  /\ CH!Got(last) \subseteq c2.logs
         /\ \A l \in CH!Got(last) : l \in ChainLog /\ c5.start <= l.block /\ l.block <= c5.head
         /\ CH!MayInspect(last) /\ ChainValid(c2) =>
              \A l \in CH!Got(last) \cup c2.read : CH!Canonical(l.block, l.fork)
<1>1. c2.logs \subseteq ChainLog /\ c5.head \in Nat /\ c5.start \in Nat
  BY DEF ChainShape, ChainDatabase, ChainScan
<1>2. \A l \in CH!Got(last) : l \in c2.logs /\ l.block \in c5.start..last
  BY DEF CH!Got
<1>3. \A l \in CH!Got(last) : l \in ChainLog /\ c5.start <= l.block /\ l.block <= c5.head
  BY <1>1, <1>2 DEF ChainLog
<1>4. ASSUME CH!MayInspect(last), ChainValid(c2), NEW l \in CH!Got(last) \cup c2.read
      PROVE  CH!Canonical(l.block, l.fork)
  BY <1>4 DEF CH!MayInspect, ChainValid
<1> QED BY <1>2, <1>3, <1>4

(* A pool is left as far as it got, at the end of its scan.                *)
ChainLeft(d) ==
    /\ c2' = d /\ c5' = [c5 EXCEPT !.phase = "end"] /\ UNCHANGED <<c1, c3, c4, c6, c8>>

(* A pool that is left with a sound database, valid if its checkpoint      *)
(* stands, leaves the invariant.                                           *)
LEMMA ChainLeaves ==
  ASSUME ChainInv, c5.phase # "idle", NEW d, ChainLeft(d),
         d \in ChainDatabase, ChainSound(d),
         c3.block > c5.head => d = c3,
         d.cohort = c3.cohort \/ d.cohort.block <= c5.head,
         \A l \in d.read : l \in c3.read \/ l.block <= c5.head,
         "saved" \notin c8 /\ CH!Canonical(c5.head, c5.fork) /\ CH!Canonical(d.block, d.fork)
           => ChainValid(d)
  PROVE  ChainInv'
<1>1. ChainShape /\ ChainKept(c3, "saved") /\ ChainKept(c4, "backup") /\ ChainScanning
  BY DEF ChainInv
<1>2. c2' = d /\ UNCHANGED <<c1, c3, c4, c6, c8>>
  BY DEF ChainLeft
<1>3. /\ c5' \in ChainScan /\ c5'.phase = "end" /\ c5'.head = c5.head
      /\ c5'.start = c5.start /\ c5'.fork = c5.fork
  BY <1>1 DEF ChainScan, ChainShape, ChainLeft
<1>4. ChainShape'
  BY <1>1, <1>2, <1>3 DEF ChainShape
<1>5. ChainKept(c3, "saved")' /\ ChainKept(c4, "backup")'
  BY <1>1, <1>2, ChainStands
<1>6. \A b, f : (Known(b, f)' <=> Known(b, f)) /\ (CH!Canonical(b, f)' <=> CH!Canonical(b, f))
  BY <1>2, ChainStands
<1>7. ChainSound(c2)' /\ (ChainValid(c2)' <=> ChainValid(d))
  <2>1. \A e : (ChainSound(e)' <=> ChainSound(e)) /\ (ChainValid(e)' <=> ChainValid(e))
    BY <1>2, ChainStands
  <2> QED BY <1>2, <2>1
<1>8. ChainScanning'
  <2>1. c5.head >= 1 /\ c5.start >= 1 /\ Known(c5.head, c5.fork)'
    BY <1>1, <1>3, <1>6 DEF ChainScanning
  <2>2. /\ "saved" \notin c8' /\ CH!Canonical(c5.head, c5.fork)'
        /\ CH!Canonical(c2.block, c2.fork)'
        => ChainValid(c2)'
    BY <1>2, <1>3, <1>6, <1>7
  <2> QED BY <1>2, <1>3, <1>7, <2>1, <2>2 DEF ChainScanning
<1> QED BY <1>3, <1>4, <1>5, <1>8 DEF ChainInv

(* A pool is inspected to its end: receipts are read, its cohort counted   *)
(* or rechecked (inspect_incremental, recheck_cohort).                     *)
LEMMA ChainInspects ==
  ASSUME ChainInv, CH!Inspect
  PROVE  ChainInv'
<1>1. PICK last \in 0..c5.head, from \in c5.start..c5.head, to \in c5.start..c5.head :
        /\ CH!MayInspect(last)
        /\ c2' = [c2 EXCEPT
             !.cohort = IF @ = CH!NoCohort
                        THEN CH!Frozen({l \in CH!Got(last) : l.block \in from..to}, from)
                        ELSE CH!Rechecked,
             !.logs = {l \in @ : l.block >= c5.start},
             !.read = {l \in @ \cup CH!Got(last) : l.block >= c5.start}]
  BY DEF CH!Inspect
<1>2. c5.phase = "cohort" /\ c5' = [c5 EXCEPT !.phase = "end"] /\ UNCHANGED <<c1, c3, c4, c6, c8>>
  BY DEF CH!Inspect
<1>3. ChainShape /\ ChainScanning
  BY <1>2 DEF ChainInv
<1>4. /\ c2 \in ChainDatabase /\ c2.logs \subseteq ChainLog /\ c2.read \subseteq ChainLog
      /\ c2.cohort \in ChainCohort /\ c5.head \in Nat /\ c5.start \in Nat /\ Len(c1) \in Nat
  BY <1>3 DEF ChainShape, ChainDatabase, ChainScan
<1> DEFINE got == CH!Got(last)
           buys == {l \in got : l.block \in from..to}
           cohort == IF c2.cohort = CH!NoCohort THEN CH!Frozen(buys, from) ELSE CH!Rechecked
           logs == {l \in c2.logs : l.block >= c5.start}
           read == {l \in c2.read \cup got : l.block >= c5.start}
           d == [logs |-> logs, read |-> read, block |-> c2.block, fork |-> c2.fork, cohort |-> cohort]
<1>5. c2' = d
  BY <1>1, <1>4 DEF ChainDatabase
<1>6. /\ got \subseteq c2.logs
      /\ \A l \in got : l \in ChainLog /\ c5.start <= l.block /\ l.block <= c5.head
      /\ ChainValid(c2) => \A l \in got \cup c2.read : CH!Canonical(l.block, l.fork)
  BY <1>1, <1>3, GotLogs
<1>7. ChainSound(c2) /\ c5.start >= 1
  BY <1>3 DEF ChainScanning
<1>8. IsFiniteSet(c2.logs)
  BY <1>7 DEF ChainSound
<1>9. buys \in SUBSET ChainLog /\ IsFiniteSet(buys) /\ from \in Nat /\ from >= 1
  <2> HIDE DEF got
  <2>1. buys \in SUBSET c2.logs
    BY <1>6
  <2>2. IsFiniteSet(buys)
    BY <1>8, <2>1, FS_Subset, Zenon
  <2> QED BY <1>4, <1>7, <2>1, <2>2
<1> HIDE DEF got, buys
<1>10. /\ CH!Frozen(buys, from) \in ChainCohort
       /\ CH!Frozen(buys, from) # CH!NoCohort =>
            /\ CH!Frozen(buys, from).from = from /\ CH!Frozen(buys, from).block = c5.head
            /\ CH!Frozen(buys, from).bought = 2 * Cardinality(buys)
            /\ CH!Frozen(buys, from).lower <= CH!Less(2 * Cardinality(buys), CH!Spent(from, c5.head))
            /\ CH!Frozen(buys, from).lower <= CH!Balance(c5.head)
  BY <1>3, <1>9, FrozenProven
<1>11. /\ CH!Rechecked \in ChainCohort
       /\ CH!Rechecked = c2.cohort \/ CH!Rechecked.block = c5.head
       /\ CohortProven(c2.cohort) /\ c5.head <= Len(c1) => CohortProven(CH!Rechecked)
  BY <1>3, RecheckedProven
<1>12. c5.head <= Len(c1)
  BY <1>1 DEF CH!MayInspect
<1>13. cohort \in ChainCohort /\ (cohort = c3.cohort \/ cohort.block <= c5.head)
  <2>1. c2.cohort = c3.cohort \/ c2.cohort.block <= c5.head
    BY <1>3 DEF ChainScanning
  <2> QED BY <1>4, <1>10, <1>11, <2>1, NoCohortShape
<1>14. ASSUME ChainValid(c2), cohort # CH!NoCohort
       PROVE  CohortProven(cohort)
  <2>1. CASE c2.cohort = CH!NoCohort
    <3>1. \A l \in buys : /\ from <= l.block /\ l.block <= c5.head /\ CH!Canonical(l.block, l.fork)
                          /\ c1[l.block].kind = "buy"
      <4> SUFFICES ASSUME NEW l \in buys
                   PROVE  /\ from <= l.block /\ l.block <= c5.head /\ CH!Canonical(l.block, l.fork)
                          /\ c1[l.block].kind = "buy"
        OBVIOUS
      <4>1. l \in got /\ l.block \in from..to
        BY DEF buys
      <4>2. l \in c2.logs /\ l.block \in Nat /\ l.block <= c5.head /\ CH!Canonical(l.block, l.fork)
        BY <1>6, <1>14, <4>1 DEF ChainLog
      <4> QED BY <1>7, <1>9, <4>1, <4>2 DEF ChainSound
    <3>2. 2 * Cardinality(buys) \in Nat /\ 2 * Cardinality(buys) <= CH!Bought(from, c5.head)
      <4>1. \A b \in Nat : (\A l \in buys : /\ from <= l.block /\ l.block <= b
                                            /\ CH!Canonical(l.block, l.fork)
                                            /\ c1[l.block].kind = "buy")
              => 2 * Cardinality(buys) \in Nat /\ 2 * Cardinality(buys) <= CH!Bought(from, b)
        BY <1>3, <1>9, LogsAreBuys
      <4> QED BY <1>4, <3>1, <4>1, Zenon
    <3> DEFINE c == CH!Frozen(buys, from)
    <3>3. cohort = c /\ c # CH!NoCohort
      BY <1>14, <2>1
    <3>4. /\ c.from = from /\ c.block = c5.head /\ c.bought = 2 * Cardinality(buys)
          /\ c.lower <= CH!Less(c.bought, CH!Spent(from, c5.head)) /\ c.lower <= CH!Balance(c5.head)
      BY <1>10, <3>3
    <3> HIDE DEF c, cohort
    <3> QED BY <1>9, <1>12, <3>2, <3>3, <3>4 DEF CohortProven
  <2>2. CASE c2.cohort # CH!NoCohort
    BY <1>11, <1>12, <1>14, <2>2 DEF ChainValid
  <2> QED BY <2>1, <2>2
<1> HIDE DEF cohort
<1>15. /\ d \in ChainDatabase /\ d.logs \subseteq c2.logs /\ d.read \subseteq c2.read \cup got
       /\ d.block = c2.block /\ d.fork = c2.fork /\ d.cohort = cohort
  <2>1. logs \subseteq ChainLog /\ read \subseteq ChainLog
    BY <1>4, <1>6
  <2> QED BY <1>4, <1>13, <2>1 DEF ChainDatabase
<1> HIDE DEF d
<1>16. ChainSound(d)
  <2>1. IsFiniteSet(d.logs)
    BY <1>8, <1>15, FS_Subset
  <2> QED BY <1>6, <1>7, <1>15, <2>1 DEF ChainSound
<1>17. ChainValid(c2) => ChainValid(d)
  BY <1>6, <1>14, <1>15 DEF ChainValid
<1>18. "saved" \notin c8 /\ CH!Canonical(c5.head, c5.fork) /\ CH!Canonical(d.block, d.fork)
         => ChainValid(d)
  BY <1>3, <1>15, <1>17 DEF ChainScanning
<1>19. ~(c3.block > c5.head)
  BY <1>2, <1>3, <1>4 DEF ChainScanning, ChainShape, ChainDatabase
<1>20. \A l \in d.read : l \in c3.read \/ l.block <= c5.head
  BY <1>3, <1>6, <1>15 DEF ChainScanning
<1>21. ChainLeft(d)
  BY <1>2, <1>5 DEF ChainLeft
<1> QED BY <1>2, <1>13, <1>15, <1>16, <1>18, <1>19, <1>20, <1>21, ChainLeaves

(* A pool that fails keeps the receipts that it read.                      *)
LEMMA ChainPoolFails ==
  ASSUME ChainInv, CH!PoolFails
  PROVE  ChainInv'
<1>1. /\ c5.phase # "idle" /\ c5' = [c5 EXCEPT !.phase = "end"] /\ UNCHANGED <<c1, c3, c4, c6, c8>>
      /\ \/ c2' = c2
         \/ \E last \in c5.start..c5.head :
              /\ c5.phase = "cohort" /\ CH!MayInspect(last)
              /\ c2' = [c2 EXCEPT !.read = @ \cup CH!Got(last)]
  BY DEF CH!PoolFails
<1>2. ChainShape /\ ChainScanning
  BY <1>1 DEF ChainInv
<1>3. c2 \in ChainDatabase /\ c2.read \subseteq ChainLog /\ c5.head \in Nat /\ c5.start \in Nat
  BY <1>2 DEF ChainShape, ChainDatabase, ChainScan
<1>4. CASE c2' = c2
  <2>1. ChainLeft(c2)
    BY <1>1, <1>4 DEF ChainLeft
  <2> QED BY <1>1, <1>2, <1>3, <2>1, ChainLeaves DEF ChainScanning
<1>5. CASE \E last \in c5.start..c5.head :
             /\ c5.phase = "cohort" /\ CH!MayInspect(last)
             /\ c2' = [c2 EXCEPT !.read = @ \cup CH!Got(last)]
  <2>1. PICK last \in c5.start..c5.head :
          /\ c5.phase = "cohort" /\ CH!MayInspect(last)
          /\ c2' = [c2 EXCEPT !.read = @ \cup CH!Got(last)]
    BY <1>5
  <2> DEFINE got == CH!Got(last)
             d == [logs |-> c2.logs, read |-> c2.read \cup got, block |-> c2.block, fork |-> c2.fork,
                   cohort |-> c2.cohort]
  <2>2. last \in 0..c5.head
    BY <1>3
  <2>3. /\ got \subseteq c2.logs
        /\ \A l \in got : l \in ChainLog /\ c5.start <= l.block /\ l.block <= c5.head
        /\ ChainValid(c2) => \A l \in got \cup c2.read : CH!Canonical(l.block, l.fork)
    BY <1>2, <2>1, <2>2, GotLogs
  <2>4. c2' = d
    BY <1>3, <2>1 DEF ChainDatabase
  <2> HIDE DEF got
  <2>5. /\ d \in ChainDatabase /\ d.logs = c2.logs /\ d.read = c2.read \cup got
        /\ d.block = c2.block /\ d.fork = c2.fork /\ d.cohort = c2.cohort
    BY <1>3, <2>3 DEF ChainDatabase
  <2> HIDE DEF d
  <2>6. ChainSound(d)
    BY <1>2, <2>3, <2>5 DEF ChainSound, ChainScanning
  <2>7. ChainValid(c2) => ChainValid(d)
    BY <2>3, <2>5 DEF ChainValid
  <2>8. "saved" \notin c8 /\ CH!Canonical(c5.head, c5.fork) /\ CH!Canonical(d.block, d.fork)
          => ChainValid(d)
    BY <1>2, <2>5, <2>7 DEF ChainScanning
  <2>9. ~(c3.block > c5.head)
    BY <1>2, <1>3, <2>1 DEF ChainScanning, ChainShape, ChainDatabase
  <2>10. \A l \in d.read : l \in c3.read \/ l.block <= c5.head
    BY <1>2, <2>3, <2>5 DEF ChainScanning
  <2>11. ChainLeft(d) /\ (d.cohort = c3.cohort \/ d.cohort.block <= c5.head)
    BY <1>1, <1>2, <2>4, <2>5 DEF ChainLeft, ChainScanning
  <2> QED BY <1>1, <2>5, <2>6, <2>8, <2>9, <2>10, <2>11, ChainLeaves
<1> QED BY <1>1, <1>4, <1>5

(* Between scans the chain stands and both databases are kept ones.        *)
LEMMA ChainRests ==
  ASSUME ChainShape, UNCHANGED <<c1, c6>>, c5' = CH!NoScan, c2' = c3',
         c3' \in ChainDatabase, c4' \in ChainDatabase, ChainSound(c3'), ChainSound(c4'),
         "saved" \notin c8' /\ CH!Canonical(c3'.block, c3'.fork) => ChainValid(c3'),
         "backup" \notin c8' /\ CH!Canonical(c4'.block, c4'.fork) => ChainValid(c4')
  PROVE  ChainInv'
<1>1. CH!NoScan \in ChainScan /\ CH!NoScan.phase = "idle"
  BY DEF CH!NoScan, ChainScan
<1>2. ChainShape'
  BY <1>1 DEF ChainShape
<1>3. /\ \A b, f : CH!Canonical(b, f)' <=> CH!Canonical(b, f)
      /\ \A d : (ChainSound(d)' <=> ChainSound(d)) /\ (ChainValid(d)' <=> ChainValid(d))
  BY ChainStands
<1>4. ChainKept(c3, "saved")' /\ ChainKept(c4, "backup")'
  BY <1>3 DEF ChainKept
<1> QED BY <1>1, <1>2, <1>4 DEF ChainInv

(* The scan ends, and its database is the one that is published.           *)
LEMMA ChainEnds ==
  ASSUME ChainInv, CH!Finish \/ CH!Crash
  PROVE  ChainInv'
<1>1. c5.phase # "idle" /\ c5' = CH!NoScan /\ UNCHANGED <<c1, c4, c6, c8>>
  BY DEF CH!Finish, CH!Crash
<1>2. ChainShape /\ ChainKept(c3, "saved") /\ ChainKept(c4, "backup") /\ ChainScanning
  BY <1>1 DEF ChainInv
<1>3. \/ CH!Canonical(c5.head, c5.fork) /\ c3' = c2 /\ c2' = c2
      \/ c2' = c3 /\ c3' = c3
  BY DEF CH!Finish, CH!Crash
<1>4. /\ ChainSound(c2)
      /\ CH!Canonical(c5.head, c5.fork) => ChainKept(c2, "saved")
  BY <1>2 DEF ChainKept, ChainScanning
<1>5. c2 \in ChainDatabase /\ c3 \in ChainDatabase /\ c4 \in ChainDatabase
  BY <1>2 DEF ChainShape
<1> QED BY <1>1, <1>2, <1>3, <1>4, <1>5, ChainRests DEF ChainKept

(* A copy of the database is made, or takes its place.                     *)
LEMMA ChainCopies ==
  ASSUME ChainInv, CH!Backup \/ CH!Restore
  PROVE  ChainInv'
<1>1. c5.phase = "idle" /\ UNCHANGED <<c1, c5, c6>>
  BY DEF CH!Backup, CH!Restore
<1>2. ChainShape /\ ChainKept(c3, "saved") /\ ChainKept(c4, "backup") /\ c2 = c3
  BY <1>1 DEF ChainInv
<1>3. /\ c2' = c3' /\ c3' = c4'
      /\ \/ c3' = c3 /\ ("saved" \in c8 => {"saved", "backup"} \subseteq c8')
         \/ c3' = c4 /\ ("backup" \in c8 => {"saved", "backup"} \subseteq c8')
  BY <1>2 DEF CH!Backup, CH!Restore
<1>4. ChainShape'
  BY <1>1, <1>2, <1>3 DEF ChainShape
<1>5. ChainKept(c3, "saved")' /\ ChainKept(c4, "backup")'
  <2>1. /\ \A b, f : CH!Canonical(b, f)' <=> CH!Canonical(b, f)
        /\ \A d : (ChainSound(d)' <=> ChainSound(d)) /\ (ChainValid(d)' <=> ChainValid(d))
    BY <1>1, ChainStands
  <2>2. \A name \in {"saved", "backup"} :
          ChainSound(c3') /\ (name \notin c8' /\ CH!Canonical(c3'.block, c3'.fork) => ChainValid(c3'))
    BY <1>2, <1>3 DEF ChainKept
  <2> QED BY <1>3, <2>1, <2>2 DEF ChainKept
<1> QED BY <1>1, <1>3, <1>4, <1>5 DEF ChainInv

(* Every step of the chain and of the scan.                                *)
LEMMA ChainStep ==
  ASSUME ChainInv, CH!Next
  PROVE  ChainInv'
<1>1. CASE CH!Reorganize \/ \E kind \in ChainMined : CH!Mine(kind)
  BY <1>1, ChainMoves
<1>2. CASE CH!Begin
  BY <1>2, ChainBegins
<1>3. CASE CH!ReadLogs
  BY <1>3, ChainReads
<1>4. CASE CH!Checkpoint
  BY <1>4, ChainCheckpoints
<1>5. CASE CH!Inspect
  BY <1>5, ChainInspects
<1>6. CASE CH!PoolFails
  BY <1>6, ChainPoolFails
<1>7. CASE CH!Finish \/ CH!Crash
  BY <1>7, ChainEnds
<1>8. CASE CH!Backup \/ CH!Restore
  BY <1>8, ChainCopies
<1> QED BY <1>1, <1>2, <1>3, <1>4, <1>5, <1>6, <1>7, <1>8 DEF CH!Next

(* The steps of the other parts leave the chain as it is.                  *)
LEMMA ChainStutters ==
  ASSUME ChainInv, UNCHANGED <<c1, c2, c3, c4, c5, c6, c8>>
  PROVE  ChainInv'
<1>1. ChainShape'
  BY DEF ChainInv, ChainShape
<1>2. ChainKept(c3, "saved")' /\ ChainKept(c4, "backup")'
  BY ChainStands DEF ChainInv
<1>3. ASSUME ChainScanning PROVE ChainScanning'
  <2>1. /\ \A b, f : (Known(b, f)' <=> Known(b, f)) /\ (CH!Canonical(b, f)' <=> CH!Canonical(b, f))
        /\ \A d : (ChainSound(d)' <=> ChainSound(d)) /\ (ChainValid(d)' <=> ChainValid(d))
    BY ChainStands
  <2> QED BY <1>3, <2>1 DEF ChainScanning
<1> QED BY <1>1, <1>2, <1>3 DEF ChainInv

(* It is claimed of behaviours of this part only.                          *)
PartChain == part = "chain" => ChainInv

(* What the database says a buyer provably kept is no more than what the   *)
(* chain proves, wherever its history checkpoint is on the chain (scan,    *)
(* inspect_incremental, recheck_cohort, Store.finish): however pools fail, *)
(* jobs die, daily copies are restored and blocks are replaced under the   *)
(* scans, unless a loss of blocks that the database has used left its      *)
(* checkpoint in place; for every depth of confirmation, window, range of  *)
(* logs and threshold.                                                     *)
THEOREM KeptIsProvenOnTheChain == Spec => []KeptIsProven
<1>1. Init => PartChain
  <2>1. Init /\ part = "chain" => CH!Init
    BY DEF Init
  <2> QED BY <2>1, ChainInit DEF PartChain
<1>2. PartChain /\ [Next]_<<part, c1, c2, c3, c4, c5, c6, c7, c8, c9, c10>> => PartChain'
  <2> SUFFICES ASSUME PartChain, [Next]_<<part, c1, c2, c3, c4, c5, c6, c7, c8, c9, c10>>, part' = "chain"
               PROVE  ChainInv'
    BY DEF PartChain
  <2>1. part = "chain" /\ ChainInv
    BY DEF Next, PartChain
  <2>2. CASE UNCHANGED <<part, c1, c2, c3, c4, c5, c6, c7, c8, c9, c10>>
    BY <2>1, <2>2, ChainStutters
  <2>3. CASE Next
    <3>1. CH!Next
      BY <2>1, <2>3 DEF Next
    <3> QED BY <2>1, <3>1, ChainStep
  <2> QED BY <2>2, <2>3
<1>3. PartChain => KeptIsProven
  BY DEF PartChain, ChainInv, ChainKept, ChainValid, CohortProven, KeptIsProven, CH!KeptIsProven,
         CH!Proven
<1> QED BY <1>1, <1>2, <1>3, PTL DEF Spec

-----------------------------------------------------------------------------
(* RecoveryPoints: published copies survive.                               *)

(* A release of the repository and a run of the backup.                    *)
RecoveryRelease == [state : {"none", "draft", "published"}, marked : BOOLEAN,
                    assets : SUBSET RE!Assets, whole : BOOLEAN]
RecoveryJob == [step : RE!Steps, want : [RecoveryParts -> Nat], copy : [RecoveryParts -> Nat],
                todo : SUBSET RecoveryParts, live : BOOLEAN, doomed : SUBSET RE!Ids]

(* The variables have their shape; a run's number is that of its release.  *)
RecoveryShape ==
    /\ c1 \in RE!Kinds /\ c2 \in [RecoveryParts -> Nat] /\ c3 \in RecoveryJob
    /\ c4 \in [RE!Ids -> RecoveryRelease]
    /\ c7 \in Nat /\ c8 \in 0..RecoveryRuns /\ c10 \in Nat
    /\ c3.step # "idle" => c8 >= 1
    /\ \A i \in RE!Ids : i > c8 => c4[i] = RE!NoRelease

(* How far the release of the run is at each of its steps.                 *)
Unmarked == {"read", "draft", "first", "second", "mark", "discard"}
RecoveryCourse ==
    /\ \A p \in RecoveryParts \ c3.todo : c3.copy[p] = c3.want[p]
    /\ c3.step = "draft" => c3.todo = {}
    /\ c3.step \in {"read", "draft"} => c4[c8] = RE!NoRelease
    /\ c3.step \in {"first", "second", "mark"} => c4[c8].whole
    /\ c3.step = "second" => RE!Asset("first") \in c4[c8].assets
    /\ c3.step = "mark" => c4[c8].assets = RE!Assets
    /\ c3.step \in Unmarked => ~c4[c8].marked
    /\ c3.step = "publish" => c4[c8].marked

(* A marked release is a whole copy.                                       *)
MarkedIsWhole == \A i \in RE!Ids : c4[i].marked => c4[i].assets = RE!Assets /\ c4[i].whole

(* Copies that a prune has not doomed and that the run did not make.       *)
Enough(n) == n >= RecoveryKeep \/ n >= c10
Staying == IF c3.step = "prune" THEN RE!Owned \ c3.doomed
           ELSE IF c3.step \in Unmarked \cup {"publish"} THEN RE!Owned \ {c8}
           ELSE RE!Owned

(* The invariant of the recovery points.                                   *)
RecoveryInv ==
    /\ RecoveryShape /\ RecoveryCourse /\ MarkedIsWhole
    /\ c3.step # "prune" => c3.doomed = {}
    /\ Enough(Cardinality(Staying))

(* Cardinality in the part is Cardinality.                                 *)
LEMMA RecoveryCardinality ==
  ASSUME NEW S
  PROVE  RE!Cardinality(S) = Cardinality(S)
BY Zenon DEF RE!Cardinality, Cardinality

(* The releases are finitely many, and there are no more of a part of      *)
(* them.                                                                   *)
LEMMA CopiesAreCounted ==
  /\ IsFiniteSet(RE!Ids)
  /\ \A S \in SUBSET RE!Ids : IsFiniteSet(S) /\ Cardinality(S) \in Nat
  /\ \A T \in SUBSET RE!Ids : \A S \in SUBSET T : Cardinality(S) <= Cardinality(T)
<1>1. IsFiniteSet(RE!Ids)
  BY FS_Interval, RecoveryAssumption DEF RE!Ids
<1>2. \A S \in SUBSET RE!Ids : IsFiniteSet(S) /\ Cardinality(S) \in Nat
  BY <1>1, FS_Subset, FS_CardinalityType
<1>3. \A T \in SUBSET RE!Ids : \A S \in SUBSET T : Cardinality(S) <= Cardinality(T)
  <2> SUFFICES ASSUME NEW T \in SUBSET RE!Ids, NEW S \in SUBSET T PROVE Cardinality(S) <= Cardinality(T)
    OBVIOUS
  <2> QED BY <1>2, FS_Subset
<1> QED BY <1>1, <1>2, <1>3

(* Where nothing is taken away enough stays.                               *)
LEMMA EnoughStays ==
  ASSUME NEW T \in SUBSET RE!Ids, NEW S \in SUBSET T, c10 \in Nat, Enough(Cardinality(S)), c10' = c10
  PROVE  Cardinality(T) >= RecoveryKeep \/ Cardinality(T) >= c10'
<1>1. Cardinality(S) \in Nat /\ Cardinality(T) \in Nat /\ Cardinality(S) <= Cardinality(T)
  BY CopiesAreCounted
<1> QED BY <1>1, RecoveryAssumption DEF Enough

(* The copies kept are the newest, up to Keep of them.                     *)
LEMMA PreservedAreEnough ==
  ASSUME RecoveryShape, c8 \in RE!Owned
  PROVE  /\ RE!Preserved \in SUBSET RE!Owned
         /\ Enough(Cardinality(RE!Owned)) => Enough(Cardinality(RE!Preserved))
<1> DEFINE Newer(i) == {j \in RE!Owned : j > i \/ j = c8}
<1>1. RE!Preserved \in SUBSET RE!Owned /\ RE!Owned \in SUBSET RE!Ids
  BY DEF RE!Preserved, RE!Owned
<1>2. \A i \in RE!Owned : i \in RE!Preserved <=> i = c8 \/ Cardinality(Newer(i)) < RecoveryKeep
  BY RecoveryCardinality DEF RE!Preserved
<1>3. ASSUME RE!Preserved # RE!Owned
      PROVE  Cardinality(RE!Preserved) >= RecoveryKeep
  <2> DEFINE Lost == RE!Owned \ RE!Preserved
  <2>1. Lost \in SUBSET (0..RecoveryRuns) /\ Lost # {}
    <3>1. \A i \in RE!Ids : i \in 0..RecoveryRuns
      BY RecoveryAssumption DEF RE!Ids
    <3>2. Lost # {}
      BY <1>1, <1>3, Zenon
    <3> QED BY <1>1, <3>1, <3>2
  <2> HIDE DEF Lost
  <2>2. PICK m \in Lost : \A y \in Lost : m >= y
    BY <2>1, LargestNumber, RecoveryAssumption, Zenon
  <2>3. m \in RE!Owned /\ m \notin RE!Preserved
    BY <2>2 DEF Lost
  <2>4. c8 \in RE!Preserved
    BY <1>2
  <2>5. Newer(m) \in SUBSET RE!Preserved
    <3> SUFFICES ASSUME NEW j \in RE!Owned, j > m \/ j = c8 PROVE j \in RE!Preserved
      BY <1>1
    <3>1. CASE j = c8
      BY <2>4, <3>1
    <3>2. CASE j > m
      <4>1. j \in Nat /\ m \in Nat
        BY <1>1, <2>3 DEF RE!Ids
      <4>2. j \notin Lost
        BY <2>2, <3>2, <4>1
      <4> QED BY <4>2 DEF Lost
    <3> QED BY <3>1, <3>2
  <2>6. ~(Cardinality(Newer(m)) < RecoveryKeep)
    BY <1>2, <2>3
  <2> HIDE DEF Newer
  <2>7. /\ Cardinality(Newer(m)) <= Cardinality(RE!Preserved)
        /\ Cardinality(Newer(m)) \in Nat /\ Cardinality(RE!Preserved) \in Nat
    <3>1. RE!Preserved \in SUBSET RE!Ids /\ Newer(m) \in SUBSET RE!Ids
      BY <1>1, <2>5
    <3> QED BY <2>5, <3>1, CopiesAreCounted
  <2> QED BY <2>6, <2>7, RecoveryAssumption
<1> QED BY <1>1, <1>3 DEF Enough

(* A release that is not there.                                            *)
LEMMA NoReleaseShape ==
  RE!NoRelease \in RecoveryRelease /\ ~RE!NoRelease.marked /\ RE!NoRelease.state = "none"
BY DEF RE!NoRelease, RecoveryRelease

(* No run is under way.                                                    *)
LEMMA NoJobShape ==
  /\ RE!NoJob \in RecoveryJob /\ RE!NoJob.step = "idle" /\ RE!NoJob.doomed = {}
  /\ \A p \in RecoveryParts : RE!NoJob.copy[p] = RE!NoJob.want[p]
BY DEF RE!NoJob, RecoveryJob, RE!Steps

(* Before the first run there are no releases.                             *)
LEMMA RecoveryInit ==
  ASSUME RE!Init
  PROVE  RecoveryInv
<1>1. /\ c1 \in RE!Kinds /\ c2 = [p \in RecoveryParts |-> 0] /\ c3 = RE!NoJob
      /\ c4 = [i \in RE!Ids |-> RE!NoRelease] /\ c7 = 0 /\ c8 = 0 /\ c10 = 0
  BY DEF RE!Init
<1>2. RecoveryShape
  BY <1>1, NoReleaseShape, NoJobShape, RecoveryAssumption DEF RecoveryShape
<1>3. RecoveryCourse /\ MarkedIsWhole
  BY <1>1, NoReleaseShape, NoJobShape DEF RecoveryCourse, MarkedIsWhole, Unmarked
<1>4. Enough(Cardinality(Staying))
  <2>1. Staying \in SUBSET RE!Ids
    BY DEF Staying, RE!Owned
  <2>2. Cardinality(Staying) \in Nat
    BY <2>1, CopiesAreCounted
  <2> QED BY <1>1, <2>2 DEF Enough
<1> QED BY <1>1, <1>2, <1>3, <1>4, NoJobShape DEF RecoveryInv

(* A run that ends leaves the releases to the next.                        *)
LEMMA RecoveryEnds ==
  ASSUME RecoveryInv, c3' = RE!NoJob, UNCHANGED <<c1, c7, c8>>, c2' \in [RecoveryParts -> Nat],
         c4' \in [RE!Ids -> RecoveryRelease], \A i \in RE!Ids : i > c8 => c4'[i] = RE!NoRelease,
         MarkedIsWhole', c10' \in Nat,
         Cardinality(RE!Owned') >= RecoveryKeep \/ Cardinality(RE!Owned') >= c10'
  PROVE  RecoveryInv'
<1>1. RecoveryShape'
  BY NoJobShape DEF RecoveryInv, RecoveryShape, RE!NoRelease
<1>2. RecoveryCourse'
  BY NoJobShape DEF RecoveryCourse, Unmarked
<1>3. Staying' = RE!Owned'
  BY NoJobShape DEF Staying, Unmarked
<1>4. Enough(Cardinality(Staying))'
  BY <1>3 DEF Enough
<1> QED BY <1>1, <1>2, <1>4, NoJobShape DEF RecoveryInv

(* What stays is owned by the backup.                                      *)
LEMMA StayingOwned ==
  Staying \in SUBSET RE!Owned /\ RE!Owned \in SUBSET RE!Ids
BY DEF Staying, RE!Owned

(* A run that is lost leaves all releases as they are.                     *)
LEMMA RecoveryStops ==
  ASSUME RecoveryInv, c3' = RE!NoJob, UNCHANGED <<c1, c2, c4, c7, c8, c10>>
  PROVE  RecoveryInv'
<1>1. RE!Owned' = RE!Owned
  BY DEF RE!Owned, RE!Ids
<1>2. Cardinality(RE!Owned) >= RecoveryKeep \/ Cardinality(RE!Owned) >= c10'
  BY StayingOwned, EnoughStays DEF RecoveryInv, RecoveryShape
<1>3. MarkedIsWhole'
  BY DEF MarkedIsWhole, RecoveryInv, RE!Assets, RE!Ids
<1> QED BY <1>1, <1>2, <1>3, RecoveryEnds DEF RecoveryInv, RecoveryShape

(* A run begins, alone.                                                    *)
LEMMA RecoveryBegins ==
  ASSUME RecoveryInv, RE!Begin
  PROVE  RecoveryInv'
<1>1. /\ c3.step = "idle" /\ c8 < RecoveryRuns /\ c8' = c8 + 1 /\ UNCHANGED <<c1, c2, c4, c7, c10>>
      /\ c3' = [RE!NoJob EXCEPT !.step = "read", !.want = c2, !.todo = RecoveryParts, !.live = TRUE]
  BY DEF RE!Begin, RE!Store
<1>2. RecoveryShape /\ MarkedIsWhole
  BY DEF RecoveryInv
<1>3. /\ c3' \in RecoveryJob /\ c3'.step = "read" /\ c3'.todo = RecoveryParts /\ c3'.doomed = {}
  BY <1>1, <1>2 DEF RE!NoJob, RecoveryJob, RecoveryShape, RE!Steps
<1>4. c8' \in RE!Ids /\ c8' \in 0..RecoveryRuns /\ c8' >= 1 /\ c8' > c8
  BY <1>1, <1>2, RecoveryAssumption DEF RecoveryShape, RE!Ids
<1>5. \A i \in RE!Ids : i > c8' => i > c8
  BY <1>1, <1>2 DEF RecoveryShape, RE!Ids
<1>6. RecoveryShape'
  BY <1>1, <1>2, <1>3, <1>4, <1>5 DEF RecoveryShape
<1>7. c4'[c8'] = RE!NoRelease
  BY <1>1, <1>2, <1>4 DEF RecoveryShape
<1>8. RecoveryCourse'
  BY <1>3, <1>7, NoReleaseShape DEF RecoveryCourse, Unmarked, RE!NoRelease
<1>9. MarkedIsWhole'
  BY <1>1, <1>2 DEF MarkedIsWhole, RE!Assets, RE!Ids
<1>10. Staying = RE!Owned /\ Staying' = RE!Owned' \ {c8'} /\ RE!Owned' = RE!Owned
  BY <1>1, <1>3 DEF Staying, Unmarked, RE!Owned, RE!Ids
<1>11. Staying' = Staying
  <2>1. c8' \notin RE!Owned'
    BY <1>7, NoReleaseShape DEF RE!Owned
  <2> QED BY <1>10, <2>1
<1>12. Enough(Cardinality(Staying))'
  BY <1>1, <1>11 DEF RecoveryInv, Enough
<1> QED BY <1>3, <1>6, <1>8, <1>9, <1>12 DEF RecoveryInv

(* A step that changes neither the releases nor the run.                   *)
LEMMA RecoveryGoesOn ==
  ASSUME RecoveryInv, UNCHANGED <<c1, c4, c8, c10>>, c7' \in Nat, c2' \in [RecoveryParts -> Nat],
         c3' \in RecoveryJob, c3'.doomed = c3.doomed, RecoveryCourse',
         c3.step # "idle" \/ c3'.step = "idle",
         c3.step \in Unmarked \cup {"publish"} \/ c3'.step = c3.step,
         c3'.step = "prune" <=> c3.step = "prune"
  PROVE  RecoveryInv'
<1>1. RecoveryShape'
  BY DEF RecoveryInv, RecoveryShape, RE!Ids, RE!NoRelease, RE!Kinds
<1>2. MarkedIsWhole'
  BY DEF MarkedIsWhole, RecoveryInv, RE!Assets, RE!Ids
<1>3. RE!Owned' = RE!Owned
  BY DEF RE!Owned, RE!Ids
<1>4. Staying \in SUBSET Staying' /\ Staying' \in SUBSET RE!Ids
  BY <1>3, StayingOwned DEF Staying, Unmarked
<1>5. Enough(Cardinality(Staying))'
  BY <1>4, EnoughStays DEF RecoveryInv, RecoveryShape, Enough
<1> QED BY <1>1, <1>2, <1>5 DEF RecoveryInv


(* A part of the data changes at its source.                               *)
LEMMA RecoverySource ==
  ASSUME RecoveryInv, RE!WriteSource
  PROVE  RecoveryInv'
<1>1. UNCHANGED <<c1, c3, c4, c8, c10>> /\ c7' = c7 + 1
  BY DEF RE!WriteSource, RE!Store
<1>2. RecoveryShape /\ RecoveryCourse
  BY DEF RecoveryInv
<1>3. c7' \in Nat /\ c2' \in [RecoveryParts -> Nat] /\ c3 \in RecoveryJob
  BY <1>2 DEF RE!WriteSource, RecoveryShape
<1>4. RecoveryCourse'
  BY <1>1, <1>2 DEF RecoveryCourse, RE!Asset, RE!Assets, RE!NoRelease
<1> QED BY <1>1, <1>3, <1>4, RecoveryGoesOn

(* The run reads one part after another.                                   *)
LEMMA RecoveryReads ==
  ASSUME RecoveryInv, RE!Expire \/ \E p \in RecoveryParts : RE!Read(p)
  PROVE  RecoveryInv'
<1>1. c3.step = "read" /\ UNCHANGED <<c1, c2, c4, c7, c8, c10>>
  BY DEF RE!Expire, RE!Read, RE!Store
<1>2. RecoveryShape /\ RecoveryCourse /\ c3 \in RecoveryJob
  BY DEF RecoveryInv, RecoveryShape
<1>3. c4[c8] = RE!NoRelease
  BY <1>1, <1>2 DEF RecoveryCourse
<1>4. CASE RE!Expire
  <2>1. c3' = [c3 EXCEPT !.live = FALSE]
    BY <1>4 DEF RE!Expire
  <2>2. /\ c3' \in RecoveryJob /\ c3'.step = c3.step /\ c3'.todo = c3.todo /\ c3'.copy = c3.copy
        /\ c3'.want = c3.want /\ c3'.doomed = c3.doomed
    BY <1>2, <2>1 DEF RecoveryJob
  <2>3. RecoveryCourse'
    BY <1>1, <1>2, <1>3, <2>2, NoReleaseShape DEF RecoveryCourse, Unmarked, RE!NoRelease
  <2> QED BY <1>1, <1>2, <2>2, <2>3, RecoveryGoesOn DEF RecoveryShape, Unmarked
<1>5. ASSUME NEW p \in RecoveryParts, RE!Read(p) PROVE RecoveryInv'
  <2>1. CASE RE!Refused(p)
    <3>1. c3' = RE!NoJob
      BY <1>5, <2>1 DEF RE!Read
    <3> QED BY <1>1, <3>1, RecoveryStops
  <2>2. CASE ~RE!Refused(p)
    <3>1. RE!Answer(p) = c3.want[p]
      BY <2>2 DEF RE!Answer, RE!Refused, RE!Expired, RE!Changed
    <3> DEFINE step == IF c3.todo = {p} THEN "draft" ELSE "read"
               todo == c3.todo \ {p}
               copy == [c3.copy EXCEPT ![p] = c3.want[p]]
    <3>2. c3' = [c3 EXCEPT !.copy[p] = c3.want[p], !.todo = todo, !.step = step]
      BY <1>5, <2>2, <3>1 DEF RE!Read
    <3>3. copy \in [RecoveryParts -> Nat] /\ todo \subseteq RecoveryParts /\ step \in RE!Steps
      BY <1>2 DEF RecoveryJob, RE!Steps
    <3>4. /\ c3' \in RecoveryJob /\ c3'.step = step /\ c3'.todo = todo /\ c3'.copy = copy
          /\ c3'.want = c3.want /\ c3'.doomed = c3.doomed
      <4> HIDE DEF step, todo
      <4>1. c3' = [step |-> step, want |-> c3.want, copy |-> copy, todo |-> todo, live |-> c3.live,
                   doomed |-> c3.doomed]
        BY <1>2, <3>2 DEF RecoveryJob
      <4> HIDE DEF copy
      <4> QED BY <1>2, <3>3, <4>1 DEF RecoveryJob
    <3>5. \A q \in RecoveryParts \ todo : copy[q] = c3.want[q]
      BY <1>2 DEF RecoveryCourse, RecoveryJob
    <3>6. step \in {"read", "draft"} /\ (step = "draft" => todo = {})
      OBVIOUS
    <3> HIDE DEF step, todo, copy
    <3>7. RecoveryCourse'
      BY <1>1, <1>3, <3>4, <3>5, <3>6, NoReleaseShape DEF RecoveryCourse, Unmarked, RE!NoRelease
    <3> QED BY <1>1, <1>2, <3>4, <3>6, <3>7, RecoveryGoesOn DEF RecoveryShape, Unmarked
  <2> QED BY <2>1, <2>2
<1> QED BY <1>4, <1>5

(* What a request to the repository that fails leaves: the run ends, or    *)
(* goes on where it was.                                                   *)
LEMMA RecoveryFails ==
  ASSUME RecoveryInv, NEW step \in RE!Steps, c3.step = step, step # "idle", step # "prune",
         UNCHANGED <<c1, c2, c4, c7, c8, c10>>, c3' = RE!Failed(step)
  PROVE  RecoveryInv'
<1>1. CASE c3' = RE!NoJob
  BY <1>1, RecoveryStops
<1>2. CASE step \in {"first", "second"} /\ c3' = [c3 EXCEPT !.step = "discard"]
  <2>1. RecoveryShape /\ RecoveryCourse /\ c3 \in RecoveryJob
    BY DEF RecoveryInv, RecoveryShape
  <2>2. /\ c3' \in RecoveryJob /\ c3'.step = "discard" /\ c3'.todo = c3.todo /\ c3'.copy = c3.copy
        /\ c3'.want = c3.want /\ c3'.doomed = c3.doomed
    BY <1>2, <2>1 DEF RecoveryJob, RE!Steps
  <2>3. ~c4[c8].marked
    BY <1>2, <2>1 DEF RecoveryCourse, Unmarked
  <2>4. RecoveryCourse'
    BY <2>1, <2>2, <2>3 DEF RecoveryCourse, Unmarked
  <2> QED BY <1>2, <2>1, <2>2, <2>4, RecoveryGoesOn DEF RecoveryShape, Unmarked
<1> QED BY <1>1, <1>2 DEF RE!Failed

(* What a mark says of a release.                                          *)
WholeIfMarked(rel) == rel.marked => rel.assets = RE!Assets /\ rel.whole

(* A step that changes the release of its own run only, and does not mark  *)
(* it, leaves the others whole.                                            *)
LEMMA OwnRelease ==
  ASSUME RecoveryInv, c3.step # "idle", NEW rel \in RecoveryRelease, WholeIfMarked(rel),
         c4' = [c4 EXCEPT ![c8] = rel], UNCHANGED <<c1, c8>>
  PROVE  /\ c8 \in RE!Ids /\ c4' \in [RE!Ids -> RecoveryRelease] /\ c4'[c8] = rel
         /\ \A i \in RE!Ids : i > c8 => c4'[i] = RE!NoRelease
         /\ MarkedIsWhole' /\ RE!Owned' \ {c8} = RE!Owned \ {c8}
         /\ c8 \in RE!Owned' <=> rel.marked /\ (rel.state = "published" \/ c1 = "storage")
         /\ RE!Owned' \in SUBSET RE!Ids
<1>1. c8 \in RE!Ids /\ c8 \in Nat /\ c4 \in [RE!Ids -> RecoveryRelease]
  BY RecoveryAssumption DEF RecoveryInv, RecoveryShape, RE!Ids
<1>2. c4' \in [RE!Ids -> RecoveryRelease] /\ c4'[c8] = rel /\ \A i \in RE!Ids \ {c8} : c4'[i] = c4[i]
  BY <1>1
<1>3. \A i \in RE!Ids : i > c8 => c4'[i] = RE!NoRelease
  <2> SUFFICES ASSUME NEW i \in RE!Ids, i > c8 PROVE c4'[i] = RE!NoRelease
    OBVIOUS
  <2>1. i # c8
    BY <1>1 DEF RE!Ids
  <2> QED BY <1>2, <2>1 DEF RecoveryInv, RecoveryShape
<1>4. MarkedIsWhole'
  BY <1>2 DEF RecoveryInv, MarkedIsWhole, WholeIfMarked, RE!Ids, RE!Assets
<1>5. \A i \in RE!Ids \ {c8} : i \in RE!Owned' <=> i \in RE!Owned
  BY <1>2 DEF RE!Owned, RE!Ids
<1>6. RE!Owned \in SUBSET RE!Ids /\ RE!Owned' \in SUBSET RE!Ids
  BY DEF RE!Owned, RE!Ids
<1>7. c8 \in RE!Owned' <=> rel.marked /\ (rel.state = "published" \/ c1 = "storage")
  BY <1>1, <1>2 DEF RE!Owned, RE!Ids
<1> QED BY <1>1, <1>2, <1>3, <1>4, <1>5, <1>6, <1>7

(* What such a step leaves of the invariant.                               *)
LEMMA RecoveryChanges ==
  ASSUME RecoveryInv, c3.step \in Unmarked \cup {"publish"},
         NEW rel \in RecoveryRelease, WholeIfMarked(rel), c4' = [c4 EXCEPT ![c8] = rel],
         UNCHANGED <<c1, c2, c7, c8, c10>>, c3' \in RecoveryJob, c3'.doomed = {},
         c3'.step # "prune", RecoveryCourse'
  PROVE  RecoveryInv'
<1>1. c3.step # "idle" /\ c3.step # "prune"
  BY DEF Unmarked
<1>2. /\ c4' \in [RE!Ids -> RecoveryRelease] /\ \A i \in RE!Ids : i > c8 => c4'[i] = RE!NoRelease
      /\ MarkedIsWhole' /\ RE!Owned' \ {c8} = RE!Owned \ {c8} /\ RE!Owned' \in SUBSET RE!Ids
  BY <1>1, OwnRelease
<1>3. RecoveryShape'
  BY <1>1, <1>2 DEF RecoveryInv, RecoveryShape, RE!Ids, RE!NoRelease, RE!Kinds
<1>4. Staying = RE!Owned \ {c8}
  BY <1>1 DEF Staying
<1>5. Staying \in SUBSET Staying' /\ Staying' \in SUBSET RE!Ids
  BY <1>2, <1>4 DEF Staying, Unmarked
<1>6. Enough(Cardinality(Staying))'
  BY <1>5, EnoughStays DEF RecoveryInv, RecoveryShape, Enough
<1> QED BY <1>2, <1>3, <1>6 DEF RecoveryInv

(* The job goes to another step, the rest of it as it is.                  *)
LEMMA JobGoes ==
  ASSUME RecoveryShape, NEW step \in RE!Steps, c3' = [c3 EXCEPT !.step = step]
  PROVE  /\ c3' \in RecoveryJob /\ c3'.step = step /\ c3'.todo = c3.todo /\ c3'.copy = c3.copy
         /\ c3'.want = c3.want /\ c3'.doomed = c3.doomed
BY DEF RecoveryJob, RecoveryShape

(* A draft is made for the run.                                            *)
LEMMA RecoveryDrafts ==
  ASSUME RecoveryInv, RE!Draft
  PROVE  RecoveryInv'
<1> DEFINE rel == [c4[c8] EXCEPT !.state = "draft", !.whole = c3.copy = c3.want]
<1>1. /\ c3.step = "draft" /\ UNCHANGED <<c1, c2, c7, c8, c10>>
      /\ \/ c4' = [c4 EXCEPT ![c8] = rel] /\ c3' = RE!To("first")
         \/ c4' = c4 /\ c3' = RE!Failed("draft")
         \/ c4' = [c4 EXCEPT ![c8] = rel] /\ c3' = RE!Failed("draft")
  BY DEF RE!Draft, RE!Request
<1>2. RecoveryShape /\ RecoveryCourse /\ c3 \in RecoveryJob /\ c3.doomed = {}
  BY <1>1 DEF RecoveryInv, RecoveryShape
<1>3. c3.copy = c3.want /\ c4[c8] = RE!NoRelease
  BY <1>1, <1>2 DEF RecoveryCourse, RecoveryJob
<1>4. rel \in RecoveryRelease /\ rel.whole /\ ~rel.marked
  <2>1. (c3.copy = c3.want) = TRUE
    BY <1>3
  <2>2. rel = [RE!NoRelease EXCEPT !.state = "draft", !.whole = TRUE]
    BY <1>3, <2>1
  <2> HIDE DEF rel
  <2>3. rel = [state |-> "draft", marked |-> FALSE, assets |-> {}, whole |-> TRUE]
    BY <2>2 DEF RE!NoRelease
  <2> QED BY <2>3 DEF RecoveryRelease
<1> HIDE DEF rel
<1>5. CASE c4' = c4 /\ c3' = RE!Failed("draft")
  BY <1>1, <1>5, RecoveryFails DEF RE!Steps
<1>6. ASSUME c4' = [c4 EXCEPT ![c8] = rel] PROVE RecoveryInv'
  <2>1. c4'[c8] = rel
    BY <1>1, <1>4, <1>6, OwnRelease DEF WholeIfMarked
  <2>2. CASE c3' = RE!To("first")
    <3>1. /\ c3' \in RecoveryJob /\ c3'.step = "first" /\ c3'.todo = c3.todo /\ c3'.copy = c3.copy
          /\ c3'.want = c3.want /\ c3'.doomed = {}
      BY <1>2, <2>2, JobGoes DEF RE!To, RE!Steps
    <3>2. RecoveryCourse'
      BY <1>1, <1>2, <1>4, <2>1, <3>1 DEF RecoveryCourse, Unmarked
    <3> QED BY <1>1, <1>4, <1>6, <3>1, <3>2, RecoveryChanges DEF WholeIfMarked, Unmarked
  <2>3. CASE c3' = RE!Failed("draft")
    <3>1. c3' = RE!NoJob
      BY <2>3 DEF RE!Failed
    <3>2. RecoveryCourse'
      BY <3>1, NoJobShape DEF RecoveryCourse, Unmarked
    <3> QED BY <1>1, <1>4, <1>6, <3>1, <3>2, NoJobShape, RecoveryChanges DEF WholeIfMarked, Unmarked
  <2>4. c3' = RE!To("first") \/ c3' = RE!Failed("draft")
    BY <1>1
  <2> QED BY <2>2, <2>3, <2>4
<1> QED BY <1>1, <1>5, <1>6

(* An asset is uploaded, lost, or still on its way.                        *)
LEMMA RecoveryUploads ==
  ASSUME RecoveryInv, NEW step \in {"first", "second"}, RE!Upload(step)
  PROVE  RecoveryInv'
<1> DEFINE rel == [c4[c8] EXCEPT !.assets = @ \cup {RE!Asset(step)}]
           next == IF step = "first" THEN "second" ELSE "mark"
<1>1. /\ c3.step = step /\ UNCHANGED <<c1, c2, c7, c8, c10>>
      /\ \/ c4' = [c4 EXCEPT ![c8] = rel] /\ c3' = RE!To(next)
         \/ c4' = c4 /\ c3' = RE!Failed(step)
         \/ c4' = [c4 EXCEPT ![c8] = rel] /\ c3' = RE!Failed(step)
  <2>1. c8 \in RE!Ids
    BY RecoveryAssumption DEF RecoveryInv, RecoveryShape, RE!Ids, RE!Upload
  <2>2. [c4 EXCEPT ![c8].assets = @ \cup {RE!Asset(step)}] = [c4 EXCEPT ![c8] = rel]
    OBVIOUS
  <2> QED BY <2>2 DEF RE!Upload
<1>2. RecoveryShape /\ RecoveryCourse /\ c3 \in RecoveryJob /\ c3.doomed = {} /\ c8 \in RE!Ids
  BY <1>1, RecoveryAssumption DEF RecoveryInv, RecoveryShape, RE!Ids
<1>3. c4[c8] \in RecoveryRelease /\ c4[c8].whole /\ ~c4[c8].marked
  BY <1>1, <1>2 DEF RecoveryCourse, Unmarked, RecoveryShape
<1>4. RE!Asset(step) \in RE!Assets
  BY DEF RE!Asset, RE!Assets
<1>5. /\ rel \in RecoveryRelease /\ rel.whole /\ ~rel.marked
      /\ rel.assets = c4[c8].assets \cup {RE!Asset(step)}
  BY <1>3, <1>4 DEF RecoveryRelease
<1>6. step = "second" => rel.assets = RE!Assets
  <2>1. step = "second" => {RE!Asset("first"), RE!Asset("second")} \subseteq rel.assets
    BY <1>1, <1>2, <1>5 DEF RecoveryCourse
  <2>2. {RE!Asset("first"), RE!Asset("second")} = RE!Assets
    BY <1>2 DEF RE!Asset, RE!Assets, RecoveryShape, RE!Kinds
  <2>3. rel.assets \subseteq RE!Assets
    BY <1>5 DEF RecoveryRelease
  <2> QED BY <2>1, <2>2, <2>3
<1> HIDE DEF rel
<1>7. CASE c4' = c4 /\ c3' = RE!Failed(step)
  BY <1>1, <1>7, RecoveryFails DEF RE!Steps
<1>8. ASSUME c4' = [c4 EXCEPT ![c8] = rel] PROVE RecoveryInv'
  <2>1. c4'[c8] = rel
    BY <1>2, <1>8 DEF RecoveryShape
  <2>2. CASE c3' = RE!To(next)
    <3>1. /\ c3' \in RecoveryJob /\ c3'.step = next /\ c3'.todo = c3.todo /\ c3'.copy = c3.copy
          /\ c3'.want = c3.want /\ c3'.doomed = {}
      <4>1. next \in RE!Steps
        BY DEF RE!Steps
      <4> HIDE DEF next
      <4> QED BY <1>2, <2>2, <4>1, JobGoes DEF RE!To
    <3>2. next = "second" => step = "first" /\ RE!Asset("first")' \in rel.assets
      BY <1>1, <1>5 DEF RE!Asset
    <3>3. next = "mark" => rel.assets = RE!Assets'
      BY <1>6 DEF RE!Assets
    <3>4. next \in {"second", "mark"}
      OBVIOUS
    <3> HIDE DEF next
    <3>5. RecoveryCourse'
      BY <1>1, <1>2, <1>5, <2>1, <3>1, <3>2, <3>3, <3>4 DEF RecoveryCourse, Unmarked
    <3> QED BY <1>1, <1>5, <1>8, <3>1, <3>4, <3>5, RecoveryChanges DEF WholeIfMarked, Unmarked
  <2>3. CASE c3' = RE!Failed(step)
    <3>1. \/ c3' = RE!NoJob
          \/ c3' \in RecoveryJob /\ c3'.step = "discard" /\ c3'.doomed = {} /\ c3'.todo = c3.todo
             /\ c3'.copy = c3.copy /\ c3'.want = c3.want
      BY <1>2, <2>3, JobGoes DEF RE!Failed, RE!Steps
    <3>2. RecoveryCourse'
      BY <1>1, <1>2, <1>5, <2>1, <3>1, NoJobShape DEF RecoveryCourse, Unmarked
    <3>3. c3' \in RecoveryJob /\ c3'.doomed = {} /\ c3'.step # "prune"
      BY <3>1, NoJobShape
    <3> QED BY <1>1, <1>5, <1>8, <3>2, <3>3, RecoveryChanges DEF WholeIfMarked, Unmarked
  <2>4. c3' = RE!To(next) \/ c3' = RE!Failed(step)
    BY <1>1
  <2> QED BY <2>2, <2>3, <2>4
<1> QED BY <1>1, <1>7, <1>8

(* The release is marked when both of its assets are there.                *)
LEMMA RecoveryMarks ==
  ASSUME RecoveryInv, RE!Mark
  PROVE  RecoveryInv'
<1> DEFINE rel == [c4[c8] EXCEPT !.marked = TRUE]
<1>1. /\ c3.step = "mark" /\ UNCHANGED <<c1, c2, c7, c8, c10>>
      /\ \/ c4' = [c4 EXCEPT ![c8] = rel] /\ c3' = RE!To("publish")
         \/ c4' = c4 /\ c3' = RE!Failed("mark")
         \/ c4' = [c4 EXCEPT ![c8] = rel] /\ c3' = RE!Failed("mark")
  <2>1. [c4 EXCEPT ![c8].marked = TRUE] = [c4 EXCEPT ![c8] = rel]
    OBVIOUS
  <2> QED BY <2>1 DEF RE!Mark, RE!Request
<1>2. RecoveryShape /\ RecoveryCourse /\ c3 \in RecoveryJob /\ c3.doomed = {} /\ c8 \in RE!Ids
  BY <1>1, RecoveryAssumption DEF RecoveryInv, RecoveryShape, RE!Ids
<1>3. c4[c8] \in RecoveryRelease /\ c4[c8].whole /\ c4[c8].assets = RE!Assets
  BY <1>1, <1>2 DEF RecoveryCourse, RecoveryShape
<1>4. rel \in RecoveryRelease /\ rel.whole /\ rel.marked /\ WholeIfMarked(rel)
  BY <1>3 DEF RecoveryRelease, WholeIfMarked
<1> HIDE DEF rel
<1>5. CASE c4' = c4 /\ c3' = RE!Failed("mark")
  BY <1>1, <1>5, RecoveryFails DEF RE!Steps
<1>6. ASSUME c4' = [c4 EXCEPT ![c8] = rel] PROVE RecoveryInv'
  <2>1. c4'[c8] = rel
    BY <1>2, <1>6 DEF RecoveryShape
  <2>2. \/ c3' = RE!NoJob
        \/ c3' \in RecoveryJob /\ c3'.step = "publish" /\ c3'.doomed = {} /\ c3'.todo = c3.todo
           /\ c3'.copy = c3.copy /\ c3'.want = c3.want
    BY <1>1, <1>2, JobGoes DEF RE!Failed, RE!To, RE!Steps
  <2>3. RecoveryCourse'
    BY <1>1, <1>2, <1>4, <2>1, <2>2, NoJobShape DEF RecoveryCourse, Unmarked
  <2>4. c3' \in RecoveryJob /\ c3'.doomed = {} /\ c3'.step # "prune"
    BY <2>2, NoJobShape
  <2> QED BY <1>1, <1>4, <1>6, <2>3, <2>4, RecoveryChanges DEF Unmarked
<1> QED BY <1>1, <1>5, <1>6

(* An incomplete draft is removed.                                         *)
LEMMA RecoveryDiscards ==
  ASSUME RecoveryInv, RE!Discard
  PROVE  RecoveryInv'
<1>1. /\ c3.step = "discard" /\ c3' = RE!NoJob /\ UNCHANGED <<c1, c2, c7, c8, c10>>
      /\ c4' = [c4 EXCEPT ![c8] = RE!NoRelease] \/ c4' = c4
  BY DEF RE!Discard
<1>2. CASE c4' = c4
  BY <1>1, <1>2, RecoveryStops
<1>3. CASE c4' = [c4 EXCEPT ![c8] = RE!NoRelease]
  <2>1. RecoveryCourse'
    BY <1>1, NoJobShape DEF RecoveryCourse, Unmarked
  <2>2. RE!NoRelease \in RecoveryRelease /\ WholeIfMarked(RE!NoRelease)
    BY NoReleaseShape DEF WholeIfMarked
  <2> QED BY <1>1, <1>3, <2>1, <2>2, NoJobShape, RecoveryChanges DEF Unmarked
<1> QED BY <1>1, <1>2, <1>3

(* One copy more is published: it was not among those that were counted.   *)
LEMMA RecoveryPublishes ==
  ASSUME RecoveryInv, RE!Publish
  PROVE  RecoveryInv'
<1> DEFINE rel == [c4[c8] EXCEPT !.state = "published"]
<1>1. /\ c3.step = "publish" /\ UNCHANGED <<c1, c2, c7, c8>>
      /\ \/ c4' = [c4 EXCEPT ![c8] = rel] /\ c10' = c10 + 1 /\ c3' = RE!To("list")
         \/ c4' = c4 /\ c10' = c10 /\ c3' = RE!Failed("publish")
         \/ c4' = [c4 EXCEPT ![c8] = rel] /\ c10' = c10 + 1 /\ c3' = RE!Failed("publish")
  <2>1. [c4 EXCEPT ![c8].state = "published"] = [c4 EXCEPT ![c8] = rel]
    OBVIOUS
  <2> QED BY <2>1 DEF RE!Publish, RE!Request
<1>2. RecoveryShape /\ RecoveryCourse /\ MarkedIsWhole /\ c3.doomed = {} /\ c8 \in RE!Ids
  BY <1>1, RecoveryAssumption DEF RecoveryInv, RecoveryShape, RE!Ids
<1>3. c4[c8] \in RecoveryRelease /\ c4[c8].marked
  BY <1>1, <1>2 DEF RecoveryCourse, RecoveryShape
<1>4. rel \in RecoveryRelease /\ rel.marked /\ rel.state = "published" /\ WholeIfMarked(rel)
  BY <1>2, <1>3 DEF RecoveryRelease, WholeIfMarked, MarkedIsWhole
<1> HIDE DEF rel
<1>5. CASE c4' = c4 /\ c10' = c10 /\ c3' = RE!Failed("publish")
  BY <1>1, <1>5, RecoveryFails DEF RE!Steps
<1>6. ASSUME c4' = [c4 EXCEPT ![c8] = rel], c10' = c10 + 1 PROVE RecoveryInv'
  <2>1. /\ c4' \in [RE!Ids -> RecoveryRelease] /\ \A i \in RE!Ids : i > c8 => c4'[i] = RE!NoRelease
        /\ MarkedIsWhole' /\ RE!Owned' \ {c8} = RE!Owned \ {c8} /\ RE!Owned' \in SUBSET RE!Ids
        /\ c8 \in RE!Owned'
    BY <1>1, <1>4, <1>6, OwnRelease
  <2>2. Staying = RE!Owned \ {c8}
    BY <1>1 DEF Staying
  <2>3. Cardinality(RE!Owned') = Cardinality(Staying) + 1 /\ Cardinality(Staying) \in Nat
    <3>1. IsFiniteSet(Staying) /\ Cardinality(Staying) \in Nat
      BY StayingOwned, CopiesAreCounted
    <3>2. c8 \notin Staying /\ RE!Owned' = Staying \cup {c8}
      BY <2>1, <2>2
    <3> QED BY <3>1, <3>2, FS_AddElement
  <2>4. c10 \in Nat /\ c10' \in Nat /\ Enough(Cardinality(Staying))
    BY <1>2, <1>6 DEF RecoveryInv, RecoveryShape
  <2>5. Cardinality(RE!Owned') >= RecoveryKeep \/ Cardinality(RE!Owned') >= c10'
    BY <1>6, <2>3, <2>4, RecoveryAssumption DEF Enough
  <2>6. CASE c3' = RE!To("list")
    <3>1. c3' \in RecoveryJob /\ c3'.step = "list" /\ c3'.doomed = {} /\ c3'.todo = c3.todo
          /\ c3'.copy = c3.copy /\ c3'.want = c3.want
      BY <1>2, <2>6, JobGoes DEF RE!To, RE!Steps
    <3>2. RecoveryShape'
      BY <1>1, <1>2, <2>1, <2>4, <3>1 DEF RecoveryShape, RE!Ids, RE!NoRelease, RE!Kinds
    <3>3. RecoveryCourse'
      BY <1>2, <3>1 DEF RecoveryCourse, Unmarked
    <3>4. Staying' = RE!Owned'
      BY <3>1 DEF Staying, Unmarked
    <3>5. Enough(Cardinality(Staying))'
      BY <2>5, <3>4 DEF Enough
    <3> QED BY <2>1, <3>1, <3>2, <3>3, <3>5 DEF RecoveryInv
  <2>7. CASE c3' = RE!Failed("publish")
    <3>1. c3' = RE!NoJob
      BY <2>7 DEF RE!Failed
    <3> QED BY <1>1, <1>2, <2>1, <2>4, <2>5, <3>1, RecoveryEnds DEF RecoveryShape
  <2> QED BY <1>1, <2>6, <2>7
<1> QED BY <1>1, <1>5, <1>6

(* The published releases are listed, newest first, and those beyond Keep  *)
(* doomed.                                                                 *)
LEMMA RecoveryLists ==
  ASSUME RecoveryInv, RE!List
  PROVE  RecoveryInv'
<1>1. /\ c3.step = "list" /\ UNCHANGED <<c1, c2, c4, c7, c8, c10>>
      /\ \/ c3' = RE!NoJob
         \/ c8 \in RE!Owned
            /\ c3' = [c3 EXCEPT !.step = "prune", !.doomed = RE!Owned \ RE!Preserved]
  BY DEF RE!List, RE!Request, RE!Failed
<1>2. CASE c3' = RE!NoJob
  BY <1>1, <1>2, RecoveryStops
<1>3. CASE /\ c8 \in RE!Owned
           /\ c3' = [c3 EXCEPT !.step = "prune", !.doomed = RE!Owned \ RE!Preserved]
  <2>1. RecoveryShape /\ RecoveryCourse /\ c3 \in RecoveryJob /\ Enough(Cardinality(Staying))
    BY DEF RecoveryInv, RecoveryShape
  <2>2. RE!Owned \ RE!Preserved \in SUBSET RE!Ids
    BY DEF RE!Owned
  <2> DEFINE doomed == RE!Owned \ RE!Preserved
  <2>3. /\ c3' \in RecoveryJob /\ c3'.step = "prune" /\ c3'.doomed = doomed
        /\ c3'.todo = c3.todo /\ c3'.copy = c3.copy /\ c3'.want = c3.want
    <3> HIDE DEF doomed
    <3>1. c3' = [step |-> "prune", want |-> c3.want, copy |-> c3.copy, todo |-> c3.todo,
                 live |-> c3.live, doomed |-> doomed]
      BY <1>3, <2>1 DEF RecoveryJob, doomed
    <3>2. doomed \in SUBSET RE!Ids
      BY <2>2 DEF doomed
    <3> QED BY <2>1, <3>1, <3>2 DEF RecoveryJob, RE!Steps
  <2>4. RecoveryShape'
    BY <1>1, <2>1, <2>3 DEF RecoveryShape, RE!Ids, RE!NoRelease, RE!Kinds
  <2>5. RecoveryCourse'
    BY <2>1, <2>3 DEF RecoveryCourse, Unmarked
  <2>6. MarkedIsWhole'
    BY <1>1 DEF RecoveryInv, MarkedIsWhole, RE!Assets, RE!Ids
  <2>7. RE!Owned' = RE!Owned /\ Staying = RE!Owned
    BY <1>1 DEF RE!Owned, RE!Ids, Staying, Unmarked
  <2>8. RE!Preserved \in SUBSET RE!Owned /\ Enough(Cardinality(RE!Preserved))
    BY <1>3, <2>1, <2>7, PreservedAreEnough
  <2>9. Staying' = RE!Preserved
    BY <2>3, <2>7, <2>8 DEF Staying
  <2>10. Enough(Cardinality(Staying))'
    BY <1>1, <2>8, <2>9 DEF Enough
  <2> QED BY <2>3, <2>4, <2>5, <2>6, <2>10 DEF RecoveryInv
<1> QED BY <1>1, <1>2, <1>3

(* A doomed release goes: those that stay are none of the doomed.          *)
LEMMA RecoveryPrunes ==
  ASSUME RecoveryInv, RE!Prune
  PROVE  RecoveryInv'
<1>1. c3.step = "prune"
  BY DEF RE!Prune, RE!Request
<1>2. RecoveryShape /\ RecoveryCourse /\ MarkedIsWhole /\ c3 \in RecoveryJob /\ Enough(Cardinality(Staying))
  BY DEF RecoveryInv, RecoveryShape
<1>3. c3.doomed \in SUBSET RE!Ids /\ Staying = RE!Owned \ c3.doomed /\ c10 \in Nat
  BY <1>1, <1>2 DEF RecoveryJob, Staying, RecoveryShape
<1>4. CASE c3.doomed = {}
  BY <1>4, RecoveryStops DEF RE!Prune, RE!Store
<1>5. CASE c3.doomed # {}
  <2> DEFINE i == RE!Max(c3.doomed)
  <2>1. i \in c3.doomed
    <3>1. c3.doomed \in SUBSET (0..RecoveryRuns)
      BY <1>3, RecoveryAssumption DEF RE!Ids
    <3>2. \E x \in c3.doomed : \A y \in c3.doomed : x >= y
      BY <1>5, <3>1, LargestNumber, RecoveryAssumption, Zenon
    <3> QED BY <3>2 DEF RE!Max
  <2>2. /\ UNCHANGED <<c1, c2, c7, c8, c10>>
        /\ \/ c4' = [c4 EXCEPT ![i] = RE!NoRelease] \/ c4' = c4
        /\ \/ c3' = RE!NoJob
           \/ c3' = [c3 EXCEPT !.doomed = @ \ {i}] /\ c4' = [c4 EXCEPT ![i] = RE!NoRelease]
    BY <1>5 DEF RE!Prune, RE!Request, RE!Failed
  <2> HIDE DEF i
  <2>3. CASE c4' = c4 /\ c3' = RE!NoJob
    BY <2>2, <2>3, RecoveryStops
  <2>4. ASSUME c4' = [c4 EXCEPT ![i] = RE!NoRelease] PROVE RecoveryInv'
    <3>1. i \in RE!Ids /\ c4 \in [RE!Ids -> RecoveryRelease]
      BY <1>2, <1>3, <2>1 DEF RecoveryShape
    <3>2. /\ c4' \in [RE!Ids -> RecoveryRelease] /\ c4'[i] = RE!NoRelease
          /\ \A j \in RE!Ids \ {i} : c4'[j] = c4[j]
      BY <2>4, <3>1, NoReleaseShape
    <3>3. \A j \in RE!Ids : j > c8 => c4'[j] = RE!NoRelease
      BY <1>2, <3>2 DEF RecoveryShape
    <3>4. MarkedIsWhole'
      BY <1>2, <3>2, NoReleaseShape DEF MarkedIsWhole, RE!Assets, RE!Ids
    <3>5. RE!Owned' = RE!Owned \ {i}
      BY <2>2, <3>1, <3>2, NoReleaseShape DEF RE!Owned, RE!Ids
    <3>6. Staying \in SUBSET RE!Owned' /\ RE!Owned' \in SUBSET RE!Ids
      BY <1>3, <2>1, <3>5 DEF RE!Owned
    <3>7. CASE c3' = RE!NoJob
      <4>1. Cardinality(RE!Owned') >= RecoveryKeep \/ Cardinality(RE!Owned') >= c10'
        BY <1>2, <1>3, <2>2, <3>6, EnoughStays
      <4> QED BY <1>2, <1>3, <2>2, <3>2, <3>3, <3>4, <3>7, <4>1, RecoveryEnds DEF RecoveryShape
    <3>8. CASE c3' = [c3 EXCEPT !.doomed = @ \ {i}]
      <4>1. /\ c3' \in RecoveryJob /\ c3'.step = "prune" /\ c3'.doomed = c3.doomed \ {i}
            /\ c3'.todo = c3.todo /\ c3'.copy = c3.copy /\ c3'.want = c3.want
        BY <1>1, <1>2, <3>8 DEF RecoveryJob
      <4>2. RecoveryShape'
        BY <1>1, <1>2, <2>2, <3>2, <3>3, <4>1 DEF RecoveryShape, RE!Ids, RE!NoRelease, RE!Kinds
      <4>3. RecoveryCourse'
        BY <1>2, <4>1 DEF RecoveryCourse, Unmarked
      <4>4. Staying' = Staying
        BY <1>3, <2>1, <3>5, <4>1 DEF Staying
      <4>5. Enough(Cardinality(Staying))'
        BY <1>2, <2>2, <4>4 DEF Enough
      <4> QED BY <3>4, <4>1, <4>2, <4>3, <4>5 DEF RecoveryInv
    <3> QED BY <2>2, <3>7, <3>8
  <2> QED BY <2>2, <2>3, <2>4
<1> QED BY <1>4, <1>5

(* A late upload completes a release that it finds.                        *)
LEMMA RecoveryLands ==
  ASSUME RecoveryInv, NEW i \in RE!Ids, NEW a \in RE!Assets, RE!UploadLands(i, a)
  PROVE  RecoveryInv'
<1> DEFINE rel == [c4[i] EXCEPT !.assets = @ \cup {a}]
<1>1. /\ UNCHANGED <<c1, c2, c3, c7, c8, c10>>
      /\ c4' = c4 \/ (c4[i].state # "none" /\ c4' = [c4 EXCEPT ![i] = rel])
  <2>1. [c4 EXCEPT ![i].assets = @ \cup {a}] = [c4 EXCEPT ![i] = rel]
    OBVIOUS
  <2> QED BY <2>1 DEF RE!UploadLands
<1>2. RecoveryShape /\ RecoveryCourse /\ MarkedIsWhole
  BY DEF RecoveryInv
<1>3. c4 \in [RE!Ids -> RecoveryRelease] /\ c4[i] \in RecoveryRelease
  BY <1>2 DEF RecoveryShape
<1>4. \A j \in RE!Ids : /\ c4'[j] \in RecoveryRelease /\ c4'[j].state = c4[j].state
                        /\ c4'[j].marked = c4[j].marked /\ c4'[j].whole = c4[j].whole
                        /\ c4[j].assets \subseteq c4'[j].assets
                        /\ c4[j].state = "none" => c4'[j] = c4[j]
  BY <1>1, <1>3 DEF RecoveryRelease
<1>5. c4' \in [RE!Ids -> RecoveryRelease]
  BY <1>1, <1>3, <1>4
<1> HIDE DEF rel
<1>6. RecoveryShape'
  BY <1>1, <1>2, <1>4, <1>5, NoReleaseShape DEF RecoveryShape, RE!Ids, RE!NoRelease, RE!Kinds
<1>7. \A j \in RE!Ids : c4'[j].assets \subseteq RE!Assets
  BY <1>4 DEF RecoveryRelease
<1>8. MarkedIsWhole'
  BY <1>2, <1>4, <1>7 DEF MarkedIsWhole, RE!Ids, RE!Assets
<1>9. RecoveryCourse'
  <2>1. CASE c3.step = "idle"
    BY <1>1, <1>2, <2>1 DEF RecoveryCourse, Unmarked
  <2>2. CASE c3.step # "idle"
    <3>1. c8 \in RE!Ids
      BY <1>2, <2>2, RecoveryAssumption DEF RecoveryShape, RE!Ids
    <3>2. /\ c4'[c8].marked = c4[c8].marked /\ c4'[c8].whole = c4[c8].whole
          /\ c4[c8].assets \subseteq c4'[c8].assets /\ c4'[c8].assets \subseteq RE!Assets
          /\ c4[c8] = RE!NoRelease => c4'[c8] = RE!NoRelease
      BY <1>4, <1>7, <3>1, NoReleaseShape
    <3>3. RE!Asset("first")' = RE!Asset("first") /\ RE!Assets' = RE!Assets /\ RE!NoRelease' = RE!NoRelease
      BY <1>1 DEF RE!Asset, RE!Assets, RE!NoRelease
    <3> QED BY <1>1, <1>2, <3>2, <3>3 DEF RecoveryCourse, Unmarked
  <2> QED BY <2>1, <2>2
<1>10. RE!Owned' = RE!Owned
  BY <1>1, <1>4 DEF RE!Owned, RE!Ids
<1>11. Staying' = Staying
  BY <1>1, <1>10 DEF Staying, Unmarked
<1>12. Enough(Cardinality(Staying))'
  BY <1>1, <1>11 DEF Enough, RecoveryInv
<1> QED BY <1>1, <1>6, <1>8, <1>9, <1>12 DEF RecoveryInv

(* Every step of the backup, its source and its uploads.                   *)
LEMMA RecoveryStep ==
  ASSUME RecoveryInv, RE!Next
  PROVE  RecoveryInv'
<1>1. CASE RE!WriteSource
  BY <1>1, RecoverySource
<1>2. CASE RE!Begin
  BY <1>2, RecoveryBegins
<1>3. CASE RE!Expire \/ \E p \in RecoveryParts : RE!Read(p)
  BY <1>3, RecoveryReads
<1>4. CASE RE!Draft
  BY <1>4, RecoveryDrafts
<1>5. CASE \E s \in {"first", "second"} : RE!Upload(s)
  BY <1>5, RecoveryUploads
<1>6. CASE RE!Mark
  BY <1>6, RecoveryMarks
<1>7. CASE RE!Publish
  BY <1>7, RecoveryPublishes
<1>8. CASE RE!List
  BY <1>8, RecoveryLists
<1>9. CASE RE!Prune
  BY <1>9, RecoveryPrunes
<1>10. CASE RE!Discard
  BY <1>10, RecoveryDiscards
<1>11. CASE RE!Stop
  BY <1>11, RecoveryStops DEF RE!Stop, RE!Store
<1>12. CASE \E i \in RE!Ids, a \in RE!Assets : RE!UploadLands(i, a)
  BY <1>12, RecoveryLands
<1> QED BY <1>1, <1>2, <1>3, <1>4, <1>5, <1>6, <1>7, <1>8, <1>9, <1>10, <1>11, <1>12 DEF RE!Next

(* The steps of the other parts leave the releases as they are.            *)
LEMMA RecoveryStutters ==
  ASSUME RecoveryInv, UNCHANGED <<c1, c2, c3, c4, c7, c8, c10>>
  PROVE  RecoveryInv'
<1>1. RecoveryShape' /\ RecoveryCourse' /\ MarkedIsWhole'
  BY DEF RecoveryInv, RecoveryShape, RecoveryCourse, MarkedIsWhole, Unmarked, RE!Ids, RE!NoRelease,
     RE!Kinds, RE!Asset, RE!Assets
<1>2. Staying' = Staying
  BY DEF Staying, RE!Owned, RE!Ids, Unmarked
<1>3. Enough(Cardinality(Staying))'
  BY <1>2 DEF RecoveryInv, Enough
<1> QED BY <1>1, <1>3 DEF RecoveryInv

(* It is claimed of behaviours of this part only.                          *)
PartRecovery == part = "recovery" => RecoveryInv

(* As many whole copies of one instant are kept as were published, up to   *)
(* Keep (publish, prune, owned_releases), whatever requests failed,        *)
(* succeeded unheard or came late, for every set of parts and every number *)
(* of copies, runs and writes.                                             *)
THEOREM PublishedPointsSurvive == Spec => []PointsSurvive
<1>1. Init => PartRecovery
  <2>1. Init /\ part = "recovery" => RE!Init
    BY DEF Init
  <2> QED BY <2>1, RecoveryInit DEF PartRecovery
<1>2. PartRecovery /\ [Next]_<<part, c1, c2, c3, c4, c5, c6, c7, c8, c9, c10>> => PartRecovery'
  <2> SUFFICES ASSUME PartRecovery, [Next]_<<part, c1, c2, c3, c4, c5, c6, c7, c8, c9, c10>>,
                      part' = "recovery"
               PROVE  RecoveryInv'
    BY DEF PartRecovery
  <2>1. part = "recovery" /\ RecoveryInv
    BY DEF Next, PartRecovery
  <2>2. CASE UNCHANGED <<part, c1, c2, c3, c4, c5, c6, c7, c8, c9, c10>>
    BY <2>1, <2>2, RecoveryStutters
  <2>3. CASE Next
    <3>1. RE!Next
      BY <2>1, <2>3 DEF Next
    <3> QED BY <2>1, <3>1, RecoveryStep
  <2> QED BY <2>2, <2>3
<1>3. PartRecovery => PointsSurvive
  <2> SUFFICES ASSUME RecoveryInv PROVE RE!PointsSurvive
    BY DEF PartRecovery, PointsSurvive
  <2>1. RE!Recoverable = RE!Owned
    BY DEF RE!Recoverable, RE!Owned, RecoveryInv, MarkedIsWhole
  <2>2. Cardinality(RE!Owned) \in Nat /\ c10 \in Nat
    BY StayingOwned, CopiesAreCounted DEF RecoveryInv, RecoveryShape
  <2>3. Cardinality(RE!Owned) >= RecoveryKeep \/ Cardinality(RE!Owned) >= c10
    <3>2. Cardinality(Staying) \in Nat /\ Cardinality(Staying) <= Cardinality(RE!Owned)
      BY StayingOwned, CopiesAreCounted
    <3> QED BY <2>2, <3>2, RecoveryAssumption DEF RecoveryInv, Enough
  <2>4. RE!Min({RecoveryKeep, c10}) <= RecoveryKeep /\ RE!Min({RecoveryKeep, c10}) <= c10
        /\ RE!Min({RecoveryKeep, c10}) \in {RecoveryKeep, c10}
    <3>1. \E x \in {RecoveryKeep, c10} : \A y \in {RecoveryKeep, c10} : x =< y
      BY <2>2, RecoveryAssumption
    <3> QED BY <3>1 DEF RE!Min
  <2>5. RE!Cardinality(RE!Recoverable) = Cardinality(RE!Owned)
    BY <2>1, RecoveryCardinality
  <2> QED BY <2>2, <2>3, <2>4, <2>5, RecoveryAssumption DEF RE!PointsSurvive
<1> QED BY <1>1, <1>2, <1>3, PTL DEF Spec

-----------------------------------------------------------------------------
(* PositionFlow: what is attributed to the cohort was really there.        *)

(* The truth, a transfer and a position, of any amounts.                   *)
FlowWallets == FlowOriginals \cup FlowOthers
FlowTruth == [held : [FlowWallets -> Nat], mine : [FlowWallets -> Nat], sold : Nat]
FlowEvent == [from : FlowWallets \cup {"outside"}, to : FlowWallets \cup {"pool", "outside"},
              amount : Nat, bought : Nat, proved : BOOLEAN]
FlowNode == [balance : Nat, known : Nat, depth : Nat]
FlowPosition(p) ==
    /\ p = [nodes |-> p.nodes, sold |-> p.sold] /\ p.sold \in Nat
    /\ DOMAIN p.nodes \subseteq FlowWallets
    /\ p.nodes = [w \in DOMAIN p.nodes |-> p.nodes[w]]
    /\ \A w \in DOMAIN p.nodes : p.nodes[w] \in FlowNode

(* What is attributed in a position was there at some point of the course. *)
Attributed(p, t) ==
    /\ \A w \in DOMAIN p.nodes : p.nodes[w].balance = t.held[w] /\ p.nodes[w].known <= t.mine[w]
    /\ p.sold <= t.sold

(* What was bought is part of what is held.                                *)
Mixed(t) == \A w \in FlowWallets : t.mine[w] <= t.held[w]

(* The course follows the transfers, each of which was possible.           *)
Linked(i) == FL!Legal(c1[i], c2[i]) /\ c1[i + 1] = FL!Moved(c1[i], c2[i])
FlowCourse ==
    /\ c1 \in Seq(FlowTruth) /\ c2 \in Seq(FlowEvent) /\ Len(c1) = Len(c2) + 1
    /\ \A i \in 1..Len(c1) : Mixed(c1[i])
    /\ \A i \in 1..Len(c2) : Linked(i)

(* The check under way is right about the transfers that it has replayed.  *)
FlowChecked ==
    /\ c4.head \in 1..Len(c2) /\ c4.done \in 0..c4.head
    /\ c4 = [head |-> c4.head, done |-> c4.done, pos |-> c4.pos]
    /\ FlowPosition(c4.pos) /\ Attributed(c4.pos, c1[c4.done + 1])

FlowInv ==
    /\ FlowCourse /\ FlowPosition(c3) /\ Attributed(c3, c1[1])
    /\ c4 # FL!NoCheck => FlowChecked

(* A cohort is frozen with what it has.                                    *)
LEMMA FlowInit ==
  ASSUME FL!Init
  PROVE  FlowInv
<1>1. PICK start \in FlowStarts, C \in SUBSET FlowOriginals :
        /\ c1 = <<[held |-> [w \in FL!Wallets |-> IF w \in FlowOriginals THEN start[w].held ELSE 0],
                   mine |-> [w \in FL!Wallets |-> IF w \in FlowOriginals THEN start[w].mine ELSE 0],
                   sold |-> 0]>>
        /\ c3 = FL!Seeded(start, C)
  BY DEF FL!Init
<1>2. c2 = <<>> /\ c4 = FL!NoCheck
  BY DEF FL!Init
<1>3. \A w \in FlowOriginals :
        /\ start[w].held \in Nat /\ start[w].mine \in Nat /\ start[w].lower \in Nat
        /\ start[w].lower <= start[w].mine /\ start[w].mine <= start[w].held
  BY FlowAssumption
<1> DEFINE t == c1[1]
<1>4. /\ t = [held |-> t.held, mine |-> t.mine, sold |-> 0]
      /\ t.held = [w \in FlowWallets |-> IF w \in FlowOriginals THEN start[w].held ELSE 0]
      /\ t.mine = [w \in FlowWallets |-> IF w \in FlowOriginals THEN start[w].mine ELSE 0]
  BY <1>1 DEF FL!Wallets, FlowWallets
<1>5. t \in FlowTruth /\ Mixed(t)
  <2>1. t.held \in [FlowWallets -> Nat] /\ t.mine \in [FlowWallets -> Nat]
    BY <1>3, <1>4
  <2>2. \A w \in FlowWallets : t.mine[w] <= t.held[w]
    BY <1>3, <1>4
  <2> QED BY <1>4, <2>1, <2>2 DEF FlowTruth, Mixed
<1>6. c1 = <<t>> /\ c1 \in Seq(FlowTruth) /\ Len(c1) = 1
  BY <1>1, <1>5
<1>7. FlowCourse
  BY <1>2, <1>5, <1>6 DEF FlowCourse
<1>8. /\ c3.nodes = [w \in C |-> [balance |-> start[w].held, known |-> start[w].lower, depth |-> 0]]
      /\ c3 = [nodes |-> c3.nodes, sold |-> 0] /\ c3.sold = 0
  BY <1>1 DEF FL!Seeded
<1>9. FlowPosition(c3)
  BY <1>3, <1>8 DEF FlowPosition, FlowNode, FlowWallets
<1>10. Attributed(c3, t)
  BY <1>3, <1>4, <1>8 DEF Attributed, FlowWallets
<1> QED BY <1>2, <1>7, <1>9, <1>10 DEF FlowInv

-----------------------------------------------------------------------------
(* One transfer.                                                           *)

(* What a transfer does to amounts of the wallets.                         *)
LEMMA FlowAmounts ==
  ASSUME NEW f \in [FlowWallets -> Nat], NEW e \in FlowEvent, NEW n \in Nat, e.from # e.to,
         e.from \in FlowWallets => n <= f[e.from]
  PROVE  /\ FL!Flow(f, e, n) \in [FlowWallets -> Nat]
         /\ \A w \in FlowWallets :
              FL!Flow(f, e, n)[w] = IF w = e.from THEN f[w] - n ELSE IF w = e.to THEN f[w] + n ELSE f[w]
<1>1. \A w \in FlowWallets :
        FL!Flow(f, e, n)[w] = IF w = e.from THEN f[w] - n ELSE IF w = e.to THEN f[w] + n ELSE f[w]
  BY DEF FL!Flow, FL!Wallets, FlowWallets
<1>2. FL!Flow(f, e, n) = [w \in FlowWallets |-> FL!Flow(f, e, n)[w]]
  BY DEF FL!Flow, FL!Wallets, FlowWallets
<1>3. \A w \in FlowWallets : FL!Flow(f, e, n)[w] \in Nat
  BY <1>1
<1> QED BY <1>1, <1>2, <1>3

(* A possible transfer leaves possible amounts.                            *)
LEMMA FlowMoves ==
  ASSUME NEW t \in FlowTruth, NEW e \in FlowEvent, FL!Legal(t, e), Mixed(t)
  PROVE  /\ FL!Moved(t, e) \in FlowTruth /\ Mixed(FL!Moved(t, e))
         /\ FL!Moved(t, e).sold = t.sold + (IF e.to = "pool" THEN e.bought ELSE 0)
         /\ \A w \in FlowWallets :
              /\ FL!Moved(t, e).held[w] =
                   IF w = e.from THEN t.held[w] - e.amount ELSE IF w = e.to THEN t.held[w] + e.amount ELSE t.held[w]
              /\ FL!Moved(t, e).mine[w] =
                   IF w = e.from THEN t.mine[w] - e.bought ELSE IF w = e.to THEN t.mine[w] + e.bought ELSE t.mine[w]
<1>1. /\ t.held \in [FlowWallets -> Nat] /\ t.mine \in [FlowWallets -> Nat] /\ t.sold \in Nat
      /\ e.amount \in Nat /\ e.bought \in Nat
  BY DEF FlowTruth, FlowEvent
<1>2. e.from # e.to /\ e.bought <= e.amount /\ "outside" \notin FlowWallets
  BY FlowAssumption DEF FL!Legal, FlowWallets
<1>3. e.from \in FlowWallets =>
        /\ e.amount <= t.held[e.from] /\ e.bought <= t.mine[e.from]
        /\ e.amount - e.bought <= t.held[e.from] - t.mine[e.from]
  BY <1>2 DEF FL!Legal
<1> DEFINE u == FL!Moved(t, e)
<1>4. /\ u = [held |-> FL!Flow(t.held, e, e.amount), mine |-> FL!Flow(t.mine, e, e.bought),
              sold |-> t.sold + IF e.to = "pool" THEN e.bought ELSE 0]
      /\ u.held = FL!Flow(t.held, e, e.amount) /\ u.mine = FL!Flow(t.mine, e, e.bought)
      /\ u.sold = t.sold + (IF e.to = "pool" THEN e.bought ELSE 0)
  BY DEF FL!Moved
<1> HIDE DEF u
<1>5. /\ u.held \in [FlowWallets -> Nat]
      /\ \A w \in FlowWallets :
           u.held[w] = IF w = e.from THEN t.held[w] - e.amount ELSE IF w = e.to THEN t.held[w] + e.amount ELSE t.held[w]
  <2>1. t.held \in [FlowWallets -> Nat] /\ e.amount \in Nat /\ (e.from \in FlowWallets => e.amount <= t.held[e.from])
    BY <1>1, <1>3
  <2>2. /\ FL!Flow(t.held, e, e.amount) \in [FlowWallets -> Nat]
        /\ \A w \in FlowWallets :
             FL!Flow(t.held, e, e.amount)[w] =
               IF w = e.from THEN t.held[w] - e.amount ELSE IF w = e.to THEN t.held[w] + e.amount ELSE t.held[w]
    BY <1>2, <2>1, FlowAmounts
  <2> QED BY <1>4, <2>2
<1>6. /\ u.mine \in [FlowWallets -> Nat]
      /\ \A w \in FlowWallets :
           u.mine[w] = IF w = e.from THEN t.mine[w] - e.bought ELSE IF w = e.to THEN t.mine[w] + e.bought ELSE t.mine[w]
  <2>1. t.mine \in [FlowWallets -> Nat] /\ e.bought \in Nat /\ (e.from \in FlowWallets => e.bought <= t.mine[e.from])
    BY <1>1, <1>3
  <2>2. /\ FL!Flow(t.mine, e, e.bought) \in [FlowWallets -> Nat]
        /\ \A w \in FlowWallets :
             FL!Flow(t.mine, e, e.bought)[w] =
               IF w = e.from THEN t.mine[w] - e.bought ELSE IF w = e.to THEN t.mine[w] + e.bought ELSE t.mine[w]
    BY <1>2, <2>1, FlowAmounts
  <2> QED BY <1>4, <2>2
<1>7. u.sold \in Nat
  BY <1>1, <1>4
<1>8. u \in FlowTruth
  <2>1. u = [held |-> u.held, mine |-> u.mine, sold |-> u.sold]
    BY <1>4
  <2> QED BY <1>5, <1>6, <1>7, <2>1 DEF FlowTruth
<1>9. Mixed(u)
  <2> SUFFICES ASSUME NEW w \in FlowWallets PROVE u.mine[w] <= u.held[w]
    BY DEF Mixed
  <2>1. t.mine[w] <= t.held[w] /\ t.mine[w] \in Nat /\ t.held[w] \in Nat
    BY <1>1 DEF Mixed
  <2> QED BY <1>1, <1>2, <1>3, <1>5, <1>6, <2>1
<1> QED BY <1>4, <1>5, <1>6, <1>8, <1>9 DEF u

(* The chain goes on: what was there before stays in the course.           *)
LEMMA FlowGoesOn ==
  ASSUME FlowInv, NEW e \in FL!Event, FL!Transfer(e)
  PROVE  FlowInv'
<1> DEFINE n == Len(c1)
           u == FL!Moved(c1[n], e)
<1>1. /\ c1 \in Seq(FlowTruth) /\ c2 \in Seq(FlowEvent) /\ n = Len(c2) + 1
      /\ Len(c2) \in Nat /\ n \in Nat /\ n \in 1..n
  BY DEF FlowInv, FlowCourse
<1>2. e \in FlowEvent
  BY FlowAssumption DEF FL!Event, FlowEvent, FL!Wallets, FlowWallets
<1>3. FL!Legal(c1[n], e) /\ c1' = Append(c1, u) /\ c2' = Append(c2, e) /\ c3' = c3 /\ c4' = c4
  BY DEF FL!Transfer
<1>4. c1[n] \in FlowTruth /\ Mixed(c1[n])
  BY <1>1 DEF FlowInv, FlowCourse
<1>5. u \in FlowTruth /\ Mixed(u)
  BY <1>2, <1>3, <1>4, FlowMoves
<1> HIDE DEF u
<1>6. /\ c1' \in Seq(FlowTruth) /\ Len(c1') = n + 1 /\ c1'[n + 1] = u
      /\ \A i \in 1..n : c1'[i] = c1[i]
      /\ c2' \in Seq(FlowEvent) /\ Len(c2') = n /\ c2'[n] = e
      /\ \A i \in 1..Len(c2) : c2'[i] = c2[i]
  BY <1>1, <1>2, <1>3, <1>5
<1>7. FlowCourse'
  <2>1. \A i \in 1..Len(c1') : Mixed(c1'[i])
    <3> SUFFICES ASSUME NEW i \in 1..Len(c1') PROVE Mixed(c1'[i])
      OBVIOUS
    <3>1. CASE i = n + 1
      BY <1>5, <1>6, <3>1
    <3>2. CASE i # n + 1
      <4>1. i \in 1..Len(c1)
        BY <1>1, <1>6, <3>2
      <4> QED BY <1>6, <4>1 DEF FlowInv, FlowCourse
    <3> QED BY <3>1, <3>2
  <2>2. \A i \in 1..Len(c2') : Linked(i)'
    <3> SUFFICES ASSUME NEW i \in 1..Len(c2') PROVE Linked(i)'
      OBVIOUS
    <3>1. CASE i = n
      <4>1. c1'[i] = c1[n] /\ c2'[i] = e /\ c1'[i + 1] = FL!Moved(c1[n], e)
        BY <1>1, <1>6, <3>1 DEF u
      <4> QED BY <1>3, <4>1 DEF Linked
    <3>2. CASE i # n
      <4>1. i \in 1..Len(c2) /\ i \in 1..n /\ i + 1 \in 1..n
        BY <1>1, <1>6, <3>2
      <4>2. c1'[i] = c1[i] /\ c2'[i] = c2[i] /\ c1'[i + 1] = c1[i + 1]
        BY <1>6, <4>1
      <4>3. Linked(i)
        BY <4>1 DEF FlowInv, FlowCourse
      <4> QED BY <4>2, <4>3 DEF Linked
    <3> QED BY <3>1, <3>2
  <2> QED BY <1>1, <1>6, <2>1, <2>2 DEF FlowCourse, Mixed
<1>8. FlowPosition(c3)' /\ Attributed(c3, c1[1])'
  <2>1. c1'[1] = c1[1]
    BY <1>1, <1>6
  <2> QED BY <1>3, <2>1 DEF FlowInv, FlowPosition, Attributed
<1>9. ASSUME c4' # FL!NoCheck PROVE FlowChecked'
  <2>1. FlowChecked
    BY <1>3, <1>9 DEF FlowInv
  <2>2. c4.head \in 1..Len(c2') /\ c4.done + 1 \in 1..n
    BY <1>1, <1>6, <2>1 DEF FlowChecked
  <2>3. c1'[c4.done + 1] = c1[c4.done + 1]
    BY <1>6, <2>2
  <2> QED BY <1>3, <2>1, <2>2, <2>3 DEF FlowChecked, FlowPosition, Attributed
<1> QED BY <1>7, <1>8, <1>9 DEF FlowInv, FL!NoCheck

(* Only what must have been bought is passed on.                           *)
LEMMA FlowGuarantees ==
  ASSUME NEW t \in FlowTruth, NEW e \in FlowEvent, FL!Legal(t, e), Mixed(t),
         NEW node \in FlowNode, e.from \in FlowWallets,
         node.balance = t.held[e.from], node.known <= t.mine[e.from]
  PROVE  /\ FL!Guaranteed(node, e.amount) \in Nat
         /\ FL!Guaranteed(node, e.amount) <= e.bought
<1>1. /\ t.held[e.from] \in Nat /\ t.mine[e.from] \in Nat /\ t.mine[e.from] <= t.held[e.from]
      /\ e.amount \in Nat /\ e.bought \in Nat /\ node.balance \in Nat /\ node.known \in Nat
  BY DEF FlowTruth, FlowEvent, FlowNode, Mixed
<1>2. e.bought <= e.amount /\ e.amount - e.bought <= t.held[e.from] - t.mine[e.from]
  BY FlowAssumption DEF FL!Legal, FlowWallets
<1>3. node.balance - node.known \in Nat
  BY <1>1
<1>4. FL!Guaranteed(node, e.amount) =
        IF e.amount > node.balance - node.known THEN e.amount - (node.balance - node.known) ELSE 0
  BY DEF FL!Guaranteed, FL!Less
<1> QED BY <1>1, <1>2, <1>3, <1>4

(* A wallet of a position spends and gains.                                *)
LEMMA FlowNodes ==
  ASSUME NEW node \in FlowNode, NEW amount, NEW sure
  PROVE  /\ FL!Spend(node, amount) = [balance |-> node.balance - amount, known |-> FL!Less(node.known, amount),
                                      depth |-> node.depth]
         /\ FL!Gain(node, amount, sure) = [balance |-> node.balance + amount, known |-> node.known + sure,
                                           depth |-> node.depth]
<1> DEFINE less == FL!Less(node.known, amount)
           gain == FL!Gain(node, amount, sure)
<1>1. node = [balance |-> node.balance, known |-> node.known, depth |-> node.depth]
  BY DEF FlowNode
<1>2. FL!Spend(node, amount) = [node EXCEPT !.balance = node.balance - amount, !.known = less]
  BY DEF FL!Spend
<1>3. gain = [node EXCEPT !.balance = node.balance + amount, !.known = node.known + sure]
  BY DEF FL!Gain
<1> HIDE DEF less, gain
<1>4. FL!Spend(node, amount) = [balance |-> node.balance - amount, known |-> less, depth |-> node.depth]
  BY <1>1, <1>2
<1>5. gain = [balance |-> node.balance + amount, known |-> node.known + sure, depth |-> node.depth]
  BY <1>1, <1>3
<1> QED BY <1>4, <1>5 DEF less, gain

(* The replay of a transfer is right about it.                             *)
LEMMA FlowReplays ==
  ASSUME NEW t \in FlowTruth, NEW e \in FlowEvent, FL!Legal(t, e), Mixed(t),
         NEW p, FlowPosition(p), Attributed(p, t)
  PROVE  FlowPosition(FL!Replayed(p, e)) /\ Attributed(FL!Replayed(p, e), FL!Moved(t, e))
<1> DEFINE q == FL!Replayed(p, e)
           u == FL!Moved(t, e)
           sure == IF e.from \in DOMAIN p.nodes THEN FL!Guaranteed(p.nodes[e.from], e.amount) ELSE 0
<1>1. /\ DOMAIN p.nodes \subseteq FlowWallets
      /\ \A w \in DOMAIN p.nodes :
           /\ p.nodes[w] \in FlowNode /\ p.nodes[w].balance = t.held[w] /\ p.nodes[w].known <= t.mine[w]
      /\ p.sold \in Nat /\ p.sold <= t.sold
  BY DEF FlowPosition, Attributed
<1>2. /\ t.held \in [FlowWallets -> Nat] /\ t.mine \in [FlowWallets -> Nat] /\ t.sold \in Nat
      /\ e.amount \in Nat /\ e.bought \in Nat
      /\ \A w \in FlowWallets : t.mine[w] <= t.held[w]
  BY DEF FlowTruth, FlowEvent, Mixed
<1>3. sure \in Nat /\ sure <= e.bought
  <2>1. CASE e.from \in DOMAIN p.nodes
    BY <1>1, <2>1, FlowGuarantees
  <2>2. CASE e.from \notin DOMAIN p.nodes
    BY <1>2, <2>2
  <2> QED BY <2>1, <2>2
<1>4. /\ e.from # e.to /\ e.bought <= e.amount /\ (e.proved => e.to = "pool")
      /\ e.from \in FlowWallets => e.amount <= t.held[e.from] /\ e.bought <= t.mine[e.from]
  BY FlowAssumption DEF FL!Legal, FlowWallets
<1>5. /\ u.sold = t.sold + (IF e.to = "pool" THEN e.bought ELSE 0)
      /\ \A w \in FlowWallets :
           /\ u.held[w] = IF w = e.from THEN t.held[w] - e.amount ELSE IF w = e.to THEN t.held[w] + e.amount ELSE t.held[w]
           /\ u.mine[w] = IF w = e.from THEN t.mine[w] - e.bought ELSE IF w = e.to THEN t.mine[w] + e.bought ELSE t.mine[w]
  BY FlowMoves
<1> HIDE DEF u
<1>6. /\ q.nodes = [w \in DOMAIN p.nodes |-> CASE w = e.from -> FL!Spend(p.nodes[w], e.amount)
                                               [] w = e.to -> FL!Gain(p.nodes[w], e.amount, sure)
                                               [] OTHER -> p.nodes[w]]
      /\ q.sold = p.sold + (IF e.proved THEN sure ELSE 0)
      /\ q = [nodes |-> q.nodes, sold |-> q.sold]
  BY DEF FL!Replayed
<1> HIDE DEF q, sure
<1>7. DOMAIN q.nodes = DOMAIN p.nodes /\ q.nodes = [w \in DOMAIN q.nodes |-> q.nodes[w]]
  BY <1>6
<1>8. ASSUME NEW w \in DOMAIN p.nodes
      PROVE  q.nodes[w] \in FlowNode /\ q.nodes[w].balance = u.held[w] /\ q.nodes[w].known <= u.mine[w]
  <2> DEFINE node == p.nodes[w]
  <2>1. /\ w \in FlowWallets /\ node \in FlowNode /\ node.balance = t.held[w] /\ node.known <= t.mine[w]
        /\ node.balance \in Nat /\ node.known \in Nat /\ node.depth \in Nat
        /\ t.held[w] \in Nat /\ t.mine[w] \in Nat
    BY <1>1, <1>2 DEF FlowNode
  <2> HIDE DEF node
  <2>2. CASE w = e.from
    <3>1. q.nodes[w] = FL!Spend(node, e.amount)
      BY <1>4, <1>6, <2>2 DEF node
    <3>2. FL!Spend(node, e.amount) = [balance |-> node.balance - e.amount, known |-> FL!Less(node.known, e.amount),
                                      depth |-> node.depth]
      BY <2>1, FlowNodes
    <3>3. e.amount <= t.held[w] /\ e.bought <= t.mine[w]
      BY <1>4, <2>1, <2>2
    <3>4. FL!Less(node.known, e.amount) \in Nat /\ FL!Less(node.known, e.amount) <= t.mine[w] - e.bought
      BY <1>2, <1>4, <2>1, <3>3 DEF FL!Less
    <3>5. node.balance - e.amount \in Nat
      BY <1>2, <2>1, <3>3
    <3>6. u.held[w] = t.held[w] - e.amount /\ u.mine[w] = t.mine[w] - e.bought
      BY <1>5, <2>1, <2>2
    <3> QED BY <2>1, <3>1, <3>2, <3>4, <3>5, <3>6 DEF FlowNode
  <2>3. CASE w # e.from /\ w = e.to
    <3>1. q.nodes[w] = FL!Gain(node, e.amount, sure)
      BY <1>6, <2>3 DEF node
    <3>2. FL!Gain(node, e.amount, sure) = [balance |-> node.balance + e.amount, known |-> node.known + sure,
                                           depth |-> node.depth]
      BY <2>1, FlowNodes
    <3>3. node.balance + e.amount \in Nat /\ node.known + sure \in Nat /\ node.known + sure <= t.mine[w] + e.bought
      BY <1>2, <1>3, <2>1
    <3>4. u.held[w] = t.held[w] + e.amount /\ u.mine[w] = t.mine[w] + e.bought
      BY <1>5, <2>1, <2>3
    <3> QED BY <2>1, <3>1, <3>2, <3>3, <3>4 DEF FlowNode
  <2>4. CASE w # e.from /\ w # e.to
    <3>1. q.nodes[w] = node
      BY <1>6, <2>4 DEF node
    <3>2. u.held[w] = t.held[w] /\ u.mine[w] = t.mine[w]
      BY <1>5, <2>1, <2>4
    <3> QED BY <2>1, <3>1, <3>2
  <2> QED BY <2>2, <2>3, <2>4
<1>9. q.sold \in Nat /\ q.sold <= u.sold
  BY <1>1, <1>2, <1>3, <1>4, <1>5, <1>6
<1>10. FlowPosition(q)
  BY <1>1, <1>6, <1>7, <1>8, <1>9 DEF FlowPosition
<1>11. Attributed(q, u)
  BY <1>7, <1>8, <1>9 DEF Attributed
<1> QED BY <1>10, <1>11 DEF q, u

-----------------------------------------------------------------------------
(* One check.                                                              *)

(* A wallet that is followed from now on has what the chain says, and      *)
(* nothing of it is attributed.                                            *)
LEMMA FlowFollows ==
  ASSUME NEW p, FlowPosition(p), Attributed(p, c1[1]), c1[1] \in FlowTruth,
         NEW new \in SUBSET FlowWallets, NEW depth \in Nat
  PROVE  LET q == [nodes |-> FL!Followed(p.nodes, new, depth), sold |-> p.sold]
         IN  FlowPosition(q) /\ Attributed(q, c1[1])
<1> DEFINE f == FL!Followed(p.nodes, new, depth)
           q == [nodes |-> f, sold |-> p.sold]
<1>1. /\ DOMAIN p.nodes \subseteq FlowWallets
      /\ \A w \in DOMAIN p.nodes :
           p.nodes[w] \in FlowNode /\ p.nodes[w].balance = c1[1].held[w] /\ p.nodes[w].known <= c1[1].mine[w]
      /\ p.sold \in Nat /\ p.sold <= c1[1].sold
  BY DEF FlowPosition, Attributed
<1>2. \A w \in FlowWallets : c1[1].held[w] \in Nat /\ c1[1].mine[w] \in Nat
  BY DEF FlowTruth
<1>3. f = [w \in DOMAIN p.nodes \cup new |->
             IF w \in new THEN [balance |-> c1[1].held[w], known |-> 0, depth |-> depth] ELSE p.nodes[w]]
  BY DEF FL!Followed
<1> HIDE DEF f
<1>4. DOMAIN f = DOMAIN p.nodes \cup new /\ f = [w \in DOMAIN f |-> f[w]]
  BY <1>3
<1>5. ASSUME NEW w \in DOMAIN f
      PROVE  f[w] \in FlowNode /\ f[w].balance = c1[1].held[w] /\ f[w].known <= c1[1].mine[w]
  <2>1. CASE w \in new
    <3>1. f[w] = [balance |-> c1[1].held[w], known |-> 0, depth |-> depth]
      BY <1>3, <1>4, <2>1
    <3>2. c1[1].held[w] \in Nat /\ c1[1].mine[w] \in Nat
      BY <1>2, <2>1
    <3> QED BY <3>1, <3>2 DEF FlowNode
  <2>2. CASE w \notin new
    <3>1. w \in DOMAIN p.nodes /\ f[w] = p.nodes[w]
      BY <1>3, <1>4, <2>2
    <3> QED BY <1>1, <3>1
  <2> QED BY <2>1, <2>2
<1>6. q.nodes = f /\ q.sold = p.sold
  OBVIOUS
<1>7. FlowPosition(q)
  BY <1>1, <1>4, <1>5, <1>6 DEF FlowPosition
<1>8. Attributed(q, c1[1])
  BY <1>1, <1>5, <1>6 DEF Attributed
<1> QED BY <1>7, <1>8 DEF f

LEMMA FlowBegins ==
  ASSUME FlowInv, FL!Begin
  PROVE  FlowInv'
<1>1. /\ c1' = c1 /\ c2' = c2 /\ c3' = c3 /\ c2 # <<>>
      /\ c1 \in Seq(FlowTruth) /\ c2 \in Seq(FlowEvent) /\ Len(c1) = Len(c2) + 1
      /\ FlowPosition(c3) /\ Attributed(c3, c1[1])
  BY DEF FL!Begin, FlowInv, FlowCourse
<1>2. Len(c2) \in Nat /\ Len(c2) \in 1..Len(c2) /\ c1[1] \in FlowTruth
  BY <1>1
<1>3. PICK first \in SUBSET FL!Paid(c3.nodes, 0) :
        \E second \in SUBSET FL!Paid(FL!Followed(c3.nodes, first, 1), 1) :
          c4' = [head |-> Len(c2), done |-> 0,
                 pos |-> [nodes |-> FL!Followed(FL!Followed(c3.nodes, first, 1), second, FL!Hops), sold |-> c3.sold]]
  BY DEF FL!Begin
<1> DEFINE p == [nodes |-> FL!Followed(c3.nodes, first, 1), sold |-> c3.sold]
<1>4. PICK second \in SUBSET FL!Paid(p.nodes, 1) :
        c4' = [head |-> Len(c2), done |-> 0, pos |-> [nodes |-> FL!Followed(p.nodes, second, 2), sold |-> p.sold]]
  BY <1>3 DEF FL!Hops
<1>5. first \in SUBSET FlowWallets /\ second \in SUBSET FlowWallets
  <2>1. FL!Paid(c3.nodes, 0) \subseteq FlowWallets /\ FL!Paid(p.nodes, 1) \subseteq FlowWallets
    BY DEF FL!Paid, FL!Wallets, FlowWallets
  <2> QED BY <2>1
<1>6. FlowPosition(p) /\ Attributed(p, c1[1])
  BY <1>1, <1>2, <1>5, FlowFollows
<1> HIDE DEF p
<1> DEFINE q == [nodes |-> FL!Followed(p.nodes, second, 2), sold |-> p.sold]
<1>7. FlowPosition(q) /\ Attributed(q, c1[1])
  BY <1>2, <1>5, <1>6, FlowFollows
<1> HIDE DEF q
<1>8. c4' = [head |-> Len(c2), done |-> 0, pos |-> q]
  BY <1>4 DEF q
<1>9. c4'.head = Len(c2) /\ c4'.done = 0 /\ c4'.pos = q /\ 0 \in 0..Len(c2)
  BY <1>2, <1>8
<1>10. FlowChecked'
  BY <1>1, <1>2, <1>7, <1>8, <1>9 DEF FlowChecked, FlowPosition, Attributed
<1>11. FlowCourse'
  BY <1>1 DEF FlowInv, FlowCourse, Linked
<1> QED BY <1>1, <1>10, <1>11 DEF FlowInv, FlowPosition, Attributed

LEMMA FlowReplay ==
  ASSUME FlowInv, FL!Replay
  PROVE  FlowInv'
<1> DEFINE i == c4.done + 1
           p == FL!Replayed(c4.pos, c2[i])
<1>1. /\ c1' = c1 /\ c2' = c2 /\ c3' = c3 /\ c4 # FL!NoCheck /\ c4.done < c4.head
      /\ c4' = [c4 EXCEPT !.done = i, !.pos = p]
  BY DEF FL!Replay
<1>2. /\ c1 \in Seq(FlowTruth) /\ c2 \in Seq(FlowEvent) /\ Len(c1) = Len(c2) + 1
      /\ c4.head \in 1..Len(c2) /\ c4.done \in 0..c4.head
      /\ c4 = [head |-> c4.head, done |-> c4.done, pos |-> c4.pos]
      /\ FlowPosition(c4.pos) /\ Attributed(c4.pos, c1[i])
  BY <1>1 DEF FlowInv, FlowCourse, FlowChecked
<1>3. i \in 1..Len(c2) /\ i \in 1..Len(c1) /\ i \in 0..c4.head
  BY <1>1, <1>2
<1>4. c1[i] \in FlowTruth /\ c2[i] \in FlowEvent /\ Mixed(c1[i]) /\ Linked(i)
  BY <1>2, <1>3 DEF FlowInv, FlowCourse
<1>5. FL!Legal(c1[i], c2[i]) /\ c1[i + 1] = FL!Moved(c1[i], c2[i])
  BY <1>4 DEF Linked
<1>6. FlowPosition(p) /\ Attributed(p, c1[i + 1])
  BY <1>2, <1>4, <1>5, FlowReplays
<1> HIDE DEF p, i
<1>7. c4' = [head |-> c4.head, done |-> i, pos |-> p]
  BY <1>1, <1>2
<1>8. c4'.head = c4.head /\ c4'.done = i /\ c4'.pos = p
  BY <1>7
<1>9. FlowChecked'
  BY <1>1, <1>2, <1>3, <1>6, <1>7, <1>8 DEF FlowChecked, FlowPosition, Attributed
<1>10. FlowCourse'
  BY <1>1 DEF FlowInv, FlowCourse, Linked
<1> QED BY <1>1, <1>9, <1>10 DEF FlowInv, FlowPosition, Attributed

LEMMA FlowFinish ==
  ASSUME FlowInv, FL!Finish
  PROVE  FlowInv'
<1> DEFINE h == c4.head
<1>1. /\ c4 # FL!NoCheck /\ c4.done = h /\ c3' = c4.pos /\ c4' = FL!NoCheck
      /\ c1' = SubSeq(c1, h + 1, Len(c1)) /\ c2' = SubSeq(c2, h + 1, Len(c2))
  BY DEF FL!Finish
<1>2. /\ c1 \in Seq(FlowTruth) /\ c2 \in Seq(FlowEvent) /\ Len(c1) = Len(c2) + 1
      /\ h \in 1..Len(c2) /\ FlowPosition(c4.pos) /\ Attributed(c4.pos, c1[h + 1])
  BY <1>1 DEF FlowInv, FlowCourse, FlowChecked
<1>3. Len(c2) \in Nat /\ h \in Nat /\ h <= Len(c2)
  BY <1>2
<1> HIDE DEF h
<1>4. /\ c1' \in Seq(FlowTruth) /\ Len(c1') = Len(c1) - h
      /\ \A i \in 1..(Len(c1) - h) : c1'[i] = c1[h + i]
  BY <1>1, <1>2, <1>3
<1>5. /\ c2' \in Seq(FlowEvent) /\ Len(c2') = Len(c2) - h
      /\ \A i \in 1..(Len(c2) - h) : c2'[i] = c2[h + i]
  BY <1>1, <1>2, <1>3
<1>6. \A i \in 1..Len(c1') : Mixed(c1'[i])
  <2> SUFFICES ASSUME NEW i \in 1..Len(c1') PROVE Mixed(c1'[i])
    OBVIOUS
  <2>1. c1'[i] = c1[h + i] /\ h + i \in 1..Len(c1)
    BY <1>2, <1>3, <1>4
  <2> QED BY <2>1 DEF FlowInv, FlowCourse
<1>7. \A i \in 1..Len(c2') : Linked(i)'
  <2> SUFFICES ASSUME NEW i \in 1..Len(c2') PROVE Linked(i)'
    OBVIOUS
  <2>1. h + i \in 1..Len(c2) /\ i \in 1..(Len(c1) - h) /\ i + 1 \in 1..(Len(c1) - h) /\ i \in 1..(Len(c2) - h)
    BY <1>2, <1>3, <1>5
  <2>2. c1'[i] = c1[h + i] /\ c1'[i + 1] = c1[h + i + 1] /\ c2'[i] = c2[h + i]
    BY <1>3, <1>4, <1>5, <2>1
  <2>3. Linked(h + i)
    BY <2>1 DEF FlowInv, FlowCourse
  <2> QED BY <2>2, <2>3 DEF Linked
<1>8. FlowCourse'
  BY <1>2, <1>3, <1>4, <1>5, <1>6, <1>7 DEF FlowCourse, Mixed
<1>9. c1'[1] = c1[h + 1]
  BY <1>2, <1>3, <1>4
<1> QED BY <1>1, <1>2, <1>8, <1>9 DEF FlowInv, FlowPosition, Attributed, FL!NoCheck

LEMMA FlowFails ==
  ASSUME FlowInv, FL!Fail
  PROVE  FlowInv'
<1>1. c1' = c1 /\ c2' = c2 /\ c3' = c3 /\ c4' = FL!NoCheck
  BY DEF FL!Fail
<1> QED BY <1>1 DEF FlowInv, FlowCourse, Linked, FlowPosition, Attributed, FL!NoCheck

LEMMA FlowStep ==
  ASSUME FlowInv, FL!Next
  PROVE  FlowInv'
<1>1. CASE \E e \in FL!Event : FL!Transfer(e)
  BY <1>1, FlowGoesOn
<1>2. CASE FL!Begin
  BY <1>2, FlowBegins
<1>3. CASE FL!Replay
  BY <1>3, FlowReplay
<1>4. CASE FL!Finish
  BY <1>4, FlowFinish
<1>5. CASE FL!Fail
  BY <1>5, FlowFails
<1> QED BY <1>1, <1>2, <1>3, <1>4, <1>5 DEF FL!Next

(* The steps of the other parts leave the transfers as they are.           *)
LEMMA FlowStutters ==
  ASSUME FlowInv, UNCHANGED <<c1, c2, c3, c4>>
  PROVE  FlowInv'
BY DEF FlowInv, FlowCourse, Linked, FlowChecked, FlowPosition, Attributed, FL!NoCheck

(* It is claimed of behaviours of this part only.                          *)
PartFlow == part = "flow" => FlowInv

(* Nothing is attributed to a wallet of the checkpoint, or to the sales,   *)
(* that was not bought by the cohort (seed_position, replay_position,      *)
(* position_check), whichever tokens the wallets really sent, whatever was *)
(* sent while a check ran, and whichever checks failed, for all sets of    *)
(* wallets, amounts and numbers of transfers.                              *)
THEOREM AttributedTokensAreReal == Spec => []AttributedIsReal
<1>1. Init => PartFlow
  <2>1. Init /\ part = "flow" => FL!Init
    BY DEF Init
  <2> QED BY <2>1, FlowInit DEF PartFlow
<1>2. PartFlow /\ [Next]_<<part, c1, c2, c3, c4, c5, c6, c7, c8, c9, c10>> => PartFlow'
  <2> SUFFICES ASSUME PartFlow, [Next]_<<part, c1, c2, c3, c4, c5, c6, c7, c8, c9, c10>>,
                      part' = "flow"
               PROVE  FlowInv'
    BY DEF PartFlow
  <2>1. part = "flow" /\ FlowInv
    BY DEF Next, PartFlow
  <2>2. CASE UNCHANGED <<part, c1, c2, c3, c4, c5, c6, c7, c8, c9, c10>>
    BY <2>1, <2>2, FlowStutters
  <2>3. CASE Next
    <3>1. FL!Next
      BY <2>1, <2>3 DEF Next
    <3> QED BY <2>1, <3>1, FlowStep
  <2> QED BY <2>2, <2>3
<1>3. PartFlow => AttributedIsReal
  BY DEF PartFlow, FlowInv, Attributed, AttributedIsReal, FL!AttributedIsReal
<1> QED BY <1>1, <1>2, <1>3, PTL DEF Spec
===============================================================================
