-------------------------- MODULE RpcLedgerProofs --------------------------
(* Proofs about RpcLedger for any scans, limit, grants, clocks and costs.  *)
EXTENDS RpcLedger, TLAPS

AtMost(a, b) == \A m \in Months : a[m] <= b[m]
Capped(used) == \A m \in Months : used[m] <= Limit

(* What a scan holds is in the ledger, and what it is about to hold is in  *)
(* the ledger it commits.                                                  *)
Sound(s) ==
  /\ Capped(s.local) /\ Capped(s.payload.used)
  /\ \A m \in Months : spent[m] + Left(s.grant, m) <= doc.used[m]
  /\ s.phase = "ready" /\ ~s.failed => \A m \in Months : spent[m] + Left(s.grant, m) <= s.local[m]
  /\ s.phase \in {"post", "waiting", "readback"} =>
       s.local = s.payload.used /\ \A m \in Months : spent[m] + Left(s.next, m) <= s.local[m]
  /\ s.phase \in {"new", "over"} => s.grant = NoGrant

(* A write that has read the ledger does not lower what it has read, and   *)
(* an acknowledged ledger is covered by the stored one.                    *)
Carried(f) ==
  /\ Capped(f.payload.used)
  /\ f.stage = "read" => AtMost(f.seen[2], f.payload.used)
  /\ f.stage = "yes" => AtMost(f.payload.used, doc.used)

Serial == \A v, w \in Scans : Active(v) /\ Active(w) => v = w

(* The inductive invariant.                                                *)
IInv ==
  /\ TypeOK
  /\ Capped(doc.used) /\ Capped(cache)
  /\ \A w \in Scans : Sound(scan[w])
  /\ \A f \in flight : Carried(f)
  /\ Serial

LEMMA MaxOfTwo ==
  ASSUME NEW a \in Int, NEW b \in Int
  PROVE  Max({a, b}) \in {a, b} /\ a <= Max({a, b}) /\ b <= Max({a, b})
<1>1. \E x \in {a, b} : \A y \in {a, b} : x >= y
  OBVIOUS
<1> QED BY <1>1 DEF Max

LEMMA MinOfTwo ==
  ASSUME NEW a \in Int, NEW b \in Int
  PROVE  Min({a, b}) \in {a, b} /\ Min({a, b}) <= a /\ Min({a, b}) <= b
<1>1. \E x \in {a, b} : \A y \in {a, b} : x =< y
  OBVIOUS
<1> QED BY <1>1 DEF Min

LEMMA UnitTypes ==
  /\ Limit \in Nat /\ Chunk \in Nat /\ Skew \in Nat /\ MaxTime \in Nat
  /\ \A units \in Costs : units \in Nat
BY LedgerAssumption

(* The months of the clock are the months of the ledger.                   *)
LEMMA MonthOfClock ==
  ASSUME NEW t \in Nat, t <= MaxTime
  PROVE  Month(t) \in Months /\ Month(t) \in Nat
<1>1. MaxTime \in Nat /\ MonthTicks \in Nat /\ MonthTicks > 0
  BY LedgerAssumption
<1> DEFINE q == t \div MonthTicks
           m == MaxTime \div MonthTicks
<1>2. q \in Nat /\ m \in Nat
  BY <1>1
<1>3. q * MonthTicks <= t /\ MaxTime < (m + 1) * MonthTicks
  BY <1>1
<1>4. q <= m
  <2> HIDE DEF q, m
  <2> SUFFICES ASSUME q >= m + 1 PROVE FALSE
    BY <1>2
  <2>1. q * MonthTicks >= (m + 1) * MonthTicks
    BY <1>1, <1>2
  <2> QED BY <1>1, <1>2, <1>3, <2>1
<1> QED BY <1>2, <1>4 DEF Month, Months

LEMMA MonthTypes == Months \subseteq Nat /\ 0 \in Months
<1>1. 0 \in Nat /\ MaxTime \in Nat
  BY UnitTypes
<1>2. Month(0) \in Months /\ Month(MaxTime) \in Nat
  BY <1>1, MonthOfClock
<1> QED BY <1>2 DEF Months

LEMMA AtMostSelf == ASSUME NEW used \in Ledger PROVE AtMost(used, used)
BY DEF AtMost, Ledger

LEMMA AtMostTransitive ==
  ASSUME NEW a \in Ledger, NEW b \in Ledger, NEW c \in Ledger, AtMost(a, b), AtMost(b, c)
  PROVE  AtMost(a, c)
<1> SUFFICES ASSUME NEW m \in Months PROVE a[m] <= c[m]
  BY DEF AtMost
<1>1. a[m] \in Nat /\ b[m] \in Nat /\ c[m] \in Nat
  BY DEF Ledger
<1>2. a[m] <= b[m] /\ b[m] <= c[m]
  BY DEF AtMost
<1> QED BY <1>1, <1>2

LEMMA EmptyTypes ==
  /\ Nothing \in Ledger /\ NoGrant \in Grant /\ NoDoc \in Document /\ New \in Scan /\ Over \in Scan
  /\ Unseen \in (Scans \cup {"nobody"}) \X Ledger
<1>1. Nothing \in Ledger
  BY DEF Nothing, Ledger
<1>2. NoGrant \in Grant
  BY MonthTypes DEF NoGrant, Grant
<1>3. NoDoc \in Document
  BY <1>1 DEF NoDoc, Document
<1>4. New \in Scan
  BY <1>1, <1>2, <1>3 DEF New, Scan
<1>5. Over \in Scan
  BY <1>4 DEF Over, Scan
<1>6. Unseen \in (Scans \cup {"nobody"}) \X Ledger
  BY <1>3 DEF Unseen, Content, Document
<1> QED BY <1>1, <1>2, <1>3, <1>4, <1>5, <1>6

LEMMA LeftType ==
  ASSUME NEW g \in Grant, NEW m \in Months
  PROVE  Left(g, m) \in Nat /\ Left(NoGrant, m) = 0
BY DEF Left, Grant, NoGrant

(* What the invariant says of a scan.                                      *)
LEMMA ScanFacts ==
  ASSUME IInv, NEW w \in Scans
  PROVE  /\ scan[w] \in Scan /\ Sound(scan[w])
         /\ now \in Nat /\ now <= MaxTime
         /\ doc \in Document /\ doc.used \in Ledger
         /\ spent \in Ledger /\ cache \in Ledger
BY UnitTypes DEF IInv, TypeOK, Document

LEMMA ClockType ==
  ASSUME IInv, NEW w \in Scans
  PROVE  /\ Clock(w) \in Nat /\ Clock(w) <= now
         /\ Month(Clock(w)) \in Months /\ Month(Clock(w)) \in Nat
<1>1. now \in Nat /\ now <= MaxTime /\ scan[w].lag \in Nat
  BY ScanFacts DEF Scan
<1> DEFINE b == now - scan[w].lag
<1>2. Clock(w) \in {0, b} /\ 0 <= Clock(w)
  <2>1. b \in Int /\ 0 \in Int
    BY <1>1
  <2>2. Clock(w) = Max({0, b})
    BY DEF Clock
  <2> HIDE DEF b
  <2> QED BY <2>1, <2>2, MaxOfTwo
<1>3. Clock(w) \in Nat /\ Clock(w) <= now
  BY <1>1, <1>2
<1> QED BY <1>1, <1>3, MonthOfClock, UnitTypes

(* A step of a scan that leaves the Worker and the counters alone.         *)
LEMMA ScanOnly ==
  ASSUME IInv, NEW w \in Scans, NEW s \in Scan, Set(w, s), Sound(s),
         Active(w) \/ s.phase = "over" \/ \A v \in Scans : ~Active(v),
         UNCHANGED <<now, doc, flight, cache, spent>>
  PROVE  IInv'
<1>1. scan' = [scan EXCEPT ![w] = s] /\ scan' \in [Scans -> Scan]
  BY DEF IInv, TypeOK, Set
<1>2. TypeOK'
  BY <1>1 DEF IInv, TypeOK
<1>3. \A v \in Scans : Sound(scan[v])'
  BY <1>1 DEF IInv, TypeOK, Sound
<1>4. \A f \in flight' : Carried(f)'
  BY DEF IInv, Carried
<1>5. Serial'
  BY <1>1 DEF IInv, TypeOK, Serial, Active
<1> QED BY <1>2, <1>3, <1>4, <1>5 DEF IInv, Capped

-----------------------------------------------------------------------------
(* The steps of a scan.                                                    *)

LEMMA InitHolds == Init => IInv
<1> SUFFICES ASSUME Init PROVE IInv
  OBVIOUS
<1>1. TypeOK
  BY EmptyTypes, UnitTypes DEF Init, TypeOK, Ledger
<1>2. Capped(Nothing)
  BY UnitTypes DEF Capped, Nothing
<1>3. Capped(doc.used) /\ Capped(cache)
  BY <1>2 DEF Init, NoDoc
<1>4. \A w \in Scans : Sound(scan[w])
  <2> TAKE w \in Scans
  <2>1. scan[w] = New /\ spent = Nothing /\ doc = NoDoc
    BY DEF Init
  <2>2. Capped(New.local) /\ Capped(New.payload.used)
    BY <1>2 DEF New, NoDoc
  <2>3. \A m \in Months : spent[m] + Left(New.grant, m) <= doc.used[m]
    BY <2>1, LeftType, EmptyTypes DEF New, Nothing, NoDoc
  <2> QED BY <2>1, <2>2, <2>3 DEF Sound, New
<1>5. Serial
  BY DEF Init, Serial, Active, New
<1> QED BY <1>1, <1>3, <1>4, <1>5 DEF IInv, Init

LEMMA StartPreserves ==
  ASSUME IInv, NEW w \in Scans, Start(w)
  PROVE  IInv'
<1>1. PICK local \in {cache, Nothing}, lag \in 0 .. Skew :
        Set(w, [New EXCEPT !.phase = "load", !.local = local, !.lag = lag])
  BY DEF Start
<1> DEFINE s == [New EXCEPT !.phase = "load", !.local = local, !.lag = lag]
<1>2. local \in Ledger /\ Capped(local) /\ lag \in Nat
  BY UnitTypes, EmptyTypes DEF IInv, TypeOK, Capped, Nothing
<1>3. s \in Scan
  BY <1>2, EmptyTypes DEF Scan
<1>4. /\ s.local = local /\ s.payload = NoDoc /\ s.grant = NoGrant /\ s.phase = "load"
  BY DEF New
<1>5. Capped(NoDoc.used)
  BY UnitTypes DEF Capped, NoDoc, Nothing
<1>6. \A m \in Months : spent[m] + Left(NoGrant, m) <= doc.used[m]
  <2> TAKE m \in Months
  <2>1. spent[m] \in Nat /\ doc.used[m] \in Nat
    BY ScanFacts DEF Ledger
  <2>2. spent[m] + Left(scan[w].grant, m) <= doc.used[m] /\ Left(scan[w].grant, m) \in Nat
    BY ScanFacts, LeftType DEF Sound, Scan
  <2> QED BY <2>1, <2>2, LeftType, EmptyTypes
<1>7. Sound(s)
  BY <1>2, <1>4, <1>5, <1>6 DEF Sound
<1>8. Set(w, s)
  BY <1>1
<1> HIDE DEF s
<1> QED BY <1>3, <1>4, <1>7, <1>8, ScanOnly DEF Start

LEMMA LoadPreserves ==
  ASSUME IInv, NEW w \in Scans, LoadLedger(w)
  PROVE  IInv'
<1>1. scan[w] \in Scan /\ Sound(scan[w]) /\ scan[w].phase = "load" /\ Active(w)
  BY ScanFacts DEF LoadLedger, Active
<1> DEFINE merged == Merge(scan[w].local, doc.used)
           s == [scan[w] EXCEPT !.phase = "ready", !.local = merged, !.rev = doc.rev]
           t == [scan[w] EXCEPT !.phase = "ready", !.failed = TRUE]
<1>2. merged \in Ledger /\ Capped(merged) /\ AtMost(doc.used, merged)
  <2>1. scan[w].local \in Ledger /\ doc.used \in Ledger /\ Capped(scan[w].local) /\ Capped(doc.used)
    BY <1>1, ScanFacts DEF Scan, Sound, IInv
  <2>2. merged = [m \in Months |-> Max({scan[w].local[m], doc.used[m]})]
    BY DEF Merge
  <2>3. ASSUME NEW m \in Months
        PROVE  merged[m] \in Nat /\ merged[m] <= Limit /\ doc.used[m] <= merged[m]
    <3> DEFINE a == scan[w].local[m]
               b == doc.used[m]
    <3>1. a \in Nat /\ b \in Nat /\ a <= Limit /\ b <= Limit
      BY <2>1 DEF Ledger, Capped
    <3>2. merged[m] = Max({a, b})
      BY <2>2
    <3> HIDE DEF a, merged
    <3>3. Max({a, b}) \in {a, b} /\ b <= Max({a, b})
      <4> HIDE DEF b
      <4> QED BY <3>1, MaxOfTwo
    <3> QED BY <3>1, <3>2, <3>3
  <2> HIDE DEF merged
  <2> QED BY <2>2, <2>3 DEF Ledger, Capped, AtMost
<1>3. CASE Set(w, s)
  <2> HIDE DEF merged
  <2>1. s \in Scan
    BY <1>1, <1>2, ScanFacts DEF Scan, Document
  <2>2. \A m \in Months : spent[m] + Left(scan[w].grant, m) <= merged[m]
    <3> TAKE m \in Months
    <3>1. spent[m] \in Nat /\ Left(scan[w].grant, m) \in Nat /\ doc.used[m] \in Nat /\ merged[m] \in Nat
      BY <1>1, <1>2, ScanFacts, LeftType DEF Ledger, Scan
    <3>2. spent[m] + Left(scan[w].grant, m) <= doc.used[m] /\ doc.used[m] <= merged[m]
      BY <1>1, <1>2 DEF Sound, AtMost
    <3> QED BY <3>1, <3>2
  <2>3. /\ s.local = merged /\ s.payload = scan[w].payload /\ s.grant = scan[w].grant
        /\ s.phase = "ready"
    BY <1>1 DEF Scan
  <2>4. Sound(s)
    BY <1>1, <1>2, <2>2, <2>3 DEF Sound
  <2> HIDE DEF s
  <2> QED BY <1>1, <1>3, <2>1, <2>4, ScanOnly DEF LoadLedger
<1>4. CASE Set(w, t)
  <2>1. t \in Scan
    BY <1>1 DEF Scan
  <2>2. Sound(t)
    BY <1>1 DEF Scan, Sound
  <2> HIDE DEF t
  <2> QED BY <1>1, <1>4, <2>1, <2>2, ScanOnly DEF LoadLedger
<1> QED BY <1>3, <1>4 DEF LoadLedger

LEMMA SpendPreserves ==
  ASSUME IInv, NEW w \in Scans, Spend(w)
  PROVE  IInv'
<1>1. /\ scan[w] \in Scan /\ Sound(scan[w]) /\ scan[w].phase = "ready" /\ ~scan[w].failed
      /\ Active(w) /\ spent \in Ledger /\ doc.used \in Ledger
  BY ScanFacts DEF Spend, Active
<1> DEFINE n == Month(Clock(w))
<1>2. n \in Months /\ n \in Nat
  BY ClockType
<1>3. PICK units \in Costs :
        /\ Allows(w, units)
        /\ Set(w, [scan[w] EXCEPT !.grant.left = @ - units])
        /\ spent' = [spent EXCEPT ![n] = @ + units]
  BY DEF Spend
<1> HIDE DEF n
<1>4. units \in Nat /\ units <= scan[w].grant.left /\ scan[w].grant.month = n
  BY <1>3, UnitTypes DEF Allows, n
<1> DEFINE g == [scan[w].grant EXCEPT !.left = @ - units]
           s == [scan[w] EXCEPT !.grant = g]
<1>5. Set(w, s)
  BY <1>3
<1>6. g \in Grant /\ g.month = n /\ g.left = scan[w].grant.left - units
  BY <1>1, <1>4 DEF Scan, Grant
<1>7. s \in Scan
  <2> HIDE DEF g
  <2> QED BY <1>1, <1>6 DEF Scan
<1>8. spent' \in Ledger
  BY <1>1, <1>2, <1>3, <1>4 DEF Ledger
<1>9. \A m \in Months : spent'[m] + Left(g, m) = spent[m] + Left(scan[w].grant, m)
  <2> TAKE m \in Months
  <2>1. CASE m = n
    <3>1. spent'[m] = spent[m] + units /\ spent[m] \in Nat
      BY <1>1, <1>2, <1>3, <2>1 DEF Ledger
    <3>2. Left(g, m) = scan[w].grant.left - units /\ Left(scan[w].grant, m) = scan[w].grant.left
      BY <1>4, <1>6, <2>1 DEF Left
    <3>3. scan[w].grant.left \in Nat
      BY <1>1 DEF Scan, Grant
    <3> QED BY <1>4, <3>1, <3>2, <3>3
  <2>2. CASE m # n
    <3>1. spent'[m] = spent[m]
      BY <1>1, <1>3, <2>2 DEF Ledger
    <3>2. Left(g, m) = 0 /\ Left(scan[w].grant, m) = 0
      BY <1>4, <1>6, <2>2 DEF Left
    <3> QED BY <3>1, <3>2
  <2> QED BY <2>1, <2>2
<1>10. scan' = [scan EXCEPT ![w] = s] /\ scan' \in [Scans -> Scan]
  <2> HIDE DEF s
  <2> QED BY <1>5, <1>7 DEF Set, IInv, TypeOK
<1>11. TypeOK'
  BY <1>8, <1>10 DEF Spend, IInv, TypeOK
<1>12. ASSUME NEW v \in Scans
       PROVE  Sound(scan[v])'
  <2>1. CASE v = w
    <3> HIDE DEF g
    <3>1. /\ s.local = scan[w].local /\ s.payload = scan[w].payload /\ s.grant = g
          /\ s.phase = "ready" /\ ~s.failed
      BY <1>1 DEF Scan
    <3>2. scan'[v] = s
      BY <1>10, <2>1 DEF IInv, TypeOK
    <3> HIDE DEF s
    <3>3. \A m \in Months : spent'[m] + Left(s.grant, m) <= doc.used[m] /\ spent'[m] + Left(s.grant, m) <= s.local[m]
      BY <1>1, <1>9, <3>1 DEF Sound
    <3> QED BY <1>1, <3>1, <3>2, <3>3 DEF Sound, Spend
  <2>2. CASE v # w
    <3>1. scan'[v] = scan[v] /\ Sound(scan[v]) /\ scan[v].phase \in {"new", "over"} /\ scan[v].grant = NoGrant
      BY <1>1, <1>10, <2>2 DEF IInv, TypeOK, Serial, Active, Sound
    <3>2. ASSUME NEW m \in Months
          PROVE  spent'[m] + Left(scan[v].grant, m) <= doc.used[m]
      <4>1. Left(scan[v].grant, m) = 0 /\ Left(g, m) \in Nat
        <5> HIDE DEF g
        <5> QED BY <1>6, <3>1, LeftType, EmptyTypes
      <4>2. spent'[m] + Left(g, m) <= doc.used[m] /\ spent'[m] \in Nat /\ doc.used[m] \in Nat
        BY <1>1, <1>8, <1>9 DEF Sound, Ledger
      <4> QED BY <4>1, <4>2
    <3> QED BY <3>1, <3>2 DEF Sound, Spend
  <2> QED BY <2>1, <2>2
<1>13. Serial'
  <2>1. s.phase = scan[w].phase
    BY <1>1 DEF Scan
  <2> HIDE DEF s
  <2> QED BY <1>10, <2>1 DEF IInv, TypeOK, Serial, Active
<1> QED BY <1>11, <1>12, <1>13 DEF IInv, Capped, Carried, Spend

LEMMA AllocatePreserves ==
  ASSUME IInv, NEW w \in Scans, Allocate(w)
  PROVE  IInv'
<1>1. /\ scan[w] \in Scan /\ Sound(scan[w]) /\ scan[w].phase = "ready" /\ ~scan[w].failed
      /\ Active(w) /\ spent \in Ledger /\ scan[w].local \in Ledger
  BY ScanFacts DEF Allocate, Active, Scan
<1> DEFINE n == Month(Clock(w))
<1>2. n \in Months /\ n \in Nat /\ Clock(w) \in Nat
  BY ClockType
<1>3. PICK units \in Costs :
        LET amount == Amount(w, units)
            used == [scan[w].local EXCEPT ![n] = @ + amount]
        IN Set(w, [scan[w] EXCEPT !.phase = "post", !.local = used, !.attempt = 0,
                     !.next = [month |-> n, left |-> amount],
                     !.payload = [by |-> w, used |-> used, source |-> Clock(w), rev |-> scan[w].rev + 1]])
  BY DEF Allocate
<1> DEFINE k == Amount(w, units)
<1>4. k \in Nat /\ scan[w].local[n] + k <= Limit
  <2> DEFINE a == Limit - scan[w].local[n]
             r == Max({0, a})
             c == Max({Chunk, units})
  <2>1. scan[w].local[n] \in Nat /\ scan[w].local[n] <= Limit /\ a \in Int
    BY <1>1, <1>2, UnitTypes DEF Ledger, Sound, Capped
  <2>2. r = Max({0, a}) /\ c = Max({Chunk, units}) /\ k = Min({r, c}) /\ a = Limit - scan[w].local[n]
    BY DEF Amount, Remaining
  <2>3. Chunk \in Int /\ units \in Int /\ Chunk \in Nat /\ units \in Nat
    BY UnitTypes
  <2> HIDE DEF a, r, c, k
  <2>4. r \in {0, a} /\ 0 <= r
    BY <2>1, <2>2, MaxOfTwo
  <2>5. c \in {Chunk, units}
    BY <2>2, <2>3, MaxOfTwo
  <2>6. r \in Nat /\ c \in Nat /\ r <= a /\ r \in Int /\ c \in Int
    <3>1. 0 <= a
      BY <2>1, <2>2, UnitTypes
    <3> QED BY <2>1, <2>3, <2>4, <2>5, <3>1
  <2>7. k \in {r, c} /\ k <= r
    BY <2>2, <2>6, MinOfTwo
  <2> HIDE DEF n
  <2> QED BY <2>1, <2>2, <2>6, <2>7, UnitTypes
<1> DEFINE l == [scan[w].local EXCEPT ![n] = @ + k]
           g == [month |-> n, left |-> k]
           d == [by |-> w, used |-> l, source |-> Clock(w), rev |-> scan[w].rev + 1]
           s == [scan[w] EXCEPT !.phase = "post", !.local = l, !.attempt = 0, !.next = g, !.payload = d]
<1>5. Set(w, s)
  BY <1>3
<1> HIDE DEF n, k
<1>6. l \in Ledger /\ Capped(l)
  BY <1>1, <1>2, <1>4 DEF Ledger, Sound, Capped
<1>7. g \in Grant
  BY <1>2, <1>4 DEF Grant
<1>8. d \in Document /\ d.used = l
  <2>1. scan[w].rev + 1 \in Nat
    BY <1>1 DEF Scan
  <2> HIDE DEF l
  <2> QED BY <1>2, <1>6, <2>1 DEF Document
<1>9. s \in Scan
  <2> HIDE DEF l, g, d
  <2> QED BY <1>1, <1>6, <1>7, <1>8 DEF Scan
<1>10. \A m \in Months : spent[m] + Left(g, m) <= l[m]
  <2> TAKE m \in Months
  <2>1. spent[m] \in Nat /\ scan[w].local[m] \in Nat /\ spent[m] <= scan[w].local[m]
    <3>1. Left(scan[w].grant, m) \in Nat /\ spent[m] \in Nat /\ scan[w].local[m] \in Nat
      BY <1>1, LeftType DEF Scan, Ledger
    <3>2. spent[m] + Left(scan[w].grant, m) <= scan[w].local[m]
      BY <1>1 DEF Sound
    <3> QED BY <3>1, <3>2
  <2>2. CASE m = n
    <3>1. l[m] = scan[w].local[m] + k /\ Left(g, m) = k
      BY <1>1, <2>2 DEF Ledger, Left
    <3> QED BY <1>4, <2>1, <3>1
  <2>3. CASE m # n
    <3>1. l[m] = scan[w].local[m] /\ Left(g, m) = 0
      BY <1>1, <2>3 DEF Ledger, Left
    <3> QED BY <2>1, <3>1
  <2> QED BY <2>2, <2>3
<1>11. /\ s.local = l /\ s.payload = d /\ s.grant = scan[w].grant /\ s.next = g /\ s.phase = "post"
  <2> HIDE DEF l, g, d
  <2> QED BY <1>1 DEF Scan
<1>12. Sound(s)
  <2> HIDE DEF l, g, d, s
  <2> QED BY <1>1, <1>6, <1>8, <1>10, <1>11 DEF Sound
<1> HIDE DEF s
<1> QED BY <1>1, <1>5, <1>9, <1>12, ScanOnly DEF Allocate

-----------------------------------------------------------------------------
(* The commit of a grant.                                                  *)

LEMMA CommittingFacts ==
  ASSUME IInv, NEW w \in Scans, scan[w].phase \in {"post", "waiting", "readback"}
  PROVE  /\ scan[w] \in Scan /\ Sound(scan[w]) /\ Active(w)
         /\ scan[w].local = scan[w].payload.used /\ scan[w].payload \in Document
         /\ \A m \in Months : spent[m] + Left(scan[w].next, m) <= scan[w].local[m]
BY ScanFacts DEF Sound, Active, Scan

(* The phases that keep the ledger that is committed.                      *)
LEMMA CommitOnly ==
  ASSUME IInv, NEW w \in Scans, scan[w].phase \in {"post", "waiting", "readback"},
         NEW phase \in {"post", "waiting", "readback"}, NEW attempt \in {0, 1}
  PROVE  LET s == [scan[w] EXCEPT !.phase = phase, !.attempt = attempt] IN s \in Scan /\ Sound(s)
<1>1. scan[w] \in Scan /\ Sound(scan[w])
  BY CommittingFacts
<1> DEFINE s == [scan[w] EXCEPT !.phase = phase, !.attempt = attempt]
<1>2. /\ s.local = scan[w].local /\ s.payload = scan[w].payload /\ s.grant = scan[w].grant
      /\ s.next = scan[w].next /\ s.phase = phase
  BY <1>1 DEF Scan
<1>3. s \in Scan
  BY <1>1 DEF Scan
<1> HIDE DEF s
<1>4. Sound(s)
  BY <1>1, <1>2 DEF Sound
<1> QED BY <1>3, <1>4 DEF s

(* What a commit that is granted or refused leaves is sound.               *)
LEMMA GrantedSound ==
  ASSUME IInv, NEW w \in Scans, scan[w].phase \in {"post", "waiting", "readback"},
         AtMost(scan[w].payload.used, doc.used)
  PROVE  LET s == [scan[w] EXCEPT !.phase = "ready", !.grant = scan[w].next, !.rev = scan[w].payload.rev,
                     !.next = NoGrant, !.payload = NoDoc, !.attempt = 0]
         IN s \in Scan /\ Sound(s)
<1> DEFINE s == [scan[w] EXCEPT !.phase = "ready", !.grant = scan[w].next, !.rev = scan[w].payload.rev,
                   !.next = NoGrant, !.payload = NoDoc, !.attempt = 0]
<1>1. /\ scan[w] \in Scan /\ Sound(scan[w])
      /\ scan[w].local = scan[w].payload.used
      /\ \A m \in Months : spent[m] + Left(scan[w].next, m) <= scan[w].local[m]
  BY CommittingFacts
<1>2. s \in Scan
  BY <1>1, EmptyTypes DEF Scan, Document
<1>3. s.local = scan[w].local /\ s.payload = NoDoc /\ s.grant = scan[w].next /\ s.phase = "ready"
  BY <1>1 DEF Scan
<1>4. \A m \in Months : spent[m] + Left(scan[w].next, m) <= doc.used[m]
  <2> TAKE m \in Months
  <2>1. spent[m] \in Nat /\ doc.used[m] \in Nat /\ scan[w].local[m] \in Nat /\ Left(scan[w].next, m) \in Nat
    BY <1>1, ScanFacts, LeftType DEF Ledger, Scan
  <2>2. scan[w].local[m] <= doc.used[m] /\ spent[m] + Left(scan[w].next, m) <= scan[w].local[m]
    BY <1>1 DEF AtMost
  <2> QED BY <2>1, <2>2
<1>5. Capped(NoDoc.used)
  BY UnitTypes DEF Capped, NoDoc, Nothing
<1> HIDE DEF s
<1>6. Sound(s)
  BY <1>1, <1>3, <1>4, <1>5 DEF Sound
<1> QED BY <1>2, <1>6 DEF s

LEMMA RefusedSound ==
  ASSUME IInv, NEW w \in Scans, scan[w].phase \in {"post", "waiting", "readback"}
  PROVE  LET s == [scan[w] EXCEPT !.phase = "ready", !.failed = TRUE, !.next = NoGrant, !.payload = NoDoc, !.attempt = 0]
         IN s \in Scan /\ Sound(s)
<1> DEFINE s == [scan[w] EXCEPT !.phase = "ready", !.failed = TRUE, !.next = NoGrant, !.payload = NoDoc, !.attempt = 0]
<1>1. scan[w] \in Scan /\ Sound(scan[w])
  BY CommittingFacts
<1>2. s \in Scan
  BY <1>1, EmptyTypes DEF Scan
<1>3. s.local = scan[w].local /\ s.payload = NoDoc /\ s.grant = scan[w].grant /\ s.phase = "ready" /\ s.failed
  BY <1>1 DEF Scan
<1>4. Capped(NoDoc.used)
  BY UnitTypes DEF Capped, NoDoc, Nothing
<1> HIDE DEF s
<1>5. Sound(s)
  BY <1>1, <1>3, <1>4 DEF Sound
<1> QED BY <1>2, <1>5 DEF s

LEMMA TimeoutPreserves ==
  ASSUME IInv, NEW w \in Scans, Timeout(w)
  PROVE  IInv'
<1>1. scan[w].phase = "waiting" /\ Active(w) /\ scan[w].attempt \in {0, 1} /\ scan[w] \in Scan
  BY ScanFacts DEF Timeout, Active, Scan
<1> DEFINE s == [scan[w] EXCEPT !.phase = "readback", !.attempt = scan[w].attempt]
<1>2. s \in Scan /\ Sound(s)
  BY <1>1, CommitOnly
<1>3. s = [scan[w] EXCEPT !.phase = "readback"]
  BY <1>1 DEF Scan
<1> HIDE DEF s
<1> QED BY <1>1, <1>2, <1>3, ScanOnly DEF Timeout

LEMMA ReadbackPreserves ==
  ASSUME IInv, NEW w \in Scans, Readback(w)
  PROVE  IInv'
<1>1. scan[w].phase = "readback" /\ Active(w) /\ scan[w] \in Scan /\ UNCHANGED <<now, doc, flight, cache, spent>>
  BY ScanFacts DEF Readback, Active
<1>2. CASE doc = scan[w].payload /\ Granted(w)
  <2>1. AtMost(scan[w].payload.used, doc.used)
    BY <1>2, AtMostSelf, ScanFacts
  <2> DEFINE s == [scan[w] EXCEPT !.phase = "ready", !.grant = scan[w].next, !.rev = scan[w].payload.rev,
                     !.next = NoGrant, !.payload = NoDoc, !.attempt = 0]
  <2>2. s \in Scan /\ Sound(s)
    BY <1>1, <2>1, GrantedSound
  <2>3. Set(w, s)
    BY <1>2 DEF Granted
  <2> HIDE DEF s
  <2> QED BY <1>1, <2>2, <2>3, ScanOnly
<1>3. CASE TryAgain(w)
  <2> DEFINE s == [scan[w] EXCEPT !.phase = "post", !.attempt = 1]
  <2>1. s \in Scan /\ Sound(s)
    BY <1>1, CommitOnly
  <2>2. Set(w, s)
    BY <1>3 DEF TryAgain
  <2> HIDE DEF s
  <2> QED BY <1>1, <2>1, <2>2, ScanOnly
<1>4. CASE Refused(w)
  <2> DEFINE s == [scan[w] EXCEPT !.phase = "ready", !.failed = TRUE, !.next = NoGrant, !.payload = NoDoc, !.attempt = 0]
  <2>1. s \in Scan /\ Sound(s)
    BY <1>1, RefusedSound
  <2>2. Set(w, s)
    BY <1>4 DEF Refused
  <2> HIDE DEF s
  <2> QED BY <1>1, <2>1, <2>2, ScanOnly
<1> QED BY <1>2, <1>3, <1>4 DEF Readback

LEMMA EndPreserves ==
  ASSUME IInv, NEW w \in Scans, End(w)
  PROVE  IInv'
<1>1. scan[w] \in Scan /\ Sound(scan[w]) /\ Active(w) /\ scan' = [scan EXCEPT ![w] = Over]
  BY ScanFacts DEF End, Set
<1>2. cache' \in Ledger /\ Capped(cache')
  BY <1>1, ScanFacts DEF End, IInv, Sound, Scan
<1>3. TypeOK' /\ scan' \in [Scans -> Scan]
  BY <1>1, <1>2, EmptyTypes DEF End, IInv, TypeOK
<1>4. ASSUME NEW v \in Scans
      PROVE  Sound(scan[v])'
  <2>1. CASE v = w
    <3>1. scan'[v] = Over /\ Over.local = Nothing /\ Over.payload = NoDoc /\ Over.grant = NoGrant /\ Over.phase = "over"
      BY <1>1, <2>1 DEF IInv, TypeOK, Over, New
    <3>2. Capped(Nothing) /\ Capped(NoDoc.used)
      BY UnitTypes DEF Capped, NoDoc, Nothing
    <3>3. ASSUME NEW m \in Months
          PROVE  spent[m] + Left(NoGrant, m) <= doc.used[m]
      <4>1. spent[m] \in Nat /\ doc.used[m] \in Nat /\ Left(scan[w].grant, m) \in Nat
        BY <1>1, ScanFacts, LeftType DEF Ledger, Scan
      <4>2. spent[m] + Left(scan[w].grant, m) <= doc.used[m]
        BY <1>1 DEF Sound
      <4> QED BY <4>1, <4>2, LeftType, EmptyTypes
    <3> QED BY <3>1, <3>2, <3>3 DEF Sound, End
  <2>2. CASE v # w
    <3>1. scan'[v] = scan[v] /\ Sound(scan[v])
      BY <1>1, <2>2 DEF IInv, TypeOK
    <3> QED BY <3>1 DEF Sound, End
  <2> QED BY <2>1, <2>2
<1>5. Serial'
  BY <1>1, <1>3 DEF IInv, TypeOK, Serial, Active, Over, New
<1> QED BY <1>2, <1>3, <1>4, <1>5 DEF IInv, Capped, Carried, End

-----------------------------------------------------------------------------
(* The messages and the Worker.                                            *)

LEMMA MessageFacts ==
  ASSUME IInv, NEW f \in flight
  PROVE  f \in Message /\ Carried(f) /\ f.payload \in Document /\ f.payload.used \in Ledger
BY DEF IInv, TypeOK, Message, Document

LEMMA ContentType ==
  ASSUME NEW d \in Document
  PROVE  /\ Content(d) \in (Scans \cup {"nobody"}) \X Ledger
         /\ Content(d)[2] = d.used /\ d.used \in Ledger
BY DEF Content, Document

(* A message of the next state is one of this state, or one that is sound  *)
(* by itself; the stored ledger does not go back.                          *)
LEMMA WorkerStep ==
  ASSUME IInv, doc' \in Document, Capped(doc'.used), AtMost(doc.used, doc'.used),
         NEW g \in Message, flight' \subseteq flight \cup {g}, g \in flight \/ Carried(g)',
         UNCHANGED <<now, scan, cache, spent>>
  PROVE  IInv'
<1>1. doc.used \in Ledger /\ doc'.used \in Ledger /\ spent \in Ledger
  BY ScanFacts, ContentType DEF IInv, TypeOK
<1>2. TypeOK'
  BY DEF IInv, TypeOK
<1>3. ASSUME NEW v \in Scans
      PROVE  Sound(scan[v])'
  <2>1. scan[v] \in Scan /\ Sound(scan[v])
    BY ScanFacts
  <2>2. ASSUME NEW m \in Months
        PROVE  spent[m] + Left(scan[v].grant, m) <= doc'.used[m]
    <3>1. /\ spent[m] \in Nat /\ doc.used[m] \in Nat /\ doc'.used[m] \in Nat
          /\ Left(scan[v].grant, m) \in Nat
      BY <1>1, <2>1, LeftType DEF Ledger, Scan
    <3>2. spent[m] + Left(scan[v].grant, m) <= doc.used[m] /\ doc.used[m] <= doc'.used[m]
      BY <2>1 DEF Sound, AtMost
    <3> QED BY <3>1, <3>2
  <2> QED BY <2>1, <2>2 DEF Sound
<1>4. ASSUME NEW f \in flight
      PROVE  Carried(f)'
  <2>1. Carried(f) /\ f.payload.used \in Ledger
    BY MessageFacts
  <2>2. f.stage = "yes" => AtMost(f.payload.used, doc'.used)
    BY <1>1, <2>1, AtMostTransitive DEF Carried
  <2> QED BY <2>1, <2>2 DEF Carried
<1>5. \A f \in flight' : Carried(f)'
  BY <1>4
<1>6. Serial'
  BY DEF IInv, Serial, Active
<1> QED BY <1>2, <1>3, <1>5, <1>6 DEF IInv, Capped

(* The stored ledger never goes back.                                      *)
LEMMA StoredGrows ==
  ASSUME IInv, NEW f \in flight, Write(f)
  PROVE  doc' \in Document /\ Capped(doc'.used) /\ AtMost(doc.used, doc'.used)
<1>1. /\ f \in Message /\ Carried(f) /\ f.payload \in Document /\ f.stage = "read"
      /\ doc \in Document /\ doc.used \in Ledger /\ Capped(doc.used)
  BY MessageFacts, ContentType DEF Write, IInv, TypeOK
<1>2. CASE doc' = doc
  BY <1>1, <1>2, AtMostSelf
<1>3. CASE doc' = f.payload /\ Unchanged(f)
  <2>1. f.seen[2] = doc.used
    BY <1>1, <1>3, ContentType DEF Unchanged
  <2> QED BY <1>1, <1>3, <2>1 DEF Carried
<1> QED BY <1>2, <1>3 DEF Write

LEMMA ReadPreserves ==
  ASSUME IInv, NEW f \in flight, Read(f)
  PROVE  IInv'
<1>1. /\ f \in Message /\ Carried(f) /\ f.payload \in Document /\ f.payload.used \in Ledger
      /\ doc \in Document /\ doc.used \in Ledger /\ Capped(doc.used)
  BY MessageFacts, ContentType DEF IInv, TypeOK
<1>2. PICK stage \in {"read", "yes", "no"}, seen \in {Unseen, Content(doc)} :
        /\ Move(f, stage, seen)
        /\ stage = "read" => ~Regresses(f.payload.used) /\ seen = Content(doc)
        /\ stage = "yes" => Content(f.payload) = Content(doc)
  <2>1. CASE Regresses(f.payload.used)
    BY <2>1 DEF Read
  <2>2. CASE ~Regresses(f.payload.used) /\ Content(f.payload) = Content(doc)
    BY <2>2 DEF Read
  <2>3. CASE ~Regresses(f.payload.used) /\ Content(f.payload) # Content(doc)
    BY <2>3 DEF Read
  <2> QED BY <2>1, <2>2, <2>3
<1> DEFINE g == [f EXCEPT !.stage = stage, !.seen = seen]
<1>3. g \in Message /\ g.payload = f.payload /\ g.stage = stage /\ g.seen = seen
  BY <1>1, ContentType, EmptyTypes DEF Message
<1>4. flight' \subseteq flight \cup {g}
  BY <1>2 DEF Move
<1> HIDE DEF g
<1>5. Carried(g)'
  <2>1. ASSUME stage = "read"
        PROVE  AtMost(seen[2], f.payload.used)
    <3>1. seen[2] = doc.used /\ ~Regresses(f.payload.used)
      BY <1>1, <1>2, <2>1, ContentType
    <3>2. ASSUME NEW m \in Months
          PROVE  doc.used[m] <= f.payload.used[m]
      <4>1. doc.used[m] \in Nat /\ f.payload.used[m] \in Nat
        BY <1>1 DEF Ledger
      <4>2. ~(f.payload.used[m] < doc.used[m])
        BY <3>1 DEF Regresses
      <4> QED BY <4>1, <4>2
    <3> QED BY <3>1, <3>2 DEF AtMost
  <2>2. ASSUME stage = "yes"
        PROVE  AtMost(f.payload.used, doc.used)
    <3>1. f.payload.used = doc.used
      BY <1>1, <1>2, <2>2, ContentType
    <3> QED BY <1>1, <3>1, AtMostSelf
  <2> QED BY <1>1, <1>3, <2>1, <2>2 DEF Carried, Read
<1>6. AtMost(doc.used, doc'.used) /\ doc' = doc
  BY <1>1, AtMostSelf DEF Read
<1> QED BY <1>1, <1>3, <1>4, <1>5, <1>6, WorkerStep DEF Read

LEMMA WritePreserves ==
  ASSUME IInv, NEW f \in flight, Write(f)
  PROVE  IInv'
<1>1. /\ f \in Message /\ Carried(f) /\ f.payload \in Document
      /\ doc' \in Document /\ Capped(doc'.used) /\ AtMost(doc.used, doc'.used)
  BY MessageFacts, StoredGrows
<1>2. PICK stage \in {"yes", "no"} :
        Move(f, stage, Unseen) /\ (stage = "yes" => Content(doc') = Content(f.payload))
  BY DEF Write
<1> DEFINE g == [f EXCEPT !.stage = stage, !.seen = Unseen]
<1>3. g \in Message /\ g.payload = f.payload /\ g.stage = stage
  BY <1>1, EmptyTypes DEF Message
<1>4. flight' \subseteq flight \cup {g}
  BY <1>2 DEF Move
<1> HIDE DEF g
<1>5. Carried(g)'
  <2>1. ASSUME stage = "yes"
        PROVE  AtMost(f.payload.used, doc'.used)
    <3>1. f.payload.used = doc'.used /\ doc'.used \in Ledger
      BY <1>1, <1>2, <2>1, ContentType
    <3> QED BY <3>1, AtMostSelf
  <2> QED BY <1>1, <1>3, <2>1 DEF Carried
<1> QED BY <1>1, <1>3, <1>4, <1>5, WorkerStep DEF Write

LEMMA LosePreserves ==
  ASSUME IInv, NEW f \in flight, Lose(f)
  PROVE  IInv'
<1>1. f \in Message /\ doc \in Document /\ doc' = doc /\ doc.used \in Ledger /\ Capped(doc.used)
  BY MessageFacts, ContentType DEF IInv, TypeOK, Lose
<1>2. AtMost(doc.used, doc'.used)
  BY <1>1, AtMostSelf
<1>3. flight' \subseteq flight \cup {f}
  BY DEF Lose
<1> QED BY <1>1, <1>2, <1>3, WorkerStep DEF Lose

-----------------------------------------------------------------------------
(* The steps of a scan that send a message or take an answer.              *)

LEMMA Exchange ==
  ASSUME IInv, NEW w \in Scans, NEW s \in Scan, Set(w, s), Sound(s), Active(w),
         NEW g \in Message, Carried(g), flight' \subseteq flight \cup {g},
         UNCHANGED <<now, doc, cache, spent>>
  PROVE  IInv'
<1>1. scan' = [scan EXCEPT ![w] = s] /\ scan' \in [Scans -> Scan]
  BY DEF IInv, TypeOK, Set
<1>2. TypeOK'
  BY <1>1 DEF IInv, TypeOK
<1>3. \A v \in Scans : Sound(scan[v])'
  BY <1>1 DEF IInv, TypeOK, Sound
<1>4. \A f \in flight' : Carried(f)'
  BY DEF IInv, Carried
<1>5. Serial'
  BY <1>1 DEF IInv, TypeOK, Serial, Active
<1> QED BY <1>2, <1>3, <1>4, <1>5 DEF IInv, Capped

LEMMA PostPreserves ==
  ASSUME IInv, NEW w \in Scans, Post(w)
  PROVE  IInv'
<1>1. /\ scan[w].phase = "post" /\ Active(w) /\ scan[w] \in Scan /\ Sound(scan[w])
      /\ scan[w].attempt \in {0, 1} /\ scan[w].payload \in Document
  BY ScanFacts DEF Post, Active, Scan
<1> DEFINE s == [scan[w] EXCEPT !.phase = "waiting", !.attempt = scan[w].attempt]
           g == Request(w)
<1>2. s \in Scan /\ Sound(s)
  BY <1>1, CommitOnly
<1>3. s = [scan[w] EXCEPT !.phase = "waiting"]
  BY <1>1 DEF Scan
<1>4. g \in Message
  BY <1>1, EmptyTypes DEF Request, Message
<1>5. Carried(g)
  BY <1>1 DEF Request, Carried, Sound
<1>6. flight' \subseteq flight \cup {g}
  BY DEF Post
<1> HIDE DEF s, g
<1> QED BY <1>1, <1>2, <1>3, <1>4, <1>5, <1>6, Exchange DEF Post

LEMMA AnsweredPreserves ==
  ASSUME IInv, NEW w \in Scans, Answered(w)
  PROVE  IInv'
<1>1. scan[w].phase = "waiting" /\ Active(w) /\ scan[w] \in Scan
  BY ScanFacts DEF Answered, Active
<1>2. PICK f \in flight :
        /\ f.payload = scan[w].payload
        /\ flight' = flight \ {f}
        /\ IF f.stage = "yes" THEN Granted(w) ELSE Set(w, [scan[w] EXCEPT !.phase = "readback", !.attempt = 1])
  BY DEF Answered
<1>3. f \in Message /\ Carried(f) /\ flight' \subseteq flight \cup {f}
  BY <1>2, MessageFacts
<1>4. CASE f.stage = "yes"
  <2> DEFINE s == [scan[w] EXCEPT !.phase = "ready", !.grant = scan[w].next, !.rev = scan[w].payload.rev,
                     !.next = NoGrant, !.payload = NoDoc, !.attempt = 0]
  <2>1. AtMost(scan[w].payload.used, doc.used)
    BY <1>2, <1>3, <1>4 DEF Carried
  <2>2. s \in Scan /\ Sound(s)
    BY <1>1, <2>1, GrantedSound
  <2>3. Set(w, s)
    BY <1>2, <1>4 DEF Granted
  <2> HIDE DEF s
  <2> QED BY <1>1, <1>3, <2>2, <2>3, Exchange DEF Answered
<1>5. CASE f.stage # "yes"
  <2> DEFINE s == [scan[w] EXCEPT !.phase = "readback", !.attempt = 1]
  <2>1. s \in Scan /\ Sound(s)
    BY <1>1, CommitOnly
  <2>2. Set(w, s)
    BY <1>2, <1>5
  <2> HIDE DEF s
  <2> QED BY <1>1, <1>3, <2>1, <2>2, Exchange DEF Answered
<1> QED BY <1>4, <1>5

LEMMA TickPreserves == ASSUME IInv, Tick PROVE IInv'
<1>1. TypeOK'
  BY UnitTypes DEF Tick, IInv, TypeOK
<1> QED BY <1>1 DEF Tick, IInv, Capped, Sound, Carried, Serial, Active

LEMMA NextPreserves == IInv /\ [Next]_vars => IInv'
<1> SUFFICES ASSUME IInv, [Next]_vars PROVE IInv'
  OBVIOUS
<1>1. CASE Tick
  BY <1>1, TickPreserves
<1>2. ASSUME NEW w \in Scans,
             \/ Start(w) \/ LoadLedger(w) \/ Spend(w) \/ Allocate(w) \/ Post(w) \/ Answered(w)
             \/ Timeout(w) \/ Readback(w) \/ End(w)
      PROVE  IInv'
  BY <1>2, StartPreserves, LoadPreserves, SpendPreserves, AllocatePreserves, PostPreserves,
     AnsweredPreserves, TimeoutPreserves, ReadbackPreserves, EndPreserves
<1>3. ASSUME NEW f \in flight, Read(f) \/ Write(f) \/ Lose(f)
      PROVE  IInv'
  BY <1>3, ReadPreserves, WritePreserves, LosePreserves
<1>4. CASE UNCHANGED vars
  BY <1>4 DEF vars, IInv, TypeOK, Capped, Sound, Carried, Serial, Active
<1> QED BY <1>1, <1>2, <1>3, <1>4 DEF Next

LEMMA Invariant == Spec => []IInv
<1>1. Init => IInv
  BY InitHolds
<1>2. IInv /\ [Next]_vars => IInv'
  BY NextPreserves
<1> QED BY <1>1, <1>2, PTL DEF Spec

-----------------------------------------------------------------------------
(* The results.                                                            *)

(* The ledgers, the grants, the documents and the messages of              *)
(* rpc_budget.py and of the rpc_ledger document keep their shape, so that  *)
(* no counter and no grant goes below zero.                                *)
THEOREM LedgerTypes == Spec => []TypeOK
<1>1. IInv => TypeOK
  BY DEF IInv
<1> QED BY <1>1, Invariant, PTL

(* DurableChunkBudget: the units that were sent to the provider, and those *)
(* that a scan may still send, are in the durable ledger.                  *)
THEOREM SpendingIsLedgered == Spec => []Ledgered
<1>1. IInv => Ledgered
  BY DEF IInv, Sound, Ledgered
<1> QED BY <1>1, Invariant, PTL

(* MonthlyRpcBudget: no month is overspent.                                *)
THEOREM NoMonthIsOverspent == Spec => []WithinLimit
<1>1. IInv => WithinLimit
  <2> SUFFICES ASSUME IInv, NEW m \in Months PROVE spent[m] <= Limit
    BY DEF WithinLimit
  <2>1. doc.used[m] \in Nat /\ spent[m] \in Nat /\ doc.used[m] <= Limit
    BY DEF IInv, TypeOK, Document, Ledger, Capped
  <2>2. PICK w \in Scans : TRUE
    BY LedgerAssumption
  <2>3. spent[m] + Left(scan[w].grant, m) <= doc.used[m] /\ Left(scan[w].grant, m) \in Nat
    BY ScanFacts, LeftType DEF Sound, Scan
  <2> QED BY <2>1, <2>3, UnitTypes
<1> QED BY <1>1, Invariant, PTL

(* writeSqlRuntime: the durable counters never go back, although a request *)
(* may be late and the source times of the machines are out of order.      *)
THEOREM UnitsAreNeverRefunded == Spec => NeverRefunded
<1>1. IInv /\ [Next]_vars => [\A m \in Months : doc.used[m] <= doc'.used[m]]_doc
  <2> SUFFICES ASSUME IInv, [Next]_vars, doc' # doc PROVE \A m \in Months : doc.used[m] <= doc'.used[m]
    OBVIOUS
  <2>1. PICK f \in flight : Write(f)
    BY DEF Next, vars, Tick, Start, LoadLedger, Spend, Allocate, Post, Answered, Timeout, Readback, End, Read, Lose
  <2> QED BY <2>1, StoredGrows DEF AtMost
<1> QED BY <1>1, Invariant, PTL DEF Spec, NeverRefunded
=============================================================================
