--------------------------- MODULE ScannerScanProofs --------------------------
(***************************************************************************)
(* What a scan spends, reads and concludes, for every value of the         *)
(* constants: the routing of its requests, the evidence behind an alert,   *)
(* the quiet regimes behind a reactivation, the outcomes of what was       *)
(* caught and the theses of its signals. Each of the five parts has an     *)
(* inductive invariant of its own, which holds whenever the first state    *)
(* chose that part.                                                        *)
(***************************************************************************)
EXTENDS MCScannerParts, Integers, Sequences, FiniteSetTheorems, NaturalsInduction,
        WellFoundedInduction, TLAPS

(* A set of numbers that is not empty has a least one.                     *)
LEMMA LeastNumber ==
  ASSUME NEW T \in SUBSET Nat, T # {}
  PROVE  \E n \in T : \A m \in T : n <= m
<1> DEFINE Below == {p \in Nat \X Nat : p[1] < p[2]}
<1>1. IsWellFoundedOn(Below, Nat)
  <2>1. OpToRel(<, Nat) = Below
    BY DEF OpToRel
  <2> QED BY <2>1, NatLessThanWellFounded
<1> HIDE DEF Below
<1>2. PICK n \in T : \A m \in T : ~(<<m, n>> \in Below)
  <2>1. T \subseteq Nat
    OBVIOUS
  <2> QED BY <1>1, <2>1, WFMin
<1>3. \A m \in T : n <= m
  <2> TAKE m \in T
  <2>1. m \in Nat /\ n \in Nat /\ <<m, n>> \in Nat \X Nat
    OBVIOUS
  <2>2. ~(m < n)
    BY <1>2, <2>1 DEF Below
  <2> QED BY <2>1, <2>2
<1> QED BY <1>3

(* A bounded set of numbers has a largest one.                             *)
LEMMA LargestNumber ==
  ASSUME NEW B \in Nat, NEW S \in SUBSET (0..B), S # {}
  PROVE  \E x \in S : \A y \in S : x >= y
<1> DEFINE T == {B - x : x \in S}
<1>1. T \in SUBSET Nat /\ T # {}
  <2>1. \A x \in S : B - x \in Nat
    OBVIOUS
  <2> QED BY <2>1
<1>2. PICK n \in T : \A m \in T : n <= m
  <2> HIDE DEF T
  <2> QED BY <1>1, LeastNumber
<1>3. PICK x \in S : n = B - x
  OBVIOUS
<1>4. \A y \in S : x >= y
  <2> TAKE y \in S
  <2>1. B - y \in T
    OBVIOUS
  <2>2. n <= B - y
    BY <1>2, <2>1
  <2> QED BY <1>3, <2>2
<1> QED BY <1>4

-----------------------------------------------------------------------------
(* RpcRouting: a pool never spends what belongs to those after it.         *)

(* What a scan knows of a provider.                                        *)
RoutingProvider ==
  [spent : Nat, cap : 0..RoutingBudget, blocked : BOOLEAN, unsupported : SUBSET RoutingMethods,
   cool : [RoutingMethods -> Nat]]
(* The routing's variables have their shape.                               *)
RoutingShape ==
    /\ c1 \in [RoutingProviders -> RoutingProvider]
    /\ c2 = [method |-> c2.method, route |-> c2.route, tries |-> c2.tries, cost |-> c2.cost]
    /\ c2.cost \in Nat /\ (c2 # RO!NoRequest => c2.method \in RoutingMethods)
    /\ c3 \in 0..RoutingPools /\ c4 \in BOOLEAN /\ c5 \in Nat

(* Every pool's equal share of a provider's budget.                        *)
EqualShare == RoutingBudget \div RoutingPools

(* Within its turn a pool stays under a cap that leaves the shares of the  *)
(* pools after it; between turns every pool left has its share.            *)
RoutingShares ==
  /\ c4 => c3 > 0
  /\ ~c4 => c2 = RO!NoRequest
  /\ \A p \in RoutingProviders :
       /\ c1[p].spent <= c1[p].cap
       /\ ~c4 => RoutingBudget - c1[p].spent >= c3 * EqualShare
       /\ c4 => RoutingBudget - c1[p].cap >= (c3 - 1) * EqualShare

(* A turn's share leaves the shares of the pools after it.                 *)
LEMMA ShareLeavesTheRest ==
  ASSUME NEW rest \in Nat, NEW n \in Nat \ {0}, NEW share \in Nat, rest >= n * share
  PROVE  /\ rest \div n \in Nat /\ rest \div n >= share
         /\ rest - (rest \div n) >= (n - 1) * share
         /\ share > 0 => rest \div n >= 1
         /\ rest \div n <= rest
<1> DEFINE q == rest \div n
<1>1. q \in Nat /\ n * q <= rest /\ rest < n * (q + 1)
  OBVIOUS
<1> HIDE DEF q
<1>2. q >= share
  <2> SUFFICES ASSUME q + 1 <= share PROVE FALSE
    BY <1>1
  <2>1. PICK d \in Nat : share = q + 1 + d
    <3>1. share - (q + 1) \in Nat /\ share = q + 1 + (share - (q + 1))
      BY <1>1
    <3> QED BY <3>1
  <2>2. n * share = n * (q + 1) + n * d
    BY <1>1, <2>1
  <2>3. n * d >= 0 /\ n * d \in Int /\ n * (q + 1) \in Int
    BY <1>1
  <2> QED BY <1>1, <2>2, <2>3
<1>3. n * q = (n - 1) * q + q /\ n * share = (n - 1) * share + share
  BY <1>1
<1>4. (n - 1) * q >= (n - 1) * share
  BY <1>1, <1>2
<1>5. rest - q >= (n - 1) * share
  <2>1. n * q \in Int /\ (n - 1) * q \in Int /\ (n - 1) * share \in Int
    BY <1>1
  <2> QED BY <1>1, <1>3, <1>4, <2>1
<1>6. q <= rest
  <2>1. (n - 1) * q >= 0
    BY <1>1
  <2> QED BY <1>1, <1>3, <2>1
<1>7. q \in Nat /\ q >= share /\ rest - q >= (n - 1) * share /\ (share > 0 => q >= 1) /\ q <= rest
  BY <1>1, <1>2, <1>5, <1>6
<1> QED BY <1>7 DEF q

(* Max of two numbers, as the share of a pool takes it.                    *)
LEMMA LargerNumber ==
  ASSUME NEW a \in Int, NEW b \in Int
  PROVE  RO!Max({a, b}) = IF b >= a THEN b ELSE a
<1> DEFINE m == IF b >= a THEN b ELSE a
<1>1. m \in {a, b} /\ \A y \in {a, b} : m >= y
  OBVIOUS
<1>2. \A x \in {a, b} : (\A y \in {a, b} : x >= y) => x = m
  OBVIOUS
<1> HIDE DEF m
<1>3. RO!Max({a, b}) \in {a, b} /\ \A y \in {a, b} : RO!Max({a, b}) >= y
  BY <1>1 DEF RO!Max
<1>4. RO!Max({a, b}) = m
  BY <1>2, <1>3
<1> QED BY <1>4 DEF m

(* Min of two numbers, as the cap of a pool takes it.                      *)
LEMMA SmallerNumber ==
  ASSUME NEW a \in Int, NEW b \in Int
  PROVE  RO!Min({a, b}) = IF a <= b THEN a ELSE b
<1> DEFINE m == IF a <= b THEN a ELSE b
<1>1. m \in {a, b} /\ \A y \in {a, b} : m <= y
  OBVIOUS
<1>2. \A x \in {a, b} : (\A y \in {a, b} : x <= y) => x = m
  OBVIOUS
<1> HIDE DEF m
<1>3. RO!Min({a, b}) \in {a, b} /\ \A y \in {a, b} : RO!Min({a, b}) <= y
  BY <1>1 DEF RO!Min
<1>4. RO!Min({a, b}) = m
  BY <1>2, <1>3
<1> QED BY <1>4 DEF m

(* The equal shares of all pools are within the budget.                    *)
LEMMA SharesPart == ASSUME RoutingAssumption
                    PROVE  EqualShare \in Nat /\ RoutingBudget >= RoutingPools * EqualShare
BY DEF RoutingAssumption, EqualShare

(* Before the first turn nothing is spent.                                 *)
LEMMA RoutingInit ==
  ASSUME RoutingAssumption, RO!Init
  PROVE  RoutingShape /\ RoutingShares
<1>1. \A u \in RO!Learned : u \in SUBSET RoutingMethods
  BY DEF RO!Learned
<1>2. \A b \in BOOLEAN, u \in RO!Learned :
        /\ RO!NewProvider(b, u) \in RoutingProvider
        /\ RO!NewProvider(b, u).spent = 0 /\ RO!NewProvider(b, u).cap = RoutingBudget
  BY <1>1 DEF RO!NewProvider, RoutingProvider, RoutingAssumption
<1>3. /\ c1 \in [RoutingProviders -> RoutingProvider]
      /\ \A p \in RoutingProviders : c1[p].spent = 0 /\ c1[p].cap = RoutingBudget
  <2>1. c1 \in [RoutingProviders -> {RO!NewProvider(b, u) : b \in BOOLEAN, u \in RO!Learned}]
    BY DEF RO!Init
  <2>2. \A x \in {RO!NewProvider(b, u) : b \in BOOLEAN, u \in RO!Learned} :
          x \in RoutingProvider /\ x.spent = 0 /\ x.cap = RoutingBudget
    BY <1>2
  <2> QED BY <2>1, <2>2
<1>4. c2 = RO!NoRequest /\ c3 = RoutingPools /\ c4 = FALSE /\ c5 = 0
  BY DEF RO!Init
<1>5. RoutingShape
  <2>1. c2 = [method |-> c2.method, route |-> c2.route, tries |-> c2.tries, cost |-> c2.cost] /\ c2.cost = 0
    BY <1>4 DEF RO!NoRequest
  <2>2. c3 \in 0..RoutingPools /\ c4 \in BOOLEAN /\ c5 \in Nat
    <3>1. c4 \in BOOLEAN
      BY <1>4
    <3>2. c5 \in Nat
      BY <1>4
    <3>3. c3 = RoutingPools
      BY <1>4
    <3>4. RoutingPools \in Nat
      BY DEF RoutingAssumption
    <3>5. c3 \in 0..RoutingPools
      BY <3>3, <3>4
    <3> QED BY <3>1, <3>2, <3>5
  <2>3. c2.cost \in Nat /\ (c2 # RO!NoRequest => c2.method \in RoutingMethods)
    BY <1>4, <2>1
  <2> QED BY <1>3, <2>1, <2>2, <2>3 DEF RoutingShape
<1>6. RoutingShares
  BY <1>3, <1>4, SharesPart DEF RoutingShares, RoutingAssumption
<1> QED BY <1>5, <1>6

(* A request costs a number of units, however its page is cut.             *)
LEMMA CostIsCounted ==
  ASSUME RoutingAssumption, NEW p, NEW m \in RoutingMethods
  PROVE  RO!CostOf(p, m) \in Nat
<1> DEFINE S == {1} \cup {c \in 1..RoutingCost[m] : RO!Fits(p, c)}
<1>1. RoutingCost[m] \in Nat
  BY DEF RoutingAssumption
<1>2. S \in SUBSET (0..(RoutingCost[m] + 1)) /\ S # {} /\ RoutingCost[m] + 1 \in Nat
  BY <1>1
<1>3. RO!CostOf(p, m) = IF m \in RoutingPaged THEN RO!Max(S) ELSE RoutingCost[m]
  BY DEF RO!CostOf
<1>9. \A x \in S : x \in Nat
  BY <1>1
<1> HIDE DEF S
<1>4. \E x \in S : \A y \in S : x >= y
  BY <1>2, LargestNumber
<1>5. (CHOOSE x \in S : \A y \in S : x >= y) \in S
  BY <1>4
<1>6. RO!Max(S) \in Nat
  BY <1>5, <1>9 DEF RO!Max
<1>7. CASE m \in RoutingPaged
  BY <1>3, <1>6, <1>7
<1>8. CASE m \notin RoutingPaged
  BY <1>1, <1>3, <1>8
<1> QED BY <1>7, <1>8

(* The request that goes on to the next provider.                          *)
LEMMA FailoverShape ==
  ASSUME RoutingAssumption, RoutingShape, c2 # RO!NoRequest, NEW r, r = RO!Failover \/ r = RO!NoRequest
  PROVE  /\ r = [method |-> r.method, route |-> r.route, tries |-> r.tries, cost |-> r.cost]
         /\ r.cost \in Nat /\ (r # RO!NoRequest => r.method \in RoutingMethods)
<1>1. RO!CostOf(c2.route[2], c2.method) \in Nat
  BY CostIsCounted DEF RoutingShape
<1>2. CASE r = RO!NoRequest
  BY <1>2 DEF RO!NoRequest
<1>3. CASE r = [c2 EXCEPT !.route = Tail(@), !.tries = 0, !.cost = RO!CostOf(c2.route[2], c2.method)]
  <2> DEFINE cost == RO!CostOf(c2.route[2], c2.method)
             route == Tail(c2.route)
  <2>1. r = [method |-> c2.method, route |-> route, tries |-> 0, cost |-> cost]
    <3>1. r = [c2 EXCEPT !.route = route, !.tries = 0, !.cost = cost]
      BY <1>3
    <3> HIDE DEF cost, route
    <3> QED BY <3>1 DEF RoutingShape
  <2>2. cost \in Nat
    BY <1>1
  <2> HIDE DEF cost, route
  <2> QED BY <2>1, <2>2 DEF RoutingShape
<1> QED BY <1>2, <1>3 DEF RO!Failover

(* An attempt is charged within what its provider may spend in this turn.  *)
LEMMA AttemptCharged ==
  ASSUME RoutingAssumption, RoutingShape, RoutingShares, RO!MaySend,
         NEW p, p = RO!Provider, NEW charged, c1' = [c1 EXCEPT ![p] = charged],
         p \in RoutingProviders => charged \in RoutingProvider,
         charged.spent = c1[p].spent + c2.cost, charged.cap = c1[p].cap,
         c2' = [method |-> c2'.method, route |-> c2'.route, tries |-> c2'.tries, cost |-> c2'.cost],
         c2'.cost \in Nat, c2' # RO!NoRequest => c2'.method \in RoutingMethods,
         UNCHANGED <<c3, c4>>, c5' \in Nat
  PROVE  RoutingShape' /\ RoutingShares'
<1>1. c1' \in [RoutingProviders -> RoutingProvider]
  BY DEF RoutingShape
<1>2. RoutingShape'
  BY <1>1 DEF RoutingShape
<1>3. c4 /\ c3 > 0
  BY DEF RoutingShares, RO!MaySend, RoutingShape
<1>4. ASSUME NEW q \in RoutingProviders
      PROVE  c1'[q].spent <= c1'[q].cap /\ c1'[q].cap = c1[q].cap
  <2>1. CASE q = p
    <3>1. c1'[q] = charged
      BY <2>1 DEF RoutingShape
    <3>2. c1[p].spent + c2.cost <= c1[p].cap
      BY DEF RO!MaySend, RO!Fits
    <3> QED BY <2>1, <3>1, <3>2
  <2>2. CASE q # p
    BY <2>2 DEF RoutingShape, RoutingShares
  <2> QED BY <2>1, <2>2
<1>5. RoutingShares'
  BY <1>3, <1>4 DEF RoutingShares
<1> QED BY <1>2, <1>5

(* Every attempt that is sent: an answer, a retry, a failure, a refusal.   *)
LEMMA RoutingAttempts ==
  ASSUME RoutingAssumption, RoutingShape, RoutingShares,
         RO!Answer \/ RO!Retry \/ RO!Transient \/ RO!Denied \/ RO!ClientError
  PROVE  RoutingShape' /\ RoutingShares'
<1> DEFINE p == RO!Provider
           m == c2.method
           Sound(r) == /\ p \in RoutingProviders => r \in RoutingProvider
                       /\ r.spent = c1[p].spent + c2.cost /\ r.cap = c1[p].cap
<1>1. RO!MaySend /\ c2 # RO!NoRequest /\ m \in RoutingMethods /\ UNCHANGED <<c3, c4>>
  BY DEF RO!Answer, RO!Retry, RO!Transient, RO!Denied, RO!ClientError, RO!MaySend, RoutingShape
<1>2. c5' \in Nat
  BY DEF RO!Answer, RO!Retry, RO!Transient, RO!Denied, RO!ClientError, RoutingShape
<1>3. /\ c2' = [method |-> c2'.method, route |-> c2'.route, tries |-> c2'.tries, cost |-> c2'.cost]
      /\ c2'.cost \in Nat /\ (c2' # RO!NoRequest => c2'.method \in RoutingMethods)
  <2>1. CASE c2' = RO!Failover \/ c2' = RO!NoRequest
    <3> DEFINE r == c2'
    <3>1. r = RO!Failover \/ r = RO!NoRequest
      BY <2>1
    <3> HIDE DEF r
    <3>2. /\ r = [method |-> r.method, route |-> r.route, tries |-> r.tries, cost |-> r.cost]
          /\ r.cost \in Nat /\ (r # RO!NoRequest => r.method \in RoutingMethods)
      BY <1>1, <3>1, FailoverShape
    <3> QED BY <3>2 DEF r
  <2>2. CASE RO!Retry
    <3> DEFINE tries == c2.tries + 1
    <3>1. c2' = [c2 EXCEPT !.tries = tries]
      BY <2>2 DEF RO!Retry
    <3> HIDE DEF tries
    <3> QED BY <1>1, <3>1 DEF RoutingShape
  <2> QED BY <2>1, <2>2 DEF RO!Answer, RO!Transient, RO!Denied, RO!ClientError
<1>4. ASSUME p \in RoutingProviders
      PROVE  /\ RO!Charged(p) = [spent |-> c1[p].spent + c2.cost, cap |-> c1[p].cap,
                                 blocked |-> c1[p].blocked, unsupported |-> c1[p].unsupported,
                                 cool |-> c1[p].cool]
             /\ RO!Charged(p) \in RoutingProvider
  <2> DEFINE r == c1[p]
             spent == r.spent + c2.cost
  <2>1. r \in RoutingProvider /\ spent \in Nat
    BY <1>4 DEF RoutingShape, RoutingProvider
  <2>2. RO!Charged(p) = [r EXCEPT !.spent = spent]
    BY DEF RO!Charged
  <2> HIDE DEF r, spent
  <2>3. RO!Charged(p) = [spent |-> spent, cap |-> r.cap, blocked |-> r.blocked,
                         unsupported |-> r.unsupported, cool |-> r.cool]
    BY <2>1, <2>2 DEF RoutingProvider
  <2>4. RO!Charged(p) \in RoutingProvider
    BY <2>1, <2>3 DEF RoutingProvider
  <2> QED BY <2>3, <2>4 DEF r, spent
<1> DEFINE charged == RO!Charged(p)
           Cooled == [charged EXCEPT !.cool[m] = c5 + RoutingCool]
           Barred == [charged EXCEPT !.blocked = TRUE]
           Lacking == [charged EXCEPT !.unsupported = @ \cup {m}]
<1>5. \/ c1' = [c1 EXCEPT ![p] = charged] \/ c1' = [c1 EXCEPT ![p] = Cooled]
      \/ c1' = [c1 EXCEPT ![p] = Barred] \/ c1' = [c1 EXCEPT ![p] = Lacking]
  <2>1. CASE RO!Answer
    BY <2>1 DEF RO!Answer
  <2>2. CASE RO!Retry
    BY <2>2 DEF RO!Retry
  <2>3. CASE RO!Transient
    BY <2>3 DEF RO!Transient
  <2>4. CASE RO!Denied
    BY <2>4 DEF RO!Denied
  <2>5. CASE RO!ClientError
    BY <2>5 DEF RO!ClientError
  <2> QED BY <2>1, <2>2, <2>3, <2>4, <2>5
<1>6. CASE p \notin RoutingProviders
  <2>1. c1' = c1
    BY <1>5, <1>6 DEF RoutingShape
  <2>2. RoutingShape'
    BY <1>1, <1>2, <1>3, <2>1 DEF RoutingShape
  <2>3. c4 /\ c3 > 0
    BY <1>1 DEF RoutingShares, RoutingShape
  <2>4. RoutingShares'
    BY <1>1, <2>1, <2>3 DEF RoutingShares
  <2> QED BY <2>2, <2>4
<1>7. CASE p \in RoutingProviders
  <2>1. /\ Sound(charged) /\ Sound(Cooled) /\ Sound(Barred) /\ Sound(Lacking)
    <3> DEFINE cool == [charged.cool EXCEPT ![m] = c5 + RoutingCool]
               lacks == charged.unsupported \cup {m}
    <3>1. charged \in RoutingProvider /\ charged.spent = c1[p].spent + c2.cost /\ charged.cap = c1[p].cap
      BY <1>4, <1>7
    <3>2. Cooled = [charged EXCEPT !.cool = cool] /\ Lacking = [charged EXCEPT !.unsupported = lacks]
      <4> HIDE DEF charged
      <4> QED BY <3>1 DEF RoutingProvider
    <3>3. cool \in [RoutingMethods -> Nat] /\ lacks \in SUBSET RoutingMethods
      <4>1. c5 + RoutingCool \in Nat
        BY DEF RoutingShape, RoutingAssumption
      <4> HIDE DEF charged
      <4> QED BY <1>1, <3>1, <4>1 DEF RoutingProvider
    <3> HIDE DEF charged, cool, lacks, p
    <3>4. Sound([charged EXCEPT !.cool = cool])
      BY <3>1, <3>3 DEF RoutingProvider
    <3>5. Sound([charged EXCEPT !.unsupported = lacks])
      BY <3>1, <3>3 DEF RoutingProvider
    <3>6. Sound(Barred) /\ Sound(charged)
      BY <3>1 DEF RoutingProvider
    <3> QED BY <3>2, <3>4, <3>5, <3>6
  <2>2. PICK c : c1' = [c1 EXCEPT ![p] = c] /\ Sound(c)
    <3> HIDE DEF Sound, Cooled, Barred, Lacking, charged
    <3> QED BY <1>5, <2>1
  <2>3. /\ p \in RoutingProviders => c \in RoutingProvider
        /\ c.spent = c1[p].spent + c2.cost /\ c.cap = c1[p].cap
    BY <2>2
  <2>4. p = RO!Provider
    OBVIOUS
  <2> HIDE DEF p, Sound
  <2> QED BY <1>1, <1>2, <1>3, <2>2, <2>3, <2>4, AttemptCharged
<1> QED BY <1>6, <1>7

(* A pool's share of a provider is cut from what the provider has left.     *)
LEMMA RoutingTurn ==
  ASSUME RoutingAssumption, RoutingShape, RoutingShares, RO!Turn
  PROVE  RoutingShape' /\ RoutingShares'
<1>1. /\ ~c4 /\ c3 > 0 /\ c4' = TRUE /\ UNCHANGED <<c2, c3, c5>> /\ c3 \in Nat \ {0}
      /\ c1' = [p \in RoutingProviders |-> RO!Shared(p)]
  BY DEF RO!Turn, RoutingShape
<1>2. RoutingBudget \in Nat /\ EqualShare \in Nat
  BY SharesPart DEF RoutingAssumption
<1>3. ASSUME NEW p \in RoutingProviders
      PROVE  /\ c1'[p] \in RoutingProvider /\ c1'[p].spent <= c1'[p].cap
             /\ RoutingBudget - c1'[p].cap >= (c3 - 1) * EqualShare
  <2> DEFINE r == c1[p]
             rest == RoutingBudget - r.spent
             mine == rest \div c3
             cap == RO!Min({RoutingBudget, r.spent + RO!Allowance(p)})
  <2>1. r \in RoutingProvider /\ r.spent <= r.cap
    BY DEF RoutingShape, RoutingShares
  <2>2. r.spent \in Nat /\ r.spent <= RoutingBudget /\ r.spent + rest = RoutingBudget /\ rest \in Nat
    <3> HIDE DEF r
    <3> QED BY <1>2, <2>1 DEF RoutingProvider
  <2>3. rest >= c3 * EqualShare
    BY <1>1 DEF RoutingShares
  <2>4. /\ mine \in Nat /\ mine >= EqualShare /\ rest - mine >= (c3 - 1) * EqualShare
        /\ (EqualShare > 0 => mine >= 1) /\ mine <= rest
    <3> HIDE DEF r, rest
    <3> QED BY <1>1, <1>2, <2>2, <2>3, ShareLeavesTheRest
  <2>5. RO!Allowance(p) = RO!Max({1, mine})
    BY DEF RO!Allowance
  <2> HIDE DEF rest, mine
  <2>6. RO!Max({1, mine}) = IF mine >= 1 THEN mine ELSE 1
    BY <2>4, LargerNumber
  <2>7. cap = IF RoutingBudget <= r.spent + RO!Allowance(p) THEN RoutingBudget ELSE r.spent + RO!Allowance(p)
    <3> HIDE DEF r
    <3>1. RO!Allowance(p) \in Nat
      BY <2>4, <2>5, <2>6
    <3> QED BY <1>2, <2>2, <3>1, SmallerNumber
  <2>8. c1'[p] = [r EXCEPT !.cap = cap]
    BY <1>1 DEF RO!Shared
  <2> HIDE DEF r, cap
  <2>9. cap \in 0..RoutingBudget /\ r.spent <= cap
    BY <1>2, <2>2, <2>4, <2>5, <2>6, <2>7
  <2>10. c1'[p] \in RoutingProvider /\ c1'[p].spent = r.spent /\ c1'[p].cap = cap
    BY <2>1, <2>8, <2>9 DEF RoutingProvider
  <2>11. RoutingBudget - cap >= (c3 - 1) * EqualShare
    <3>1. CASE mine >= 1
      <4>1. cap = r.spent + mine
        BY <1>2, <2>2, <2>4, <2>5, <2>6, <2>7, <3>1
      <4>2. RoutingBudget - cap = rest - mine
        BY <1>2, <2>2, <2>4, <4>1
      <4> QED BY <2>4, <4>2
    <3>2. CASE ~(mine >= 1)
      <4>1. EqualShare = 0
        BY <1>2, <2>4, <3>2
      <4>2. (c3 - 1) * EqualShare = 0
        BY <1>1, <4>1
      <4> QED BY <1>2, <2>9, <4>2
    <3> QED BY <3>1, <3>2
  <2> QED BY <2>9, <2>10, <2>11
<1>4. c1' \in [RoutingProviders -> RoutingProvider]
  <2>1. \A p \in RoutingProviders : c1'[p] \in RoutingProvider
    BY <1>3
  <2>2. c1' = [p \in RoutingProviders |-> c1'[p]]
    BY <1>1
  <2> QED BY <2>1, <2>2
<1>5. RoutingShape'
  BY <1>1, <1>4 DEF RoutingShape
<1>6. RoutingShares'
  BY <1>1, <1>3 DEF RoutingShares
<1> QED BY <1>5, <1>6

(* At the end of a turn the cap is lifted, and one pool fewer is left.     *)
LEMMA RoutingEndTurn ==
  ASSUME RoutingAssumption, RoutingShape, RoutingShares, RO!EndTurn
  PROVE  RoutingShape' /\ RoutingShares'
<1>1. /\ c4 /\ c2 = RO!NoRequest /\ c4' = FALSE /\ c3' = c3 - 1 /\ UNCHANGED <<c2, c5>> /\ c3 > 0
      /\ c1' = [p \in RoutingProviders |-> [c1[p] EXCEPT !.cap = RoutingBudget]]
  BY DEF RO!EndTurn, RoutingShares
<1>2. c3 \in Nat \ {0} /\ c3' \in 0..RoutingPools /\ RoutingBudget \in Nat /\ EqualShare \in Nat
  BY <1>1, SharesPart DEF RoutingShape, RoutingAssumption
<1>3. ASSUME NEW p \in RoutingProviders
      PROVE  /\ c1'[p] \in RoutingProvider /\ c1'[p].spent <= c1'[p].cap
             /\ RoutingBudget - c1'[p].spent >= (c3 - 1) * EqualShare
  <2> DEFINE r == c1[p]
  <2>1. r \in RoutingProvider /\ r.spent <= r.cap /\ RoutingBudget - r.cap >= (c3 - 1) * EqualShare
    BY <1>1 DEF RoutingShape, RoutingShares
  <2>2. c1'[p] = [r EXCEPT !.cap = RoutingBudget]
    BY <1>1
  <2> HIDE DEF r
  <2>3. c1'[p] \in RoutingProvider /\ c1'[p].spent = r.spent /\ c1'[p].cap = RoutingBudget
    BY <1>2, <2>1, <2>2 DEF RoutingProvider
  <2>4. r.spent \in Nat /\ r.cap \in Nat /\ r.cap <= RoutingBudget
    BY <1>2, <2>1 DEF RoutingProvider
  <2>5. RoutingBudget - r.spent >= (c3 - 1) * EqualShare
    <3> DEFINE others == (c3 - 1) * EqualShare
    <3>1. others \in Int
      BY <1>2
    <3>2. RoutingBudget - r.cap >= others
      BY <2>1
    <3> HIDE DEF others
    <3>3. RoutingBudget - r.spent >= others
      BY <1>2, <2>1, <2>4, <3>1, <3>2
    <3> QED BY <3>3 DEF others
  <2> QED BY <1>2, <2>3, <2>4, <2>1, <2>5
<1>4. c1' \in [RoutingProviders -> RoutingProvider]
  <2>1. \A p \in RoutingProviders : c1'[p] \in RoutingProvider
    BY <1>3
  <2>2. c1' = [p \in RoutingProviders |-> c1'[p]]
    BY <1>1
  <2> QED BY <2>1, <2>2
<1>5. RoutingShape'
  BY <1>1, <1>2, <1>4 DEF RoutingShape
<1>6. RoutingShares'
  BY <1>1, <1>3 DEF RoutingShares
<1> QED BY <1>5, <1>6

(* A request starts, goes on unsent, or time passes: nothing is spent.     *)
LEMMA RoutingRequests ==
  ASSUME RoutingAssumption, RoutingShape, RoutingShares,
         RO!Refused \/ RO!Wait \/ \E m \in RoutingMethods : RO!Start(m)
  PROVE  RoutingShape' /\ RoutingShares'
<1>1. UNCHANGED <<c1, c3, c4>> /\ c5' \in Nat
  <2>1. CASE RO!Refused
    BY <2>1 DEF RO!Refused, RoutingShape
  <2>2. CASE RO!Wait
    BY <2>2 DEF RO!Wait, RoutingShape
  <2>3. ASSUME NEW m \in RoutingMethods, RO!Start(m)
        PROVE  UNCHANGED <<c1, c3, c4, c5>>
    BY <2>3 DEF RO!Start
  <2>4. CASE \E m \in RoutingMethods : RO!Start(m)
    BY <2>3, <2>4 DEF RoutingShape
  <2> QED BY <2>1, <2>2, <2>4
<1>2. /\ c2' = [method |-> c2'.method, route |-> c2'.route, tries |-> c2'.tries, cost |-> c2'.cost]
      /\ c2'.cost \in Nat /\ (c2' # RO!NoRequest => c2'.method \in RoutingMethods)
      /\ ~c4 => c2' = RO!NoRequest
  <2>1. CASE RO!Refused
    <3>1. c2 # RO!NoRequest /\ c2' = RO!Failover /\ c4
      BY <2>1 DEF RO!Refused, RoutingShares, RoutingShape
    <3> DEFINE r == c2'
    <3>2. r = RO!Failover \/ r = RO!NoRequest
      BY <3>1
    <3> HIDE DEF r
    <3>3. /\ r = [method |-> r.method, route |-> r.route, tries |-> r.tries, cost |-> r.cost]
          /\ r.cost \in Nat /\ (r # RO!NoRequest => r.method \in RoutingMethods)
      BY <3>1, <3>2, FailoverShape
    <3> QED BY <3>1, <3>3 DEF r
  <2>2. CASE RO!Wait
    <3>1. c2' = c2
      BY <2>2 DEF RO!Wait
    <3> QED BY <3>1 DEF RoutingShape, RoutingShares
  <2>3. ASSUME NEW m \in RoutingMethods, RO!Start(m)
        PROVE  /\ c2' = [method |-> c2'.method, route |-> c2'.route, tries |-> c2'.tries, cost |-> c2'.cost]
               /\ c2'.cost \in Nat /\ (c2' # RO!NoRequest => c2'.method \in RoutingMethods)
               /\ ~c4 => c2' = RO!NoRequest
    <3> DEFINE route == SelectSeq(RoutingOrder[m], LAMBDA p : RO!Eligible(p, m))
               cost == RO!CostOf(Head(route), m)
    <3>1. c4 /\ c2' = [method |-> m, route |-> route, tries |-> 0, cost |-> cost]
      BY <2>3 DEF RO!Start
    <3>2. cost \in Nat
      BY CostIsCounted
    <3> HIDE DEF route, cost
    <3> QED BY <3>1, <3>2
  <2> QED BY <2>1, <2>2, <2>3
<1>3. RoutingShape'
  BY <1>1, <1>2 DEF RoutingShape
<1>4. RoutingShares'
  BY <1>1, <1>2 DEF RoutingShares
<1> QED BY <1>3, <1>4

(* Every step of a scan's requests.                                        *)
LEMMA RoutingStep ==
  ASSUME RoutingAssumption, RoutingShape, RoutingShares, RO!Next
  PROVE  RoutingShape' /\ RoutingShares'
BY RoutingTurn, RoutingEndTurn, RoutingRequests, RoutingAttempts DEF RO!Next

(* The invariant of the routing.                                           *)
RoutingInv == part = "routing" => RoutingShape /\ RoutingShares

(* However a pool's requests are retried, failed over and shrunk, every    *)
(* pool after it keeps an equal share of every provider's budget           *)
(* (fair_pool_rpc_budget, SolanaRpcProvider.call).                         *)
THEOREM LaterPoolsKeepTheirShares == Spec => []SharesAreLeft
<1>1. Init => RoutingInv
  <2>1. Init /\ part = "routing" => RO!Init
    BY DEF Init
  <2> QED BY <2>1, RoutingInit, RoutingAssumption DEF RoutingInv
<1>2. RoutingInv /\ [Next]_<<part, c1, c2, c3, c4, c5, c6, c7, c8, c9, c10>> => RoutingInv'
  <2> SUFFICES ASSUME RoutingInv, [Next]_<<part, c1, c2, c3, c4, c5, c6, c7, c8, c9, c10>>, part' = "routing"
               PROVE  RoutingShape' /\ RoutingShares'
    BY DEF RoutingInv
  <2>1. part = "routing"
    BY DEF Next
  <2>2. CASE UNCHANGED <<part, c1, c2, c3, c4, c5, c6, c7, c8, c9, c10>>
    <3>1. RoutingShape'
      BY <2>1, <2>2 DEF RoutingInv, RoutingShape
    <3>2. RoutingShares'
      BY <2>1, <2>2 DEF RoutingInv, RoutingShares
    <3> QED BY <3>1, <3>2
  <2>3. CASE Next
    <3>1. RO!Next
      BY <2>1, <2>3 DEF Next
    <3> QED BY <2>1, <3>1, RoutingStep, RoutingAssumption DEF RoutingInv
  <2> QED BY <2>2, <2>3
<1>3. RoutingInv => SharesAreLeft
  <2> SUFFICES ASSUME RoutingShape, RoutingShares, NEW p \in RoutingProviders
               PROVE  RoutingBudget - c1[p].spent >= (IF c3 = 0 THEN 0 ELSE c3 - 1) * EqualShare
    BY DEF RoutingInv, SharesAreLeft, RO!SharesAreLeft, EqualShare
  <2> DEFINE spent == c1[p].spent
             cap == c1[p].cap
  <2>1. spent \in Nat /\ cap \in 0..RoutingBudget /\ spent <= cap /\ c3 \in Nat
    BY DEF RoutingShape, RoutingShares, RoutingProvider
  <2>2. RoutingBudget \in Nat /\ EqualShare \in Nat
    BY SharesPart, RoutingAssumption DEF RoutingAssumption
  <2>3. CASE c4
    <3> DEFINE others == (c3 - 1) * EqualShare
    <3>1. c3 > 0 /\ RoutingBudget - cap >= others
      BY <2>3 DEF RoutingShares
    <3>2. others \in Int
      BY <2>1, <2>2
    <3>3. (IF c3 = 0 THEN 0 ELSE c3 - 1) * EqualShare = others
      BY <3>1
    <3> HIDE DEF others, spent, cap
    <3>4. RoutingBudget - spent >= others
      BY <2>1, <2>2, <3>1, <3>2
    <3> QED BY <3>3, <3>4 DEF spent
  <2>4. CASE ~c4
    <3>1. RoutingBudget - spent >= c3 * EqualShare
      BY <2>4 DEF RoutingShares
    <3> HIDE DEF spent, cap
    <3>2. CASE c3 = 0
      <4>1. c3 * EqualShare = 0 /\ (IF c3 = 0 THEN 0 ELSE c3 - 1) * EqualShare = 0
        BY <2>2, <3>2
      <4> QED BY <3>1, <4>1 DEF spent
    <3>3. CASE c3 # 0
      <4> DEFINE all == c3 * EqualShare
                 others == (c3 - 1) * EqualShare
      <4>1. all = others + EqualShare /\ others \in Int
        BY <2>1, <2>2, <3>3
      <4>2. RoutingBudget - spent >= all /\ (IF c3 = 0 THEN 0 ELSE c3 - 1) * EqualShare = others
        BY <3>1, <3>3
      <4> HIDE DEF all, others
      <4>3. RoutingBudget - spent >= others
        BY <2>1, <2>2, <4>1, <4>2
      <4> QED BY <4>2, <4>3 DEF spent
    <3> QED BY <3>2, <3>3
  <2> QED BY <2>3, <2>4
<1> QED BY <1>1, <1>2, <1>3, PTL DEF Spec

-----------------------------------------------------------------------------
(* AlertEvidence: an alert to act on rests on its whole wave.              *)

(* The evidence's variables have their shape: nothing is read that was not *)
(* made, nothing covered that is not past.                                 *)
WaveShape ==
    /\ c1 \in [AL!Times -> 0..WavePerSecond] /\ c8 \in 0..WaveTime
    /\ \A t \in AL!Times : t > c8 => c1[t] = 0
    /\ c2 \subseteq AL!Made /\ c3 \subseteq 1..c8 /\ c4 \subseteq c2 /\ c5 \in 0..WaveTime

(* Covered seconds were read, and what was read and is not in the buffer   *)
(* is marked as omitted or has left the window.                            *)
WaveCovered ==
    /\ \A x \in AL!Made : AL!At(x) \in c3 => x \in c2
    /\ \A x \in c2 \ c4 : AL!At(x) <= c5 \/ AL!At(x) < AL!Cutoff

(* The alert under way has the tier of its traits, and a complete one has  *)
(* its whole wave in the buffer.                                           *)
WaveAlert ==
    c7 # AL!NoAlert =>
      /\ c7 = [from |-> c7.from, to |-> c7.to, traits |-> c7.traits, high |-> c7.high,
               complete |-> c7.complete, tier |-> c7.tier]
      /\ c7.complete \in BOOLEAN /\ c7.tier = AL!Tier(c7.traits, c7.high, c7.complete)
      /\ c7.complete => {x \in AL!Made : c7.from <= AL!At(x) /\ AL!At(x) <= c7.to} \subseteq c4

(* Before the first trade nothing was read.                                *)
LEMMA WaveInit ==
  ASSUME WaveAssumption, AL!Init
  PROVE  WaveShape /\ WaveCovered /\ WaveAlert
<1>1. /\ c1 = [t \in AL!Times |-> 0] /\ c2 = {} /\ c3 = {} /\ c4 = {}
      /\ c5 = 0 /\ c7 = AL!NoAlert /\ c8 = 0
  BY DEF AL!Init
<1>2. AL!Made = {}
  <2> SUFFICES ASSUME NEW x \in AL!Trades, x[2] <= c1[x[1]] PROVE FALSE
    BY DEF AL!Made
  <2>1. x[1] \in AL!Times /\ x[2] \in 1..WavePerSecond
    BY DEF AL!Trades
  <2> QED BY <1>1, <2>1 DEF WaveAssumption
<1>3. WaveShape
  BY <1>1, <1>2 DEF WaveShape, WaveAssumption
<1> QED BY <1>1, <1>2, <1>3 DEF WaveCovered, WaveAlert

(* What a buffer omits is marked by the time of the last swap omitted.      *)
LEMMA OmittedIsMarked ==
  ASSUME WaveAssumption, NEW s \in SUBSET AL!Trades, NEW kept, c5 \in 0..WaveTime
  PROVE  /\ AL!OmittedBy(s, kept) \in 0..WaveTime /\ AL!OmittedBy(s, kept) >= c5
         /\ \A x \in s \ kept : AL!At(x) <= AL!OmittedBy(s, kept)
<1>1. WaveTime \in Nat
  BY DEF WaveAssumption
<1> DEFINE T == {0} \cup {AL!At(x) : x \in s \ kept}
<1>2. T \in SUBSET (0..WaveTime) /\ T # {}
  <2>1. \A x \in s : AL!At(x) \in 1..WaveTime
    BY DEF AL!Trades, AL!Times, AL!At
  <2>2. T \subseteq 0..WaveTime
    BY <1>1, <2>1
  <2> QED BY <2>2
<1>3. \A x \in s \ kept : AL!At(x) \in T
  OBVIOUS
<1>4. AL!LastOf(s \ kept) = AL!Max(T)
  BY DEF AL!LastOf
<1> HIDE DEF T
<1>5. PICK m \in T : \A y \in T : m >= y
  BY <1>1, <1>2, LargestNumber
<1>6. AL!Max(T) \in T /\ \A y \in T : AL!Max(T) >= y
  BY <1>5 DEF AL!Max
<1> DEFINE last == AL!Max(T)
           U == {c5, last}
<1>7. U \in SUBSET (0..WaveTime) /\ U # {}
  BY <1>2, <1>6
<1>8. AL!OmittedBy(s, kept) = AL!Max(U)
  BY <1>4 DEF AL!OmittedBy
<1>9. c5 \in U /\ last \in U
  OBVIOUS
<1> HIDE DEF U, last
<1>10. PICK n \in U : \A y \in U : n >= y
  BY <1>1, <1>7, LargestNumber
<1>11. AL!Max(U) \in U /\ \A y \in U : AL!Max(U) >= y
  BY <1>10 DEF AL!Max
<1> DEFINE o == AL!OmittedBy(s, kept)
<1>12. o \in 0..WaveTime /\ o >= c5 /\ o >= last
  BY <1>7, <1>8, <1>9, <1>11
<1>13. \A x \in s \ kept : AL!At(x) \in 0..WaveTime /\ AL!At(x) <= last
  BY <1>2, <1>3, <1>6 DEF last
<1>14. last \in 0..WaveTime
  BY <1>7, <1>9
<1> HIDE DEF o
<1>15. \A x \in s \ kept : AL!At(x) <= o
  BY <1>1, <1>12, <1>13, <1>14
<1> QED BY <1>12, <1>15 DEF o

(* A tier to act on needs complete data, a confirmed signal and no gate.    *)
LEMMA TierIsEarned ==
  ASSUME NEW traits, NEW high, NEW complete \in BOOLEAN,
         AL!Tier(traits, high, complete) \in {"actionable", "hot_reactivation"}
  PROVE  /\ complete /\ {"broken", "seasoned", "verified"} \subseteq traits /\ "gated" \notin traits
         /\ AL!Tier(traits, high, complete) = "actionable" => high = "deep"
<1> DEFINE classified == AL!Classified(traits, high)
           lowered == AL!Lowered(classified, complete)
           confirmed == complete /\ {"broken", "seasoned", "verified"} \subseteq traits
           tier == AL!Tier(traits, high, complete)
<1>1. tier = IF "gated" \in traits THEN "noise"
             ELSE IF ~confirmed /\ lowered \notin {"noise", "late_chase"} THEN "candidate" ELSE lowered
  BY DEF AL!Tier, AL!Confirmed
<1>2. classified = "actionable" => high = "deep"
  BY DEF AL!Classified
<1>3. lowered = classified \/ lowered = "watch"
  BY DEF AL!Lowered
<1> HIDE DEF confirmed, lowered, tier, classified
<1>4. "gated" \notin traits /\ tier = lowered /\ (confirmed \/ lowered \in {"noise", "late_chase"})
  BY <1>1 DEF tier
<1>5. confirmed
  BY <1>4 DEF tier
<1>6. tier = "actionable" => high = "deep"
  BY <1>2, <1>3, <1>4
<1> QED BY <1>4, <1>5, <1>6 DEF confirmed, tier

(* Time passes: the new second was not covered, and the window moves on.   *)
LEMMA WaveTrade ==
  ASSUME WaveAssumption, WaveShape, WaveCovered, WaveAlert,
         NEW n \in 0..WavePerSecond, AL!Trade(n)
  PROVE  WaveShape' /\ WaveCovered' /\ WaveAlert'
<1>1. /\ c8 < WaveTime /\ c8' = c8 + 1 /\ c1' = [c1 EXCEPT ![c8'] = n]
      /\ c7 = AL!NoAlert /\ UNCHANGED <<c2, c3, c4, c5, c7>>
  BY DEF AL!Trade
<1>2. WaveTime \in Nat /\ WavePerSecond \in Nat /\ WaveWindow \in Nat
  BY DEF WaveAssumption
<1>3. c8 \in Nat /\ c8' \in AL!Times /\ c8' \in 0..WaveTime
  BY <1>1, <1>2 DEF WaveShape, AL!Times
<1>4. c1' \in [AL!Times -> 0..WavePerSecond]
  BY <1>1, <1>3 DEF WaveShape
<1>5. \A t \in AL!Times : t # c8' => c1'[t] = c1[t]
  BY <1>1 DEF WaveShape
<1>6. \A t \in AL!Times : t > c8' => c1'[t] = 0
  <2> SUFFICES ASSUME NEW t \in AL!Times, t > c8' PROVE c1'[t] = 0
    OBVIOUS
  <2>1. t \in Nat /\ t # c8' /\ t > c8
    BY <1>1, <1>2, <1>3 DEF AL!Times
  <2> QED BY <1>5, <2>1 DEF WaveShape
<1>7. \A x \in AL!Trades : AL!At(x) \in AL!Times /\ AL!At(x) = x[1] /\ x[2] \in 1..WavePerSecond
  BY DEF AL!Trades, AL!At
<1>8. \A x \in AL!Trades : AL!At(x) # c8' => (x \in AL!Made' <=> x \in AL!Made)
  BY <1>5, <1>7 DEF AL!Made
<1>9. \A x \in AL!Made : x \in AL!Trades /\ AL!At(x) # c8'
  <2> SUFFICES ASSUME NEW x \in AL!Trades, x[2] <= c1[x[1]], x[1] = c8' PROVE FALSE
    BY <1>7 DEF AL!Made
  <2>1. x[2] \in 1..WavePerSecond
    BY <1>7
  <2>2. c8' > c8
    BY <1>1, <1>3
  <2>3. c1[c8'] = 0
    BY <1>3, <2>2 DEF WaveShape
  <2> QED BY <2>1, <2>3, <1>2
<1>10. AL!Made \subseteq AL!Made'
  BY <1>8, <1>9
<1>11. c3 \subseteq 1..c8'
  BY <1>1, <1>3 DEF WaveShape
<1>12. WaveShape'
  BY <1>1, <1>3, <1>4, <1>6, <1>10, <1>11 DEF WaveShape
<1>13. WaveCovered'
  <2>1. ASSUME NEW x \in AL!Made', AL!At(x) \in c3
        PROVE  x \in c2
    <3>1. AL!At(x) # c8'
      BY <1>1, <1>3, <2>1 DEF WaveShape
    <3>2. x \in AL!Trades
      BY DEF AL!Made
    <3> QED BY <1>8, <2>1, <3>1, <3>2 DEF WaveCovered
  <2>2. AL!Cutoff' >= AL!Cutoff /\ AL!Cutoff \in Nat /\ AL!Cutoff' \in Nat
    BY <1>1, <1>2, <1>3 DEF AL!Cutoff
  <2>3. \A x \in c2 : AL!At(x) \in Nat
    BY <1>2, <1>7, <1>9 DEF WaveShape, AL!Times
  <2>4. ASSUME NEW x \in c2 \ c4
        PROVE  AL!At(x) <= c5 \/ AL!At(x) < AL!Cutoff'
    <3>1. AL!At(x) <= c5 \/ AL!At(x) < AL!Cutoff
      BY DEF WaveCovered
    <3>2. AL!At(x) \in Nat
      BY <2>3
    <3> QED BY <2>2, <3>1, <3>2
  <2>5. \A x : AL!At(x)' = AL!At(x)
    BY DEF AL!At
  <2> QED BY <1>1, <2>1, <2>4, <2>5 DEF WaveCovered, AL!At
<1>14. WaveAlert'
  BY <1>1 DEF WaveAlert
<1> QED BY <1>12, <1>13, <1>14

(* A scan reads, merges and judges (merge_reactivation_wave_swaps,         *)
(* apply_alert_data_quality).                                              *)
LEMMA WaveScan ==
  ASSUME WaveAssumption, WaveShape, WaveCovered, WaveAlert,
         NEW new \in SUBSET (AL!Made \ c2), NEW since \in 1..(c8 + 1),
         \A z \in AL!Made \ (c2 \cup new) : AL!At(z) < since,
         NEW x, NEW y, NEW traits, NEW high, AL!Scan(new, since, x, y, traits, high)
  PROVE  WaveShape' /\ WaveCovered' /\ WaveAlert'
<1> DEFINE s == AL!InWindow(new)
           seconds == c3 \cup (since..c8)
           complete == AL!Complete(AL!At(x), AL!At(y), c6', traits, seconds)
<1>1. /\ c2' = c2 \cup new /\ c3' = seconds /\ AL!Merge(new) /\ {x, y} \subseteq c4' /\ UNCHANGED <<c1, c8>>
      /\ c7' = [from |-> AL!At(x), to |-> AL!At(y), traits |-> traits, high |-> high,
                complete |-> complete, tier |-> AL!Tier(traits, high, complete)]
  BY DEF AL!Scan
<1>2. WaveTime \in Nat /\ WaveWindow \in Nat /\ c8 \in Nat /\ AL!Cutoff \in Nat
  BY DEF WaveAssumption, WaveShape, AL!Cutoff
<1>3. AL!Made' = AL!Made /\ AL!Cutoff' = AL!Cutoff
  BY <1>1 DEF AL!Made, AL!Cutoff
<1>4. \A z \in AL!Made : z \in AL!Trades /\ AL!At(z) \in Nat /\ AL!At(z) >= 1
  BY <1>2 DEF AL!Made, AL!Trades, AL!Times, AL!At
<1>5. \A z \in AL!Made : AL!At(z) <= c8
  <2> SUFFICES ASSUME NEW z \in AL!Made, AL!At(z) > c8 PROVE FALSE
    BY <1>2, <1>4
  <2>1. z[1] \in AL!Times /\ z[2] \in 1..WavePerSecond /\ z[2] <= c1[z[1]] /\ z[1] > c8
    BY DEF AL!Made, AL!Trades, AL!At
  <2>2. c1[z[1]] = 0
    BY <2>1 DEF WaveShape
  <2> QED BY <2>1, <2>2 DEF WaveAssumption
<1>6. s \subseteq c4 \cup new /\ s \subseteq AL!Trades
      /\ (\A z \in c4 \cup new : z \notin s => AL!At(z) < AL!Cutoff)
      /\ \A z \in s : AL!At(z) >= AL!Cutoff
  BY <1>2, <1>4 DEF WaveShape, AL!InWindow
<1> HIDE DEF s
<1>7. c4' \subseteq s /\ c5' = AL!OmittedBy(s, c4') /\ c6' = (s # c4' \/ (c5' > 0 /\ c5' >= AL!Cutoff))
  <2>1. AL!Newest(s, WaveMaxMerged) \subseteq s
    BY DEF AL!Newest
  <2> QED BY <1>1, <2>1, <1>3 DEF AL!Merge, s
<1>8. /\ c5' \in 0..WaveTime /\ c5' >= c5 /\ \A z \in s \ c4' : AL!At(z) <= c5'
  BY <1>6, <1>7, OmittedIsMarked DEF WaveShape
<1>9. seconds \subseteq 1..c8
  BY <1>2 DEF WaveShape
<1>10. WaveShape'
  <2>1. c4' \subseteq c2' /\ c2' \subseteq AL!Made
    BY <1>1, <1>6, <1>7 DEF WaveShape
  <2>2. c3' \subseteq 1..c8
    BY <1>1, <1>9
  <2> QED BY <1>1, <1>3, <1>8, <2>1, <2>2 DEF WaveShape
<1>11. \A z \in AL!Made : AL!At(z) \in seconds => z \in c2'
  <2> SUFFICES ASSUME NEW z \in AL!Made, AL!At(z) \in seconds, z \notin c2' PROVE FALSE
    OBVIOUS
  <2>1. z \notin c2 /\ z \notin new
    BY <1>1
  <2>2. AL!At(z) < since
    BY <2>1
  <2>3. AL!At(z) \in c3
    BY <1>2, <1>4, <2>2
  <2> QED BY <2>1, <2>3 DEF WaveCovered
<1>12. ASSUME NEW z \in c2' \ c4'
       PROVE  AL!At(z) <= c5' \/ AL!At(z) < AL!Cutoff
  <2>1. z \in AL!Made
    BY <1>1 DEF WaveShape
  <2>2. CASE z \in c4 \cup new
    BY <1>6, <1>8, <2>2
  <2>3. CASE z \notin c4 \cup new
    <3>1. AL!At(z) <= c5 \/ AL!At(z) < AL!Cutoff
      BY <1>1, <2>3 DEF WaveCovered
    <3>2. c5 \in Nat /\ c5' \in Nat /\ AL!At(z) \in Nat
      BY <1>2, <1>4, <1>8, <2>1 DEF WaveShape
    <3> QED BY <1>8, <3>1, <3>2
  <2> QED BY <2>2, <2>3
<1>13. WaveCovered'
  <2>1. \A z \in AL!Made : AL!At(z) \in c3' => z \in c2'
    BY <1>1, <1>11
  <2> QED BY <1>3, <1>12, <2>1 DEF WaveCovered, AL!At
<1>14. complete \in BOOLEAN
  BY DEF AL!Complete
<1>15. ASSUME complete
       PROVE  {z \in AL!Made : AL!At(x) <= AL!At(z) /\ AL!At(z) <= AL!At(y)} \subseteq c4'
  <2>1. ~c6' /\ (AL!At(x)..AL!At(y)) \subseteq seconds
    BY <1>15 DEF AL!Complete
  <2>2. c5' = 0 \/ c5' < AL!Cutoff
    <3>1. ~(c5' > 0 /\ c5' >= AL!Cutoff)
      <4> DEFINE some == c5' > 0
                 late == c5' >= AL!Cutoff
      <4>1. c6' = (s # c4' \/ (some /\ late))
        BY <1>7
      <4> HIDE DEF some, late
      <4>2. ~(some /\ late)
        BY <2>1, <4>1, Zenon
      <4> QED BY <4>2 DEF some, late
    <3>2. c5' \in Nat
      BY <1>2, <1>8
    <3> QED BY <1>2, <3>1, <3>2
  <2>3. x \in AL!Made /\ y \in AL!Made /\ AL!At(x) >= AL!Cutoff
    BY <1>1, <1>6, <1>7 DEF WaveShape
  <2> SUFFICES ASSUME NEW z \in AL!Made, AL!At(x) <= AL!At(z), AL!At(z) <= AL!At(y), z \notin c4'
               PROVE  FALSE
    OBVIOUS
  <2>4. AL!At(z) \in Nat /\ AL!At(x) \in Nat /\ AL!At(y) \in Nat /\ AL!At(z) >= 1
    BY <1>4, <2>3
  <2>5. AL!At(z) \in seconds
    BY <2>1, <2>4
  <2>6. z \in c2'
    BY <1>11, <2>5
  <2>7. AL!At(z) <= c5' \/ AL!At(z) < AL!Cutoff
    BY <1>12, <2>6
  <2>8. c5' \in Nat
    BY <1>2, <1>8
  <2> HIDE DEF seconds
  <2> QED BY <1>2, <2>2, <2>3, <2>4, <2>7, <2>8
<1>16. WaveAlert'
  <2> HIDE DEF complete
  <2>1. /\ c7'.from = AL!At(x) /\ c7'.to = AL!At(y) /\ c7'.complete = complete
        /\ c7'.tier = AL!Tier(c7'.traits, c7'.high, c7'.complete)
        /\ c7' = [from |-> c7'.from, to |-> c7'.to, traits |-> c7'.traits, high |-> c7'.high,
                  complete |-> c7'.complete, tier |-> c7'.tier]
    BY <1>1
  <2>2. c7'.complete => {z \in AL!Made : c7'.from <= AL!At(z) /\ AL!At(z) <= c7'.to} \subseteq c4'
    BY <1>15, <2>1
  <2>3. WaveAlert' = (c7' # AL!NoAlert =>
      /\ c7' = [from |-> c7'.from, to |-> c7'.to, traits |-> c7'.traits, high |-> c7'.high,
               complete |-> c7'.complete, tier |-> c7'.tier]
      /\ c7'.complete \in BOOLEAN /\ c7'.tier = AL!Tier(c7'.traits, c7'.high, c7'.complete)
      /\ c7'.complete => {z \in AL!Made' : c7'.from <= AL!At(z) /\ AL!At(z) <= c7'.to} \subseteq c4')
    BY DEF WaveAlert, AL!Tier, AL!Classified, AL!Lowered, AL!Confirmed, AL!Hot, AL!At, AL!NoAlert
  <2> QED BY <1>3, <1>14, <2>1, <2>2, <2>3
<1> QED BY <1>10, <1>13, <1>16

(* The alert is classified again (refresh_alert_tiers_with_market_ath).    *)
LEMMA WaveRefreshed ==
  ASSUME WaveShape, WaveCovered, WaveAlert, NEW high, AL!Refreshed(high)
  PROVE  WaveShape' /\ WaveCovered' /\ WaveAlert'
<1>1. /\ c7 # AL!NoAlert /\ UNCHANGED <<c1, c2, c3, c4, c5, c8>>
      /\ c7' = [c7 EXCEPT !.high = high, !.tier = AL!Tier(c7.traits, high, c7.complete)]
  BY DEF AL!Refreshed
<1>2. AL!Made' = AL!Made /\ AL!Cutoff' = AL!Cutoff
  BY <1>1 DEF AL!Made, AL!Cutoff
<1>3. WaveShape' /\ WaveCovered'
  BY <1>1, <1>2 DEF WaveShape, WaveCovered, AL!At
<1>4. WaveAlert'
  <2> DEFINE tier == AL!Tier(c7.traits, high, c7.complete)
  <2>1. c7' = [c7 EXCEPT !.high = high, !.tier = tier]
    BY <1>1
  <2>2. tier = AL!Tier(c7.traits, high, c7.complete)
    OBVIOUS
  <2> HIDE DEF tier
  <2>3. /\ c7 = [from |-> c7.from, to |-> c7.to, traits |-> c7.traits, high |-> c7.high,
                 complete |-> c7.complete, tier |-> c7.tier]
        /\ c7.complete \in BOOLEAN
        /\ c7.complete => {x \in AL!Made : c7.from <= AL!At(x) /\ AL!At(x) <= c7.to} \subseteq c4
    BY <1>1 DEF WaveAlert
  <2>4. c7' = [from |-> c7.from, to |-> c7.to, traits |-> c7.traits, high |-> high,
               complete |-> c7.complete, tier |-> tier]
    BY <2>1, <2>3
  <2>5. /\ c7'.from = c7.from /\ c7'.to = c7.to /\ c7'.traits = c7.traits /\ c7'.high = high
        /\ c7'.complete = c7.complete /\ c7'.tier = tier
    BY <2>4
  <2>6. c7' = [from |-> c7'.from, to |-> c7'.to, traits |-> c7'.traits, high |-> c7'.high,
               complete |-> c7'.complete, tier |-> c7'.tier]
    BY <2>4, <2>5
  <2>7. c7'.tier = AL!Tier(c7'.traits, c7'.high, c7'.complete)
    BY <2>2, <2>5
  <2>8. WaveAlert' = (c7' # AL!NoAlert =>
      /\ c7' = [from |-> c7'.from, to |-> c7'.to, traits |-> c7'.traits, high |-> c7'.high,
               complete |-> c7'.complete, tier |-> c7'.tier]
      /\ c7'.complete \in BOOLEAN /\ c7'.tier = AL!Tier(c7'.traits, c7'.high, c7'.complete)
      /\ c7'.complete => {z \in AL!Made' : c7'.from <= AL!At(z) /\ AL!At(z) <= c7'.to} \subseteq c4')
    BY DEF WaveAlert, AL!Tier, AL!Classified, AL!Lowered, AL!Confirmed, AL!Hot, AL!At, AL!NoAlert
  <2> QED BY <1>1, <1>2, <2>3, <2>5, <2>6, <2>7, <2>8
<1> QED BY <1>3, <1>4

(* The buffer is compacted (compact_pool_swap_buffers), and marks what it  *)
(* loses.                                                                  *)
LEMMA WaveCompacted ==
  ASSUME WaveAssumption, WaveShape, WaveCovered, WaveAlert, AL!Compacted
  PROVE  WaveShape' /\ WaveCovered' /\ WaveAlert'
<1>1. /\ c7' = AL!NoAlert /\ c4' = AL!Newest(c4, WaveMaxKept) /\ c5' = AL!OmittedBy(c4, c4')
      /\ UNCHANGED <<c1, c2, c3, c8>>
  BY DEF AL!Compacted
<1>2. c4' \subseteq c4
  BY <1>1 DEF AL!Newest
<1>3. c4 \in SUBSET AL!Trades /\ c5 \in 0..WaveTime
  BY DEF WaveShape, AL!Made
<1>4. c5' \in 0..WaveTime /\ c5' >= c5 /\ \A z \in c4 \ c4' : AL!At(z) <= c5'
  BY <1>1, <1>3, OmittedIsMarked
<1>5. AL!Made' = AL!Made /\ AL!Cutoff' = AL!Cutoff
  BY <1>1 DEF AL!Made, AL!Cutoff
<1>6. WaveShape'
  BY <1>1, <1>2, <1>4, <1>5 DEF WaveShape
<1>7. \A z \in c2 : AL!At(z) \in Nat
  BY DEF WaveShape, AL!Made, AL!Trades, AL!Times, AL!At
<1>8. ASSUME NEW z \in c2 \ c4'
      PROVE  AL!At(z) <= c5' \/ AL!At(z) < AL!Cutoff
  <2>1. CASE z \in c4
    BY <1>4, <2>1
  <2>2. CASE z \notin c4
    <3>1. AL!At(z) <= c5 \/ AL!At(z) < AL!Cutoff
      BY <2>2 DEF WaveCovered
    <3>2. c5 \in Nat /\ c5' \in Nat /\ AL!At(z) \in Nat
      BY <1>3, <1>4, <1>7 DEF WaveAssumption
    <3> QED BY <1>4, <3>1, <3>2
  <2> QED BY <2>1, <2>2
<1>9. WaveCovered'
  BY <1>1, <1>5, <1>8 DEF WaveCovered, AL!At
<1>10. WaveAlert'
  BY <1>1 DEF WaveAlert, AL!NoAlert
<1> QED BY <1>6, <1>9, <1>10

(* Every step of the evidence.                                             *)
LEMMA WaveStep ==
  ASSUME WaveAssumption, WaveShape, WaveCovered, WaveAlert, AL!Next
  PROVE  WaveShape' /\ WaveCovered' /\ WaveAlert'
<1>1. CASE \E n \in 0..WavePerSecond : AL!Trade(n)
  BY <1>1, WaveTrade
<1>2. CASE \E new \in SUBSET (AL!Made \ c2) :
             \E since \in {t \in 1..(c8 + 1) : \A x \in AL!Made \ (c2 \cup new) : AL!At(x) < t},
                x, y \in c4 \cup new, traits \in WaveTraits, high \in {"unverified", "deep"} :
               AL!Scan(new, since, x, y, traits, high)
  BY <1>2, WaveScan
<1>3. CASE \E high \in AL!Highs : AL!Refreshed(high)
  BY <1>3, WaveRefreshed
<1>4. CASE AL!Compacted
  BY <1>4, WaveCompacted
<1> QED BY <1>1, <1>2, <1>3, <1>4 DEF AL!Next

(* The invariant of the evidence.                                          *)
WaveInv == part = "evidence" => WaveShape /\ WaveCovered /\ WaveAlert

(* An alert that may be acted on was computed from every trade of its      *)
(* wave, and its signal is confirmed and not gated                         *)
(* (apply_alert_data_quality, classify_alert_tier), whatever earlier       *)
(* merges and compactions left out.                                        *)
THEOREM ActionableRestsOnTheWholeWave == Spec => []ActionableIsComplete
<1>1. Init => WaveInv
  <2>1. Init /\ part = "evidence" => AL!Init
    BY DEF Init
  <2> QED BY <2>1, WaveInit, WaveAssumption DEF WaveInv
<1>2. WaveInv /\ [Next]_<<part, c1, c2, c3, c4, c5, c6, c7, c8, c9, c10>> => WaveInv'
  <2> SUFFICES ASSUME WaveInv, [Next]_<<part, c1, c2, c3, c4, c5, c6, c7, c8, c9, c10>>, part' = "evidence"
               PROVE  WaveShape' /\ WaveCovered' /\ WaveAlert'
    BY DEF WaveInv
  <2>1. part = "evidence" /\ WaveShape /\ WaveCovered /\ WaveAlert
    BY DEF Next, WaveInv
  <2>2. CASE UNCHANGED <<part, c1, c2, c3, c4, c5, c6, c7, c8, c9, c10>>
    <3>1. AL!Made' = AL!Made /\ AL!Cutoff' = AL!Cutoff
      BY <2>2 DEF AL!Made, AL!Cutoff
    <3>2. WaveShape' /\ WaveCovered'
      BY <2>1, <2>2, <3>1 DEF WaveShape, WaveCovered, AL!At
    <3>3. WaveAlert'
      BY <2>1, <2>2, <3>1 DEF WaveAlert, AL!Tier, AL!Classified, AL!Lowered, AL!Confirmed, AL!Hot,
            AL!At, AL!NoAlert
    <3> QED BY <3>2, <3>3
  <2>3. CASE Next
    <3>1. AL!Next
      BY <2>1, <2>3 DEF Next
    <3> QED BY <2>1, <3>1, WaveStep, WaveAssumption
  <2> QED BY <2>2, <2>3
<1>3. WaveInv => ActionableIsComplete
  <2> SUFFICES ASSUME WaveAlert, c7.tier \in {"actionable", "hot_reactivation"}
               PROVE  AL!ActionableIsComplete
    BY DEF WaveInv, ActionableIsComplete, AL!ActionableIsComplete
  <2>1. c7 # AL!NoAlert
    BY DEF AL!NoAlert
  <2>2. /\ c7.complete \in BOOLEAN /\ c7.tier = AL!Tier(c7.traits, c7.high, c7.complete)
        /\ c7.complete => {x \in AL!Made : c7.from <= AL!At(x) /\ AL!At(x) <= c7.to} \subseteq c4
    BY <2>1 DEF WaveAlert
  <2>3. /\ c7.complete /\ {"broken", "seasoned", "verified"} \subseteq c7.traits /\ "gated" \notin c7.traits
        /\ c7.tier = "actionable" => c7.high = "deep"
    BY <2>2, TierIsEarned
  <2> QED BY <2>2, <2>3 DEF AL!ActionableIsComplete
<1> QED BY <1>1, <1>2, <1>3, PTL DEF Spec

-----------------------------------------------------------------------------
(* ActivityBaseline: a confirmed quiet regime was observed.                *)

(* The snapshots of a quiet regime follow one another closely, from its    *)
(* start to the last one.                                                  *)
QuietChain(b) ==
    /\ b.last \in Nat /\ b.since \in Nat /\ b.at \in Nat
    /\ \A x \in b.seen : x.at \in Nat /\ 1 <= x.at /\ x.at <= b.last
    /\ b.since # 0 =>
         /\ \E x \in b.seen : x.at = b.since
         /\ \A x \in b.seen : b.since <= x.at =>
              x.quiet /\ (x.at = b.last \/ \E y \in b.seen : x.at < y.at /\ y.at <= x.at + QuietGap)

(* An activation that is remembered ended a quiet regime and is not too    *)
(* old.                                                                    *)
QuietBreak(b) == b.at # 0 => BA!WasQuiet(b.seen, b.at) /\ b.at <= b.last /\ b.last - b.at <= QuietMemory

(* What holds of every copy of a baseline.                                 *)
QuietBaseline(b) == QuietChain(b) /\ QuietBreak(b)

(* All copies are sound and none is from the future; a run records later   *)
(* than its copy's last snapshot.                                          *)
QuietRegimes ==
    /\ c1 \in Nat
    /\ \A j \in {"deep", "pulse"} : QuietBaseline(c2[j]) /\ c2[j].last <= c1
    /\ QuietBaseline(c3.base) /\ c3.base.last <= c1
    /\ QuietBaseline(c4.base) /\ c4.base.last <= c1
    /\ c4.step = "loaded" => c4.base.last < c1
    /\ c4.step = "attached" => c4.base.last < c4.time /\ c4.time <= c1 /\ c4.time \in Nat
    /\ c4.attached # 0 => BA!WasQuiet(c4.read.seen, c4.attached)

(* The shape of the records.                                                *)
QuietShape ==
    /\ c2 = [j \in {"deep", "pulse"} |-> c2[j]]
    /\ c3 = [base |-> c3.base, sent |-> c3.sent]
    /\ c4 = [job |-> c4.job, step |-> c4.step, base |-> c4.base, burst |-> c4.burst,
             quiet |-> c4.quiet, time |-> c4.time, read |-> c4.read, attached |-> c4.attached]
    /\ c4.job \in {"none", "deep", "pulse"} /\ c4.quiet \in BOOLEAN

(* An empty baseline claims nothing.                                       *)
LEMMA NoQuiet == QuietBaseline(BA!Empty) /\ BA!Empty.last = 0
BY DEF QuietBaseline, QuietChain, QuietBreak, BA!Empty

(* Before the first run all copies are empty.                              *)
LEMMA QuietStart ==
  ASSUME BA!Init
  PROVE  QuietShape /\ QuietRegimes
<1>1. /\ c1 = 1 /\ c2 = [j \in {"deep", "pulse"} |-> BA!Empty]
      /\ c3 = [base |-> BA!Empty, sent |-> 0] /\ c4 = BA!Idle
  BY DEF BA!Init, BA!Jobs
<1>2. /\ c4.step = "none" /\ c4.base = BA!Empty /\ c4.attached = 0
  BY <1>1 DEF BA!Idle
<1>3. QuietShape
  BY <1>1 DEF QuietShape, BA!Idle
<1> QED BY <1>1, <1>2, <1>3, NoQuiet DEF QuietRegimes

(* A break of a regime whose chain of quiet snapshots reaches it.           *)
LEMMA BreakWasQuiet ==
  ASSUME QuietAssumption, NEW b, QuietChain(b), NEW t \in Nat, b.last < t,
         NEW seen, b.seen \subseteq seen, \A x \in seen : x \in b.seen \/ x.at = t,
         NEW burst, BA!Breaks(b, burst, t)
  PROVE  BA!WasQuiet(seen, t)
<1>1. /\ b.last # 0 /\ t - b.last <= QuietGap /\ b.since # 0 /\ t - b.since >= QuietLength
  BY DEF BA!Breaks, BA!QuietSince, BA!Contiguous
<1>2. /\ b.last \in Nat /\ b.since \in Nat /\ QuietGap \in Nat /\ QuietLength \in Nat
      /\ \A x \in b.seen : x.at \in Nat /\ 1 <= x.at /\ x.at <= b.last
  BY DEF QuietChain, QuietAssumption
<1>3. PICK first \in b.seen : first.at = b.since
  BY <1>1 DEF QuietChain
<1>4. first \in seen /\ first.at + QuietLength <= t
  BY <1>1, <1>2, <1>3
<1>5. ASSUME NEW x \in seen, first.at <= x.at, x.at < t
      PROVE  x.quiet /\ \E next \in {y.at : y \in seen} \cup {t} :
               x.at < next /\ next <= t /\ next <= x.at + QuietGap
  <2>1. x \in b.seen
    BY <1>5
  <2>2. x.quiet /\ (x.at = b.last \/ \E y \in b.seen : x.at < y.at /\ y.at <= x.at + QuietGap)
    BY <1>1, <1>3, <1>5, <2>1 DEF QuietChain
  <2>3. CASE x.at = b.last
    <3>1. x.at < t /\ t <= x.at + QuietGap
      BY <1>1, <1>2, <2>3
    <3> QED BY <2>2, <3>1
  <2>4. CASE \E y \in b.seen : x.at < y.at /\ y.at <= x.at + QuietGap
    <3>1. PICK y \in b.seen : x.at < y.at /\ y.at <= x.at + QuietGap
      BY <2>4
    <3>2. y.at \in {z.at : z \in seen} /\ y.at <= t
      BY <1>2, <3>1
    <3> QED BY <2>2, <3>1, <3>2
  <2> QED BY <2>2, <2>3, <2>4
<1> QED BY <1>4, <1>5 DEF BA!WasQuiet

(* A later snapshot changes nothing about an earlier regime.                *)
LEMMA QuietStays ==
  ASSUME NEW old, NEW seen, NEW a \in Nat, NEW t \in Nat, a <= t, old \subseteq seen,
         \A x \in seen : x \in old \/ x.at = t, BA!WasQuiet(old, a)
  PROVE  BA!WasQuiet(seen, a)
<1>1. PICK first \in old :
         /\ first.at + QuietLength <= a
         /\ \A x \in old : first.at <= x.at /\ x.at < a =>
              x.quiet /\ \E next \in {y.at : y \in old} \cup {a} :
                x.at < next /\ next <= a /\ next <= x.at + QuietGap
  BY DEF BA!WasQuiet
<1>2. ASSUME NEW x \in seen, first.at <= x.at, x.at < a
      PROVE  x.quiet /\ \E next \in {y.at : y \in seen} \cup {a} :
               x.at < next /\ next <= a /\ next <= x.at + QuietGap
  <2>1. x \in old
    BY <1>2
  <2>2. x.quiet /\ \E next \in {y.at : y \in old} \cup {a} :
          x.at < next /\ next <= a /\ next <= x.at + QuietGap
    BY <1>1, <1>2, <2>1
  <2>3. {y.at : y \in old} \subseteq {y.at : y \in seen}
    OBVIOUS
  <2> QED BY <2>2, <2>3
<1> QED BY <1>1, <1>2 DEF BA!WasQuiet

(* What the context confirms rests on a quiet regime.                       *)
LEMMA ActivationWasQuiet ==
  ASSUME QuietAssumption, NEW b, QuietBaseline(b), NEW t \in Nat, b.last < t,
         NEW seen, b.seen \subseteq seen, \A x \in seen : x \in b.seen \/ x.at = t,
         NEW burst, BA!Activation(b, burst, t) # 0
  PROVE  /\ BA!Activation(b, burst, t) \in Nat /\ BA!WasQuiet(seen, BA!Activation(b, burst, t))
         /\ BA!Activation(b, burst, t) <= t /\ t - BA!Activation(b, burst, t) <= QuietMemory
<1>1. CASE BA!Breaks(b, burst, t)
  <2>1. BA!Activation(b, burst, t) = t
    BY <1>1 DEF BA!Activation
  <2>2. BA!WasQuiet(seen, t)
    BY <1>1, BreakWasQuiet DEF QuietBaseline
  <2>3. t <= t /\ t - t <= QuietMemory
    BY DEF QuietAssumption
  <2> QED BY <2>1, <2>2, <2>3
<1>2. CASE ~BA!Breaks(b, burst, t)
  <2>1. BA!Activation(b, burst, t) = b.at /\ b.at # 0 /\ b.at <= t /\ t - b.at <= QuietMemory
    BY <1>2 DEF BA!Activation
  <2>2. b.at \in Nat /\ BA!WasQuiet(b.seen, b.at)
    BY <2>1 DEF QuietBaseline, QuietChain, QuietBreak
  <2>3. BA!WasQuiet(seen, b.at)
    BY <2>1, <2>2, QuietStays
  <2> QED BY <2>1, <2>2, <2>3
<1> QED BY <1>1, <1>2

(* A snapshot recorded extends the chain of quiet ones, or starts it anew.  *)
LEMMA RecordedIsSound ==
  ASSUME QuietAssumption, NEW b, QuietBaseline(b), NEW t \in Nat, b.last < t,
         NEW quiet \in BOOLEAN, NEW burst
  PROVE  QuietBaseline(BA!Recorded(b, quiet, burst, t)) /\ BA!Recorded(b, quiet, burst, t).last = t
<1> DEFINE snapshot == [at |-> t, quiet |-> quiet]
           seen == b.seen \cup {snapshot}
           since == CASE ~quiet -> 0
                      [] quiet /\ BA!QuietSince(b, t) # 0 -> BA!QuietSince(b, t)
                      [] OTHER -> t
           at == BA!Activation(b, burst, t)
           r == BA!Recorded(b, quiet, burst, t)
<1>1. r.last = t /\ r.since = since /\ r.at = at /\ r.seen = seen
  BY DEF BA!Recorded
<1>2. snapshot.at = t /\ snapshot.quiet = quiet /\ b.seen \subseteq seen /\ snapshot \in seen
      /\ \A x \in seen : x \in b.seen \/ x = snapshot
  OBVIOUS
<1>3. \/ ~quiet /\ since = 0
      \/ quiet /\ since = b.since /\ b.since # 0 /\ b.last # 0 /\ t - b.last <= QuietGap
      \/ quiet /\ since = t
  <2>1. BA!QuietSince(b, t) # 0 => BA!QuietSince(b, t) = b.since /\ b.last # 0 /\ t - b.last <= QuietGap
    BY DEF BA!QuietSince, BA!Contiguous
  <2> QED BY <2>1
<1>4. /\ b.last \in Nat /\ b.since \in Nat /\ b.at \in Nat /\ QuietGap \in Nat
      /\ \A x \in b.seen : x.at \in Nat /\ 1 <= x.at /\ x.at <= b.last
  BY DEF QuietBaseline, QuietChain, QuietAssumption
<1>5. at # 0 => /\ at \in Nat /\ BA!WasQuiet(seen, at) /\ at <= t /\ t - at <= QuietMemory
  <2>1. \A x \in seen : x \in b.seen \/ x.at = t
    BY <1>2
  <2> HIDE DEF seen, snapshot
  <2> QED BY <1>2, <2>1, ActivationWasQuiet
<1> HIDE DEF snapshot, seen, since, at, r
<1>6. QuietBreak(r)
  BY <1>1, <1>5 DEF QuietBreak
<1>7. since \in Nat /\ at \in Nat
  BY <1>3, <1>4, <1>5
<1>8. \A x \in seen : x.at \in Nat /\ 1 <= x.at /\ x.at <= t
  BY <1>2, <1>4
<1>9. since # 0 => \E x \in seen : x.at = since
  <2>1. CASE since = t
    BY <1>2, <2>1
  <2>2. CASE since = b.since /\ b.since # 0
    BY <1>2, <2>2 DEF QuietBaseline, QuietChain
  <2> QED BY <1>3, <2>1, <2>2
<1>10. ASSUME since # 0, NEW x \in seen, since <= x.at
       PROVE  x.quiet /\ (x.at = t \/ \E y \in seen : x.at < y.at /\ y.at <= x.at + QuietGap)
  <2>1. CASE x = snapshot
    BY <1>2, <1>3, <1>10, <2>1
  <2>2. CASE x # snapshot
    <3>1. x \in b.seen /\ x.at \in Nat /\ x.at <= b.last
      BY <1>2, <1>4, <2>2
    <3>2. since = b.since /\ b.since # 0 /\ b.last # 0 /\ t - b.last <= QuietGap
      BY <1>3, <1>4, <1>10, <3>1
    <3>3. x.quiet /\ (x.at = b.last \/ \E y \in b.seen : x.at < y.at /\ y.at <= x.at + QuietGap)
      BY <1>10, <3>1, <3>2 DEF QuietBaseline, QuietChain
    <3>4. x.at = b.last => x.at < snapshot.at /\ snapshot.at <= x.at + QuietGap
      BY <1>2, <1>4, <3>2
    <3> QED BY <1>2, <3>3, <3>4
  <2> QED BY <2>1, <2>2
<1>11. QuietChain(r)
  BY <1>1, <1>7, <1>8, <1>9, <1>10 DEF QuietChain
<1> QED BY <1>1, <1>6, <1>11 DEF QuietBaseline, r

(* A run as it is after each of its steps.                                  *)
RunIsQuiet(r, time) ==
    /\ QuietBaseline(r.base) /\ r.base.last <= time
    /\ r.step = "loaded" => r.base.last < time
    /\ r.step = "attached" => r.base.last < r.time /\ r.time <= time /\ r.time \in Nat
    /\ r.attached # 0 => BA!WasQuiet(r.read.seen, r.attached)

(* The shape of a run.                                                     *)
RunShape(r) ==
    /\ r = [job |-> r.job, step |-> r.step, base |-> r.base, burst |-> r.burst,
            quiet |-> r.quiet, time |-> r.time, read |-> r.read, attached |-> r.attached]
    /\ r.job \in {"none", "deep", "pulse"} /\ r.quiet \in BOOLEAN

(* No run is under way.                                                    *)
LEMMA QuietIdle ==
  ASSUME NEW time \in Nat
  PROVE  RunShape(BA!Idle) /\ RunIsQuiet(BA!Idle, time)
<1>1. BA!Idle.step = "none" /\ BA!Idle.base = BA!Empty /\ BA!Idle.attached = 0
  BY DEF BA!Idle
<1>2. RunShape(BA!Idle)
  BY DEF BA!Idle, RunShape
<1> QED BY <1>1, <1>2, NoQuiet DEF RunIsQuiet

(* A step of a run that leaves the rows and the checkpoints.                *)
LEMMA QuietRun ==
  ASSUME QuietShape, QuietRegimes, UNCHANGED <<c1, c2, c3>>, RunShape(c4'), RunIsQuiet(c4', c1)
  PROVE  QuietShape' /\ QuietRegimes'
<1>1. \A b : QuietBaseline(b)' <=> QuietBaseline(b)
  OBVIOUS
<1>2. QuietShape'
  BY DEF QuietShape, RunShape
<1>3. QuietRegimes'
  BY DEF QuietRegimes, RunIsQuiet
<1> QED BY <1>2, <1>3

(* A run loads the newest copy it can see, from before its start.          *)
LEMMA QuietLoads ==
  ASSUME QuietAssumption, QuietShape, QuietRegimes,
         \/ \E own, other, remote \in BOOLEAN : BA!LoadDeep(own, other, remote)
         \/ \E own, deep, remote \in BOOLEAN : BA!LoadPulse(own, deep, remote)
  PROVE  QuietShape' /\ QuietRegimes'
<1> DEFINE Fresh(b) == QuietBaseline(b) /\ b.last < c1
<1>1. BA!Starts /\ UNCHANGED <<c1, c2, c3>>
  BY DEF BA!LoadDeep, BA!LoadPulse
<1>2. c1 \in Nat /\ Fresh(c2["deep"]) /\ Fresh(c2["pulse"]) /\ Fresh(c3.base)
  BY <1>1 DEF BA!Starts, BA!Jobs, QuietRegimes
<1>3. c1 > 0
  BY <1>2 DEF QuietBaseline, QuietChain
<1>4. Fresh(BA!Empty)
  BY <1>2, <1>3, NoQuiet
<1>5. ASSUME NEW a, NEW b, Fresh(a), Fresh(b) PROVE Fresh(BA!Newer(a, b))
  BY <1>5 DEF BA!Newer
<1>6. \E b, job : job \in {"deep", "pulse"} /\ Fresh(b)
                  /\ c4' = [BA!Idle EXCEPT !.job = job, !.step = "loaded", !.base = b]
  <2>1. ASSUME NEW own \in BOOLEAN, NEW other \in BOOLEAN, NEW remote \in BOOLEAN,
               BA!LoadDeep(own, other, remote)
        PROVE  \E b : Fresh(b) /\ c4' = [BA!Idle EXCEPT !.job = "deep", !.step = "loaded", !.base = b]
    <3> DEFINE mine == IF own THEN c2["deep"] ELSE BA!Empty
               merged == IF other THEN BA!Newer(c2["pulse"], mine) ELSE mine
               b == IF remote THEN BA!Newer(c3.base, merged) ELSE merged
    <3>1. Fresh(mine)
      BY <1>2, <1>4
    <3> HIDE DEF mine
    <3>2. Fresh(merged)
      BY <1>2, <1>5, <3>1
    <3> HIDE DEF merged
    <3>3. Fresh(b)
      BY <1>2, <1>5, <3>2
    <3>4. c4' = [BA!Idle EXCEPT !.job = "deep", !.step = "loaded", !.base = b]
      BY <2>1 DEF BA!LoadDeep, merged, mine
    <3> HIDE DEF b, Fresh
    <3> QED BY <3>3, <3>4
  <2>2. ASSUME NEW own \in BOOLEAN, NEW deep \in BOOLEAN, NEW remote \in BOOLEAN, BA!LoadPulse(own, deep, remote)
        PROVE  \E b : Fresh(b) /\ c4' = [BA!Idle EXCEPT !.job = "pulse", !.step = "loaded", !.base = b]
    <3> DEFINE mine == CASE own -> c2["pulse"] [] deep -> c2["deep"] [] OTHER -> BA!Empty
               b == IF remote THEN BA!Newer(c3.base, mine) ELSE mine
    <3>1. Fresh(mine)
      BY <1>2, <1>4
    <3> HIDE DEF mine
    <3>2. Fresh(b)
      BY <1>2, <1>5, <3>1
    <3>3. c4' = [BA!Idle EXCEPT !.job = "pulse", !.step = "loaded", !.base = b]
      BY <2>2 DEF BA!LoadPulse, mine
    <3> HIDE DEF b, Fresh
    <3> QED BY <3>2, <3>3
  <2> HIDE DEF Fresh
  <2> QED BY <2>1, <2>2
<1>7. PICK b, job : job \in {"deep", "pulse"} /\ Fresh(b)
                    /\ c4' = [BA!Idle EXCEPT !.job = job, !.step = "loaded", !.base = b]
  BY <1>6
<1>8. c4' = [job |-> job, step |-> "loaded", base |-> b, burst |-> FALSE, quiet |-> FALSE,
             time |-> 0, read |-> BA!Empty, attached |-> 0]
  BY <1>7 DEF BA!Idle
<1>9. RunShape(c4')
  <2>1. job \in {"none", "deep", "pulse"}
    BY <1>7
  <2> QED BY <1>8, <2>1 DEF RunShape
<1>10. RunIsQuiet(c4', c1)
  <2>1. QuietBaseline(b) /\ b.last < c1 /\ b.last <= c1
    <3>1. QuietBaseline(b) /\ b.last < c1
      BY <1>7
    <3>2. b.last \in Nat
      BY <3>1 DEF QuietBaseline, QuietChain
    <3> QED BY <1>2, <3>1, <3>2
  <2>2. c4'.step = "loaded" /\ c4'.base = b /\ c4'.attached = 0
    BY <1>8
  <2> QED BY <2>1, <2>2 DEF RunIsQuiet
<1> QED BY <1>1, <1>9, <1>10, QuietRun

(* The context is attached to the pool (activity_context_from_history).    *)
LEMMA QuietAttach ==
  ASSUME QuietAssumption, QuietShape, QuietRegimes,
         NEW quiet \in BOOLEAN, NEW burst \in BOOLEAN, BA!Attach(quiet, burst)
  PROVE  QuietShape' /\ QuietRegimes'
<1> DEFINE attached == BA!Activation(c4.base, burst, c1)
<1>1. /\ c4.step = "loaded" /\ UNCHANGED <<c1, c2, c3>>
      /\ c4' = [c4 EXCEPT !.step = "attached", !.quiet = quiet, !.burst = burst, !.time = c1,
                          !.read = c4.base, !.attached = attached]
  BY DEF BA!Attach
<1>2. c1 \in Nat /\ QuietBaseline(c4.base) /\ c4.base.last < c1 /\ c4.base.last <= c1
  BY <1>1 DEF QuietRegimes
<1>3. attached # 0 => BA!WasQuiet(c4.base.seen, attached)
  BY <1>2, ActivationWasQuiet
<1> HIDE DEF attached
<1>4. c4' = [job |-> c4.job, step |-> "attached", base |-> c4.base, burst |-> burst, quiet |-> quiet,
             time |-> c1, read |-> c4.base, attached |-> attached]
  BY <1>1 DEF QuietShape
<1>5. RunShape(c4')
  BY <1>4 DEF RunShape, QuietShape
<1>6. RunIsQuiet(c4', c1)
  <2>1. /\ c4'.base = c4.base /\ c4'.step = "attached" /\ c4'.time = c1 /\ c4'.read = c4.base
        /\ c4'.attached = attached
    BY <1>4
  <2> QED BY <1>2, <1>3, <2>1 DEF RunIsQuiet
<1> QED BY <1>1, <1>5, <1>6, QuietRun

(* The snapshot is recorded and sent (record_market_activity_baselines).   *)
LEMMA QuietRecord ==
  ASSUME QuietAssumption, QuietShape, QuietRegimes, NEW sent \in BOOLEAN, BA!Record(sent)
  PROVE  QuietShape' /\ QuietRegimes'
<1> DEFINE t == IF c4.job = "deep" THEN c1 ELSE c4.time
           base == BA!Recorded(c4.base, c4.quiet, c4.burst, t)
<1>1. /\ c4.step = "attached" /\ UNCHANGED <<c1, c2>> /\ c4' = [c4 EXCEPT !.step = "recorded", !.base = base]
      /\ c3' = IF sent /\ t >= c3.sent THEN [base |-> base, sent |-> t] ELSE c3
  BY DEF BA!Record
<1>2. /\ QuietBaseline(c4.base) /\ c4.base.last < c4.time /\ c4.time <= c1 /\ c4.time \in Nat /\ c1 \in Nat
      /\ c4.base.last \in Nat
  BY <1>1 DEF QuietRegimes, QuietBaseline, QuietChain
<1>3. t \in Nat /\ c4.base.last < t /\ t <= c1
  BY <1>2
<1>4. c4.quiet \in BOOLEAN
  BY DEF QuietShape
<1> HIDE DEF t
<1>5. QuietBaseline(base) /\ base.last = t
  BY <1>2, <1>3, <1>4, RecordedIsSound
<1> HIDE DEF base
<1>6. c4' = [job |-> c4.job, step |-> "recorded", base |-> base, burst |-> c4.burst, quiet |-> c4.quiet,
             time |-> c4.time, read |-> c4.read, attached |-> c4.attached]
  BY <1>1 DEF QuietShape
<1>7. /\ c4'.job = c4.job /\ c4'.step = "recorded" /\ c4'.base = base /\ c4'.quiet = c4.quiet
      /\ c4'.read = c4.read /\ c4'.attached = c4.attached
  BY <1>6
<1>8. QuietShape'
  <2>1. c4' = [job |-> c4'.job, step |-> c4'.step, base |-> c4'.base, burst |-> c4'.burst,
               quiet |-> c4'.quiet, time |-> c4'.time, read |-> c4'.read, attached |-> c4'.attached]
    BY <1>6
  <2>2. c3' = [base |-> c3'.base, sent |-> c3'.sent]
    BY <1>1 DEF QuietShape
  <2> QED BY <1>1, <1>7, <2>1, <2>2 DEF QuietShape
<1>9. QuietBaseline(c3'.base) /\ c3'.base.last <= c1
  <2>1. c3'.base = base \/ c3'.base = c3.base
    BY <1>1
  <2>2. base.last <= c1
    BY <1>3, <1>5
  <2>3. QuietBaseline(c3.base) /\ c3.base.last <= c1
    BY DEF QuietRegimes
  <2>4. CASE c3'.base = base
    BY <1>5, <2>2, <2>4
  <2>5. CASE c3'.base = c3.base
    BY <2>3, <2>5
  <2> QED BY <2>1, <2>4, <2>5
<1>10. \A j \in {"deep", "pulse"} : QuietBaseline(c2[j]) /\ c2[j].last <= c1
  BY DEF QuietRegimes
<1>11. c4.attached # 0 => BA!WasQuiet(c4.read.seen, c4.attached)
  BY DEF QuietRegimes
<1>12. base.last <= c1
  BY <1>3, <1>5
<1>13. QuietRegimes'
  BY <1>1, <1>2, <1>5, <1>7, <1>9, <1>10, <1>11, <1>12 DEF QuietRegimes
<1> QED BY <1>8, <1>13

(* Time passes, a checkpoint is saved, a run is lost.                      *)
LEMMA QuietOthers ==
  ASSUME QuietAssumption, QuietShape, QuietRegimes, BA!Tick \/ BA!Save \/ BA!Crash
  PROVE  QuietShape' /\ QuietRegimes'
<1>1. c1 \in Nat /\ QuietBaseline(c4.base) /\ c4.base.last <= c1
  BY DEF QuietRegimes
<1>2. CASE BA!Crash
  <2>1. c4' = BA!Idle /\ UNCHANGED <<c1, c2, c3>>
    BY <1>2 DEF BA!Crash
  <2>2. RunShape(c4') /\ RunIsQuiet(c4', c1)
    BY <1>1, <2>1, QuietIdle
  <2> QED BY <2>1, <2>2, QuietRun
<1>3. CASE BA!Tick
  <2>1. c1' = c1 + 1 /\ UNCHANGED <<c2, c3, c4>>
    BY <1>3 DEF BA!Tick
  <2>2. /\ c2["deep"].last \in Nat /\ c2["pulse"].last \in Nat /\ c3.base.last \in Nat /\ c4.base.last \in Nat
    BY DEF QuietRegimes, QuietBaseline, QuietChain
  <2>3. QuietShape'
    BY <2>1 DEF QuietShape
  <2>4. QuietRegimes'
    BY <1>1, <2>1, <2>2 DEF QuietRegimes
  <2> QED BY <2>3, <2>4
<1>4. CASE BA!Save
  <2>1. c2' = [c2 EXCEPT ![c4.job] = c4.base] /\ c4' = BA!Idle /\ UNCHANGED <<c1, c3>>
    BY <1>4 DEF BA!Save
  <2>2. \A j \in {"deep", "pulse"} : c2'[j] = c2[j] \/ c2'[j] = c4.base
    BY <2>1 DEF QuietShape
  <2>3. c2' = [j \in {"deep", "pulse"} |-> c2'[j]]
    BY <2>1 DEF QuietShape
  <2>4. RunShape(c4') /\ RunIsQuiet(c4', c1)
    BY <1>1, <2>1, QuietIdle
  <2>5. QuietShape'
    BY <2>1, <2>3, <2>4 DEF QuietShape, RunShape
  <2>6. \A j \in {"deep", "pulse"} : QuietBaseline(c2'[j]) /\ c2'[j].last <= c1
    BY <1>1, <2>2 DEF QuietRegimes
  <2>7. QuietRegimes'
    BY <2>1, <2>4, <2>6 DEF QuietRegimes, RunIsQuiet
  <2> QED BY <2>5, <2>7
<1> QED BY <1>2, <1>3, <1>4

(* Every step of the runs.                                                 *)
LEMMA QuietStep ==
  ASSUME QuietAssumption, QuietShape, QuietRegimes, BA!Next
  PROVE  QuietShape' /\ QuietRegimes'
BY QuietLoads, QuietAttach, QuietRecord, QuietOthers DEF BA!Next

(* The invariant of the baselines.                                         *)
QuietInv == part = "baseline" => QuietShape /\ QuietRegimes

(* A confirmed reactivation rests on a continuous quiet regime of the      *)
(* required length that was observed in the snapshots of the copy it was   *)
(* computed from, and is not remembered past its time                      *)
(* (activity_context_from_history), whichever checkpoint or row was lost.  *)
THEOREM ConfirmedRegimesWereQuiet == Spec => []QuietIsObserved
<1>1. Init => QuietInv
  <2>1. Init /\ part = "baseline" => BA!Init
    BY DEF Init
  <2> QED BY <2>1, QuietStart DEF QuietInv
<1>2. QuietInv /\ [Next]_<<part, c1, c2, c3, c4, c5, c6, c7, c8, c9, c10>> => QuietInv'
  <2> SUFFICES ASSUME QuietInv, [Next]_<<part, c1, c2, c3, c4, c5, c6, c7, c8, c9, c10>>, part' = "baseline"
               PROVE  QuietShape' /\ QuietRegimes'
    BY DEF QuietInv
  <2>1. part = "baseline" /\ QuietShape /\ QuietRegimes
    BY DEF Next, QuietInv
  <2>2. CASE UNCHANGED <<part, c1, c2, c3, c4, c5, c6, c7, c8, c9, c10>>
    BY <2>1, <2>2 DEF QuietShape, QuietRegimes
  <2>3. CASE Next
    <3>1. BA!Next
      BY <2>1, <2>3 DEF Next
    <3> QED BY <2>1, <3>1, QuietStep, QuietAssumption
  <2> QED BY <2>2, <2>3
<1>3. QuietInv => QuietIsObserved
  <2> SUFFICES ASSUME QuietRegimes PROVE BA!QuietIsObserved
    BY DEF QuietInv, QuietIsObserved
  <2>1. ASSUME NEW b \in {c2["deep"], c2["pulse"], c3.base, c4.base}
        PROVE  QuietBaseline(b)
    BY DEF QuietRegimes
  <2> QED BY <2>1 DEF BA!QuietIsObserved, QuietRegimes, QuietBaseline, QuietBreak
<1> QED BY <1>1, <1>2, <1>3, PTL DEF Spec

-----------------------------------------------------------------------------
(* MarketOutcomes: what was measured stays measured.                       *)

(* A quote, a measured horizon, an outcome, and the states it is kept in.  *)
OutcomeEntry == [at : Nat, stale : BOOLEAN]
OutcomeEnd == [at : Nat, quality : {"none", "complete", "delayed"}, over : SUBSET Nat]
OutcomeRecord == [at : Nat, updated : Nat, shown : SUBSET Nat, ends : [OutcomeHorizons -> OutcomeEnd]]
OutcomeState == [entry : OutcomeEntry, out : OutcomeRecord]
OutcomeRow == [entry : OutcomeEntry, out : OutcomeRecord, updated : Nat]

(* A horizon that is measured has its price from the first quote after it  *)
(* was due, and the extremes of the quotes up to it.                       *)
OutcomeSettled(o, h) ==
    /\ o.at > 0 /\ o.at + h <= o.ends[h].at /\ o.ends[h].at \in o.ends[h].over
    /\ \A q \in o.ends[h].over \ {o.ends[h].at} : o.at <= q /\ q < o.at + h
    /\ o.ends[h].quality = IF o.ends[h].at - (o.at + h) <= OutcomeDelay THEN "complete" ELSE "delayed"

(* A horizon that is not measured was shown no quote after it was due.     *)
OutcomeOpen(o, h) ==
    /\ o.ends[h] = OU!NoEnd
    /\ \A q \in o.shown : q < o.at + h

(* An outcome as it was at some time before: its horizons are settled or   *)
(* open, and only an update settles them.                                  *)
OutcomeSane(o, time) ==
    /\ o.updated < time
    /\ o.at = 0 => o.updated = 0
    /\ \A q \in o.shown : o.at <= q
    /\ \A h \in OutcomeHorizons : OutcomeOpen(o, h) \/ OutcomeSettled(o, h)
    /\ o.updated = 0 => \A h \in OutcomeHorizons : o.ends[h] = OU!NoEnd

(* An outcome goes on from another one: it is of an earlier catch, or of   *)
(* the same with all horizons that were measured.                          *)
OutcomeExtends(p, o) ==
    /\ p.at > 0
    /\ \/ p.at < o.at
       \/ p.at = o.at /\ \A h \in OutcomeHorizons : o.ends[h] # OU!NoEnd => p.ends[h] = o.ends[h]

(* A copy that was updated later goes on from the other one.               *)
OutcomeFollows(o, p) ==
    o.updated > 0 /\ p.updated > o.updated => OutcomeExtends(p, o)

(* The variables have their shape; alerts are of some time.                *)
OutcomeShape ==
    /\ c1 \in OutcomeState /\ c2 \in OutcomeState /\ c3 \in OutcomeRow
    /\ c4 \subseteq Nat \ {0} /\ c5 \in Nat

(* Every copy is sane; a remote copy that would replace the deep scan's,   *)
(* and a pulse's copy that would replace either of them, go on from it.    *)
OutcomeKept ==
    /\ OutcomeSane(c1.out, c5) /\ OutcomeSane(c2.out, c5) /\ OutcomeSane(c3.out, c5)
    /\ OutcomeFollows(c1.out, c3.out) /\ OutcomeFollows(c1.out, c2.out)
    /\ OutcomeFollows(c3.out, c2.out)

(* A horizon that was not measured, and an outcome that has just begun.    *)
LEMMA OutcomeNoEnd ==
    OU!NoEnd \in OutcomeEnd /\ OU!NoEnd.quality = "none" /\ OU!NoEnd.over = {}
BY DEF OU!NoEnd, OutcomeEnd

(* A catch at some time has measured nothing yet.                          *)
LEMMA OutcomeBegins ==
  ASSUME NEW at \in Nat
  PROVE  /\ OU!Caught(at) \in OutcomeRecord
         /\ OU!Caught(at).at = at /\ OU!Caught(at).updated = 0 /\ OU!Caught(at).shown = {}
         /\ \A h \in OutcomeHorizons : OU!Caught(at).ends[h] = OU!NoEnd
         /\ \A time \in Nat \ {0} : OutcomeSane(OU!Caught(at), time)
<1> DEFINE ends == [h \in OutcomeHorizons |-> OU!NoEnd]
<1>1. OU!Caught(at) = [at |-> at, updated |-> 0, shown |-> {}, ends |-> ends]
  BY DEF OU!Caught
<1>2. ends \in [OutcomeHorizons -> OutcomeEnd] /\ \A h \in OutcomeHorizons : ends[h] = OU!NoEnd
  BY OutcomeNoEnd
<1> HIDE DEF ends
<1>3. /\ OU!Caught(at) \in OutcomeRecord
      /\ OU!Caught(at).at = at /\ OU!Caught(at).updated = 0 /\ OU!Caught(at).shown = {}
      /\ \A h \in OutcomeHorizons : OU!Caught(at).ends[h] = OU!NoEnd
  BY <1>1, <1>2 DEF OutcomeRecord
<1>4. ASSUME NEW time \in Nat \ {0} PROVE OutcomeSane(OU!Caught(at), time)
  <2>1. 0 < time
    OBVIOUS
  <2> QED BY <1>3, <2>1 DEF OutcomeSane, OutcomeOpen
<1> QED BY <1>3, <1>4

(* Time goes on.                                                           *)
LEMMA OutcomeAges ==
  ASSUME NEW o \in OutcomeRecord, NEW time \in Nat, OutcomeSane(o, time)
  PROVE  OutcomeSane(o, time + 1)
<1>1. o.updated \in Nat
  BY DEF OutcomeRecord
<1>2. o.updated < time + 1
  BY <1>1 DEF OutcomeSane
<1> QED BY <1>2 DEF OutcomeSane

(* Going on is transitive.                                                 *)
LEMMA OutcomeGoesOn ==
  ASSUME NEW o \in OutcomeRecord, NEW p \in OutcomeRecord, NEW q \in OutcomeRecord,
         OutcomeExtends(p, o), OutcomeExtends(q, p)
  PROVE  OutcomeExtends(q, o)
<1>1. o.at \in Nat /\ p.at \in Nat /\ q.at \in Nat
  BY DEF OutcomeRecord
<1> QED BY <1>1 DEF OutcomeExtends

(* What one price settles: the horizons that are due and still open.       *)
LEMMA OutcomeMeasures ==
  ASSUME OutcomeAssumption, c5 \in Nat, NEW o \in OutcomeRecord, OutcomeSane(o, c5), NEW e \in OutcomeEntry
  PROVE  /\ OU!Measured(o, e) \in OutcomeRecord /\ OutcomeSane(OU!Measured(o, e), c5 + 1)
         /\ OU!Measured(o, e) = o \/ OU!Measured(o, e).updated = c5
         /\ OU!Measured(o, e).at = o.at
         /\ \A h \in OutcomeHorizons : o.ends[h] # OU!NoEnd => OU!Measured(o, e).ends[h] = o.ends[h]
<1>1. CASE o.at = 0 \/ ~OU!Usable(e) \/ e.at < o.at
  <2>1. OU!Measured(o, e) = o
    BY <1>1 DEF OU!Measured
  <2> QED BY <2>1, OutcomeAges
<1>2. CASE ~(o.at = 0 \/ ~OU!Usable(e) \/ e.at < o.at)
  <2> DEFINE shown == o.shown \cup {e.at}
             end(h) == IF o.ends[h] # OU!NoEnd \/ e.at < o.at + h THEN o.ends[h]
                       ELSE [at |-> e.at, over |-> shown,
                             quality |-> IF e.at - (o.at + h) <= OutcomeDelay THEN "complete" ELSE "delayed"]
             ends == [h \in OutcomeHorizons |-> end(h)]
             m == [at |-> o.at, updated |-> c5, shown |-> shown, ends |-> ends]
  <2>1. o.at \in Nat /\ o.updated \in Nat /\ o.shown \subseteq Nat /\ o.ends \in [OutcomeHorizons -> OutcomeEnd]
        /\ e.at \in Nat
    BY DEF OutcomeRecord, OutcomeEntry
  <2>2. o.at > 0 /\ o.at <= e.at
    BY <1>2, <2>1
  <2>3. OU!Measured(o, e) = m
    <3>1. OU!Measured(o, e) = [o EXCEPT !.updated = c5, !.shown = shown, !.ends = ends]
      BY <1>2 DEF OU!Measured
    <3> HIDE DEF shown, ends
    <3> QED BY <3>1 DEF OutcomeRecord
  <2>4. \A h \in OutcomeHorizons : end(h) \in OutcomeEnd
    <3> SUFFICES ASSUME NEW h \in OutcomeHorizons PROVE end(h) \in OutcomeEnd
      OBVIOUS
    <3>1. o.ends[h] \in OutcomeEnd /\ shown \in SUBSET Nat
      BY <2>1
    <3> HIDE DEF shown
    <3>2. ASSUME NEW quality \in {"complete", "delayed"}
          PROVE  [at |-> e.at, over |-> shown, quality |-> quality] \in OutcomeEnd
      BY <2>1, <3>1 DEF OutcomeEnd
    <3> QED BY <3>1, <3>2
  <2> HIDE DEF end
  <2>5. \A h \in OutcomeHorizons : ends[h] = end(h)
    OBVIOUS
  <2>6. ends \in [OutcomeHorizons -> OutcomeEnd] /\ shown \in SUBSET Nat
    BY <2>1, <2>4
  <2>7. \A q \in shown : o.at <= q
    BY <2>2 DEF OutcomeSane
  <2> HIDE DEF ends
  <2>8. m \in OutcomeRecord /\ m.at = o.at /\ m.updated = c5 /\ m.shown = shown /\ m.ends = ends
    BY <2>1, <2>6 DEF OutcomeRecord
  <2> HIDE DEF m
  <2>9. ASSUME NEW h \in OutcomeHorizons
        PROVE  /\ OutcomeOpen(m, h) \/ OutcomeSettled(m, h)
               /\ o.ends[h] # OU!NoEnd => m.ends[h] = o.ends[h]
    <3>1. m.ends[h] = end(h) /\ h \in Nat /\ (OutcomeOpen(o, h) \/ OutcomeSettled(o, h))
      BY <2>5, <2>8 DEF OutcomeAssumption, OutcomeSane
    <3>2. CASE o.ends[h] # OU!NoEnd
      <4>1. OutcomeSettled(o, h) /\ m.ends[h] = o.ends[h]
        BY <3>1, <3>2 DEF OutcomeOpen, end
      <4> QED BY <2>8, <4>1 DEF OutcomeSettled
    <3>3. CASE o.ends[h] = OU!NoEnd
      <4>1. OutcomeOpen(o, h)
        <5>1. o.ends[h].over = {}
          BY <3>3, OutcomeNoEnd
        <5> QED BY <3>1, <5>1 DEF OutcomeSettled
      <4>2. CASE e.at < o.at + h
        <5>1. m.ends[h] = OU!NoEnd
          BY <3>1, <3>3, <4>2 DEF end
        <5>2. \A q \in m.shown : q < m.at + h
          BY <2>8, <4>1, <4>2 DEF OutcomeOpen, shown
        <5> QED BY <3>3, <5>1, <5>2 DEF OutcomeOpen
      <4>3. CASE ~(e.at < o.at + h)
        <5> DEFINE quality == IF e.at - (o.at + h) <= OutcomeDelay THEN "complete" ELSE "delayed"
        <5>1. m.ends[h] = [at |-> e.at, over |-> shown, quality |-> quality]
          BY <3>1, <3>3, <4>3 DEF end
        <5> HIDE DEF quality
        <5>2. m.ends[h].at = e.at /\ m.ends[h].over = shown /\ m.ends[h].quality = quality
          BY <5>1
        <5>3. o.at + h <= e.at
          BY <2>1, <3>1, <4>3
        <5>4. \A q \in shown \ {e.at} : o.at <= q /\ q < o.at + h
          BY <2>7, <4>1 DEF OutcomeOpen, shown
        <5>5. e.at \in shown
          BY DEF shown
        <5> QED BY <2>2, <2>8, <3>3, <5>2, <5>3, <5>4, <5>5 DEF OutcomeSettled, quality
      <4> QED BY <4>2, <4>3
    <3> QED BY <3>2, <3>3
  <2>10. m.updated # 0
    <3>1. OU!Usable(e) /\ c5 > 0
      BY <1>2, <2>1 DEF OU!Usable
    <3> QED BY <2>8, <3>1
  <2>11. OutcomeSane(m, c5 + 1)
    <3>1. m.updated < c5 + 1 /\ m.at # 0 /\ \A q \in m.shown : m.at <= q
      BY <2>1, <2>2, <2>7, <2>8
    <3> QED BY <2>9, <2>10, <3>1 DEF OutcomeSane
  <2> QED BY <2>3, <2>8, <2>9, <2>11
<1> QED BY <1>1, <1>2

(* What the alerts leave of an outcome: the same, or one that begins at an *)
(* earlier catch.                                                          *)
LEMMA OutcomeIsCaught ==
  ASSUME NEW o \in OutcomeRecord, NEW time \in Nat, OutcomeSane(o, time),
         NEW alerts \in SUBSET (Nat \ {0})
  PROVE  /\ OU!Recaught(o, alerts) \in OutcomeRecord /\ OutcomeSane(OU!Recaught(o, alerts), time)
         /\ \/ OU!Recaught(o, alerts) = o
            \/ /\ OU!Recaught(o, alerts).updated = 0 /\ OU!Recaught(o, alerts).at > 0
               /\ o.at = 0 \/ OU!Recaught(o, alerts).at < o.at
<1> DEFINE first == OU!Min(alerts)
<1>1. o.at \in Nat /\ o.updated \in Nat /\ time \in Nat \ {0}
  <2>1. o.at \in Nat /\ o.updated \in Nat /\ o.updated < time
    BY DEF OutcomeRecord, OutcomeSane
  <2> QED BY <2>1
<1>2. CASE alerts = {} \/ (o.at > 0 /\ o.at <= first)
  BY <1>2 DEF OU!Recaught
<1>3. CASE ~(alerts = {} \/ (o.at > 0 /\ o.at <= first))
  <2>1. OU!Recaught(o, alerts) = OU!Caught(first)
    BY <1>3 DEF OU!Recaught
  <2>2. first \in alerts
    <3>1. alerts \in SUBSET Nat /\ alerts # {}
      BY <1>3
    <3>2. \E n \in alerts : \A m \in alerts : n <= m
      BY <3>1, LeastNumber
    <3> QED BY <3>2 DEF OU!Min
  <2> HIDE DEF first
  <2>3. first \in Nat /\ first > 0
    <3>1. first \in Nat \ {0}
      BY <2>2
    <3> QED BY <3>1
  <2>4. /\ OU!Caught(first) \in OutcomeRecord /\ OU!Caught(first).at = first
        /\ OU!Caught(first).updated = 0 /\ OutcomeSane(OU!Caught(first), time)
    BY <1>1, <2>3, OutcomeBegins
  <2>5. o.at = 0 \/ first < o.at
    BY <1>1, <1>3, <2>3
  <2> QED BY <2>1, <2>3, <2>4, <2>5
<1> QED BY <1>2, <1>3

(* What an update makes of an outcome (update_signal_outcomes).            *)
LEMMA OutcomeUpdates ==
  ASSUME OutcomeAssumption, c5 \in Nat, NEW o \in OutcomeRecord, OutcomeSane(o, c5),
         NEW alerts \in SUBSET (Nat \ {0}), NEW e \in OutcomeEntry
  PROVE  /\ OU!Updated(o, alerts, e) \in OutcomeRecord /\ OutcomeSane(OU!Updated(o, alerts, e), c5 + 1)
         /\ \/ OU!Updated(o, alerts, e) = o
            \/ OU!Updated(o, alerts, e).updated \in {0, c5}
         /\ o.at > 0 => OutcomeExtends(OU!Updated(o, alerts, e), o)
<1> DEFINE r == OU!Recaught(o, alerts)
           m == OU!Measured(r, e)
<1>1. /\ r \in OutcomeRecord /\ OutcomeSane(r, c5)
      /\ \/ r = o
         \/ r.updated = 0 /\ r.at > 0 /\ (o.at = 0 \/ r.at < o.at)
  BY OutcomeIsCaught
<1> HIDE DEF r
<1>2. /\ m \in OutcomeRecord /\ OutcomeSane(m, c5 + 1)
      /\ m = r \/ m.updated = c5
      /\ m.at = r.at
      /\ \A h \in OutcomeHorizons : r.ends[h] # OU!NoEnd => m.ends[h] = r.ends[h]
  BY <1>1, OutcomeMeasures
<1>3. OU!Updated(o, alerts, e) = m
  BY DEF OU!Updated, r
<1> HIDE DEF m
<1>4. m = o \/ m.updated \in {0, c5}
  BY <1>1, <1>2
<1>5. o.at > 0 => OutcomeExtends(m, o)
  <2>1. o.at \in Nat
    BY DEF OutcomeRecord
  <2>2. CASE r = o
    BY <1>2, <2>2 DEF OutcomeExtends
  <2>3. CASE r.at > 0 /\ (o.at = 0 \/ r.at < o.at)
    BY <1>2, <2>1, <2>3 DEF OutcomeExtends
  <2> QED BY <1>1, <2>2, <2>3
<1> QED BY <1>2, <1>3, <1>4, <1>5

(* Before the first run nothing is caught.                                 *)
LEMMA OutcomeInit ==
  ASSUME OU!Init
  PROVE  OutcomeShape /\ OutcomeKept
<1>1. /\ c1 = [entry |-> OU!NoEntry, out |-> OU!NoOutcome] /\ c2 = c1
      /\ c3 = [entry |-> OU!NoEntry, out |-> OU!NoOutcome, updated |-> 0] /\ c4 = {} /\ c5 = 1
  BY DEF OU!Init
<1>2. OU!NoEntry \in OutcomeEntry
  BY DEF OU!NoEntry, OutcomeEntry
<1>3. OU!NoOutcome \in OutcomeRecord /\ OU!NoOutcome.updated = 0 /\ OutcomeSane(OU!NoOutcome, 1)
  BY OutcomeBegins DEF OU!NoOutcome
<1> HIDE DEF OU!NoOutcome, OU!NoEntry
<1>4. OutcomeShape
  BY <1>1, <1>2, <1>3 DEF OutcomeShape, OutcomeState, OutcomeRow
<1>5. OutcomeKept
  BY <1>1, <1>3 DEF OutcomeKept, OutcomeFollows
<1> QED BY <1>4, <1>5

(* Copies of the state, of which the entry may come from elsewhere.        *)
LEMMA OutcomeStates ==
  ASSUME OutcomeShape
  PROVE  /\ c1.entry \in OutcomeEntry /\ c2.entry \in OutcomeEntry /\ c3.entry \in OutcomeEntry
         /\ c1.out \in OutcomeRecord /\ c2.out \in OutcomeRecord /\ c3.out \in OutcomeRecord
         /\ c1.out.updated \in Nat /\ c2.out.updated \in Nat /\ c3.out.updated \in Nat
BY DEF OutcomeShape, OutcomeState, OutcomeRow, OutcomeRecord

(* A run starts from its own copy, or from the remote one that is newer    *)
(* (load_remote_discovery_state).                                          *)
LEMMA OutcomeLoads ==
  ASSUME OutcomeShape, NEW s \in OutcomeState
  PROVE  /\ OU!Loaded(s) \in OutcomeState
         /\ \/ OU!Loaded(s).out = s.out
            \/ OU!Loaded(s).out = c3.out /\ c3.out.updated > s.out.updated
<1>1. s.entry \in OutcomeEntry /\ s.out \in OutcomeRecord
  BY DEF OutcomeState
<1> QED BY <1>1, OutcomeStates DEF OU!Loaded, OutcomeState

(* The remote row after a run: as it was, or with the outcome of the run   *)
(* if it has one (ingestDiscoveryState).                                   *)
LEMMA OutcomePosts ==
  ASSUME OutcomeShape, NEW s \in OutcomeState, NEW synced \in BOOLEAN
  PROVE  /\ OU!Posted(s, synced) \in OutcomeRow
         /\ OU!Posted(s, synced).out = c3.out \/ (OU!Posted(s, synced).out = s.out /\ s.out.at # 0)
<1>1. s.entry \in OutcomeEntry /\ s.out \in OutcomeRecord /\ c3 \in OutcomeRow /\ c5 \in Nat
  BY DEF OutcomeShape, OutcomeState
<1>2. /\ OU!Ingested(s) \in OutcomeRow
      /\ OU!Ingested(s).out = c3.out \/ (OU!Ingested(s).out = s.out /\ s.out.at # 0)
  <2>1. CASE c5 < c3.updated
    BY <1>1, <2>1 DEF OU!Ingested
  <2>2. CASE ~(c5 < c3.updated)
    <3> DEFINE entry == IF s.entry = OU!NoEntry THEN c3.entry ELSE s.entry
               out == IF s.out.at = 0 THEN c3.out ELSE s.out
    <3>1. OU!Ingested(s) = [entry |-> entry, out |-> out, updated |-> c5]
      BY <2>2 DEF OU!Ingested
    <3>2. entry \in OutcomeEntry /\ out \in OutcomeRecord
      BY <1>1, OutcomeStates
    <3>3. out = c3.out \/ (out = s.out /\ s.out.at # 0)
      OBVIOUS
    <3> HIDE DEF entry, out
    <3> QED BY <1>1, <3>1, <3>2, <3>3 DEF OutcomeRow
  <2> QED BY <2>1, <2>2
<1> QED BY <1>1, <1>2 DEF OU!Posted

(* What the market answers, and what it leaves of an entry.                *)
LEMMA OutcomeObserves ==
  ASSUME OutcomeAssumption, c5 \in Nat, NEW e \in OutcomeEntry, NEW q \in OU!Answers
  PROVE  OU!Observed(e, q) \in OutcomeEntry /\ OU!Missed(e) \in OutcomeEntry
<1>1. q.at \in Nat /\ q.stale \in BOOLEAN
  <2> DEFINE from == IF c5 > 1 THEN c5 - 1 ELSE 1
  <2>1. from \in Nat /\ c5 + OutcomeAhead \in Nat
    BY DEF OutcomeAssumption
  <2> HIDE DEF from
  <2>2. OU!Answers = {[at |-> 0, stale |-> FALSE]} \cup
                     {[at |-> t, stale |-> b] : t \in from..(c5 + OutcomeAhead), b \in BOOLEAN}
    BY DEF OU!Answers, from
  <2>3. CASE q = [at |-> 0, stale |-> FALSE]
    BY <2>3
  <2>4. CASE q # [at |-> 0, stale |-> FALSE]
    <3>1. PICK t \in from..(c5 + OutcomeAhead), b \in BOOLEAN : q = [at |-> t, stale |-> b]
      BY <2>2, <2>4
    <3> QED BY <2>1, <3>1
  <2> QED BY <2>3, <2>4
<1>2. (q.stale \/ q.at > c5 + OutcomeAhead) \in BOOLEAN
  OBVIOUS
<1>3. OU!Observed(e, q) \in OutcomeEntry
  <2> DEFINE stale == q.stale \/ q.at > c5 + OutcomeAhead
  <2>1. [at |-> q.at, stale |-> stale] \in OutcomeEntry
    BY <1>1, <1>2 DEF OutcomeEntry
  <2> QED BY <2>1 DEF OU!Observed
<1>4. OU!Missed(e) \in OutcomeEntry
  BY DEF OU!Missed, OutcomeEntry
<1> QED BY <1>3, <1>4

(* A deep scan saves an outcome that goes on from its own, and it posts    *)
(* what it saves or would have saved.                                      *)
LEMMA OutcomeDeep ==
  ASSUME OutcomeAssumption, OutcomeShape, OutcomeKept, c5' = c5 + 1,
         NEW recovered \in BOOLEAN, NEW quote \in OU!Answers, NEW missed \in BOOLEAN,
         NEW found \in OU!Alerts, NEW synced \in BOOLEAN, NEW saved \in BOOLEAN,
         OU!Deep(recovered, quote, missed, found, synced, saved)
  PROVE  /\ OutcomeShape' /\ OutcomeKept'
         /\ c1'.out = c1.out \/ (c1.out.updated > 0 => OutcomeExtends(c1'.out, c1.out))
<1> DEFINE merged == OU!Merged(c1, c2)
           start == IF recovered THEN merged ELSE OU!Loaded(merged)
           seen == OU!Observed(start.entry, quote)
           entry == IF missed THEN OU!Missed(seen) ELSE seen
           alerts == c4 \cup found
           u == OU!Updated(start.out, alerts, entry)
           result == [entry |-> entry, out |-> u]
<1>1. /\ c3' = OU!Posted(result, synced) /\ c1' = (IF saved THEN result ELSE c1) /\ UNCHANGED c2
      /\ \E kept \in SUBSET alerts : c4' = IF saved THEN kept ELSE c4
  BY DEF OU!Deep
<1>2. c5 \in Nat /\ c5' \in Nat /\ c4 \subseteq Nat \ {0}
  BY DEF OutcomeShape
<1>3. merged \in OutcomeState /\ merged.out = c1.out
  <2>1. c1 \in OutcomeState /\ c2.entry \in OutcomeEntry
    BY OutcomeStates DEF OutcomeShape
  <2>2. merged = c1 \/ merged = [c1 EXCEPT !.entry = c2.entry]
    BY DEF OU!Merged
  <2> HIDE DEF merged
  <2> QED BY <2>1, <2>2 DEF OutcomeState
<1> HIDE DEF merged
<1>4. /\ start \in OutcomeState
      /\ start.out = c1.out \/ (start.out = c3.out /\ c3.out.updated > c1.out.updated)
  BY <1>3, OutcomeLoads
<1> HIDE DEF start
<1>5. start.out \in OutcomeRecord /\ start.entry \in OutcomeEntry /\ OutcomeSane(start.out, c5)
  BY <1>4 DEF OutcomeState, OutcomeKept
<1>6. seen \in OutcomeEntry
  BY <1>2, <1>5, OutcomeObserves
<1> HIDE DEF seen
<1>7. entry \in OutcomeEntry
  BY <1>2, <1>6, OutcomeObserves
<1>8. alerts \in SUBSET (Nat \ {0})
  <2>1. found \subseteq Nat \ {0}
    BY <1>2 DEF OU!Alerts
  <2> QED BY <1>2, <2>1
<1> HIDE DEF entry, alerts
<1>9. /\ u \in OutcomeRecord /\ OutcomeSane(u, c5 + 1)
      /\ u = start.out \/ u.updated \in {0, c5}
      /\ start.out.at > 0 => OutcomeExtends(u, start.out)
  BY <1>2, <1>5, <1>7, <1>8, OutcomeUpdates
<1> HIDE DEF u
<1>10. result \in OutcomeState /\ result.out = u
  BY <1>7, <1>9 DEF OutcomeState
<1> HIDE DEF result
<1>11. /\ c3' \in OutcomeRow /\ (c3'.out = c3.out \/ c3'.out = u)
       /\ c1' \in OutcomeState /\ (c1'.out = c1.out \/ c1'.out = u)
  BY <1>1, <1>10, OutcomePosts DEF OutcomeShape
<1>12. OutcomeShape'
  <2>1. c4' \subseteq Nat \ {0}
    BY <1>1, <1>2, <1>8
  <2> QED BY <1>1, <1>2, <1>11, <2>1 DEF OutcomeShape
<1>13. /\ c1.out \in OutcomeRecord /\ c2.out \in OutcomeRecord /\ c3.out \in OutcomeRecord
       /\ c1.out.updated \in Nat /\ c2.out.updated \in Nat /\ c3.out.updated \in Nat /\ u.updated \in Nat
       /\ c1.out.at \in Nat /\ c3.out.at \in Nat
       /\ c1.out.updated < c5 /\ c2.out.updated < c5 /\ c3.out.updated < c5
       /\ (c1.out.updated > 0 => c1.out.at > 0) /\ (c3.out.updated > 0 => c3.out.at > 0)
  BY <1>9, OutcomeStates DEF OutcomeKept, OutcomeSane, OutcomeRecord
<1>14. c1.out.updated > 0 => OutcomeExtends(u, c1.out)
  <2>1. CASE start.out = c1.out
    BY <1>9, <1>13, <2>1
  <2>2. CASE start.out = c3.out /\ c3.out.updated > c1.out.updated
    <3>1. c1.out.updated > 0 => OutcomeExtends(c3.out, c1.out)
      BY <2>2 DEF OutcomeKept, OutcomeFollows
    <3>2. c1.out.updated > 0 => OutcomeExtends(u, c3.out)
      BY <1>9, <1>13, <2>2
    <3> QED BY <1>9, <1>13, <3>1, <3>2, OutcomeGoesOn
  <2> QED BY <1>4, <2>1, <2>2
<1>15. OutcomeFollows(u, c3.out)
  <2>1. CASE u = start.out
    BY <1>4, <1>13, <2>1 DEF OutcomeKept, OutcomeFollows
  <2>2. CASE u.updated \in {0, c5}
    BY <1>13, <2>2 DEF OutcomeFollows
  <2> QED BY <1>9, <2>1, <2>2
<1>16. OutcomeFollows(u, c2.out)
  <2>1. CASE u = start.out
    BY <1>4, <2>1 DEF OutcomeKept
  <2>2. CASE u.updated \in {0, c5}
    BY <1>13, <2>2 DEF OutcomeFollows
  <2> QED BY <1>9, <2>1, <2>2
<1>17. OutcomeFollows(u, u) /\ OutcomeFollows(c1.out, u)
  BY <1>13, <1>14 DEF OutcomeFollows
<1>18. OutcomeKept'
  <2>1. \A o \in {c1.out, c2.out, c3.out} : OutcomeSane(o, c5 + 1)
    BY <1>2, <1>13, OutcomeAges DEF OutcomeKept
  <2>2. OutcomeSane(c1'.out, c5') /\ OutcomeSane(c2'.out, c5') /\ OutcomeSane(c3'.out, c5')
    BY <1>1, <1>9, <1>11, <2>1
  <2>3. OutcomeFollows(c1'.out, c3'.out) /\ OutcomeFollows(c1'.out, c2.out) /\ OutcomeFollows(c3'.out, c2.out)
    BY <1>11, <1>15, <1>16, <1>17 DEF OutcomeKept
  <2> QED BY <1>1, <2>2, <2>3 DEF OutcomeKept, OutcomeFollows, OutcomeExtends, OutcomeSane, OutcomeOpen,
          OutcomeSettled
<1> QED BY <1>11, <1>12, <1>14, <1>18

(* A pulse carries an outcome that some copy has.                          *)
LEMMA OutcomePulse ==
  ASSUME OutcomeAssumption, OutcomeShape, OutcomeKept, c5' = c5 + 1,
         NEW recovered \in BOOLEAN, NEW present \in BOOLEAN, NEW quote \in OU!Answers,
         NEW synced \in BOOLEAN, NEW saved \in BOOLEAN,
         OU!Pulse(recovered, present, quote, synced, saved)
  PROVE  OutcomeShape' /\ OutcomeKept' /\ c1'.out = c1.out
<1> DEFINE file == IF present THEN c2 ELSE [entry |-> c1.entry, out |-> OU!NoOutcome]
           start == IF recovered THEN file ELSE OU!Loaded(file)
           entry == OU!Observed(start.entry, quote)
           result == [start EXCEPT !.entry = entry]
<1>1. /\ c3' = OU!Posted(result, synced) /\ c2' = (IF saved THEN result ELSE c2) /\ UNCHANGED <<c1, c4>>
  BY DEF OU!Pulse
<1>2. c5 \in Nat /\ c5' \in Nat
  BY DEF OutcomeShape
<1>3. /\ OU!NoOutcome \in OutcomeRecord /\ OU!NoOutcome.at = 0 /\ OU!NoOutcome.updated = 0
      /\ OutcomeSane(OU!NoOutcome, c5 + 1)
  BY <1>2, OutcomeBegins DEF OU!NoOutcome
<1> HIDE DEF OU!NoOutcome
<1>4. file \in OutcomeState /\ (file.out = c2.out \/ file.out = OU!NoOutcome)
  BY <1>3, OutcomeStates DEF OutcomeShape, OutcomeState
<1> HIDE DEF file
<1>5. start \in OutcomeState /\ (start.out = file.out \/ start.out = c3.out)
  BY <1>4, OutcomeLoads
<1> HIDE DEF start
<1>6. entry \in OutcomeEntry
  BY <1>2, <1>5, OutcomeObserves DEF OutcomeState
<1> HIDE DEF entry
<1>7. result \in OutcomeState /\ result.out = start.out
  BY <1>5, <1>6 DEF OutcomeState
<1> HIDE DEF result
<1> DEFINE f == result.out
<1>8. /\ c3' \in OutcomeRow /\ (c3'.out = c3.out \/ (c3'.out = f /\ f.at # 0))
      /\ c2' \in OutcomeState /\ (c2'.out = c2.out \/ c2'.out = f)
      /\ f = c2.out \/ f = OU!NoOutcome \/ f = c3.out
  BY <1>1, <1>4, <1>5, <1>7, OutcomePosts DEF OutcomeShape
<1> HIDE DEF f
<1>9. OutcomeShape'
  BY <1>1, <1>2, <1>8 DEF OutcomeShape
<1>10. /\ c1.out \in OutcomeRecord /\ c2.out \in OutcomeRecord /\ c3.out \in OutcomeRecord
       /\ c1.out.updated \in Nat /\ c2.out.updated \in Nat /\ c3.out.updated \in Nat
  BY OutcomeStates
<1>11. /\ \A o \in {c1.out, c2.out, c3.out} : OutcomeFollows(o, OU!NoOutcome) /\ OutcomeFollows(o, o)
       /\ OutcomeFollows(c1.out, c3.out) /\ OutcomeFollows(c1.out, c2.out) /\ OutcomeFollows(c3.out, c2.out)
  BY <1>3, <1>10 DEF OutcomeFollows, OutcomeKept
<1>12. c3'.out = c2.out \/ c3'.out = c3.out
  BY <1>3, <1>8
<1>13. c2'.out = c2.out \/ c2'.out = c3.out \/ c2'.out = OU!NoOutcome
  BY <1>8
<1>14. c3'.out = c2.out => c3.out = c2.out \/ c2'.out = c2.out
  BY <1>3, <1>8
<1>15. /\ OutcomeFollows(c1.out, c3'.out) /\ OutcomeFollows(c1.out, c2'.out)
  BY <1>11, <1>12, <1>13
<1>16. OutcomeFollows(c3'.out, c2'.out)
  <2>1. CASE c3'.out = c3.out
    BY <1>11, <1>13, <2>1
  <2>2. CASE c3'.out = c2.out
    BY <1>11, <1>13, <1>14, <2>2
  <2> QED BY <1>12, <2>1, <2>2
<1>17. OutcomeKept'
  <2>1. \A o \in {c1.out, c2.out, c3.out, OU!NoOutcome} : OutcomeSane(o, c5 + 1)
    BY <1>2, <1>3, <1>10, OutcomeAges DEF OutcomeKept
  <2>2. OutcomeSane(c1'.out, c5') /\ OutcomeSane(c2'.out, c5') /\ OutcomeSane(c3'.out, c5')
    BY <1>1, <1>12, <1>13, <2>1
  <2> QED BY <1>1, <1>15, <1>16, <2>2 DEF OutcomeKept, OutcomeFollows, OutcomeExtends, OutcomeSane,
          OutcomeOpen, OutcomeSettled
<1> QED BY <1>1, <1>9, <1>17

(* What is counted was measured, at its time.                              *)
LEMMA OutcomeCounts ==
  ASSUME OutcomeAssumption, NEW o \in OutcomeRecord, NEW time \in Nat, OutcomeSane(o, time),
         NEW h \in OutcomeHorizons, OU!Counted(o, h)
  PROVE  /\ o.updated > 0 /\ o.ends[h] # OU!NoEnd
         /\ o.at + h <= o.ends[h].at /\ o.ends[h].at <= o.at + h + OutcomeDelay
         /\ o.ends[h].at \in o.ends[h].over
         /\ \A q \in o.ends[h].over \ {o.ends[h].at} : o.at <= q /\ q < o.at + h
<1>1. o.at > 0 /\ o.ends[h].quality = "complete" /\ o.ends[h].at - (o.at + h) <= OutcomeDelay
  BY DEF OU!Counted
<1>2. o.at \in Nat /\ o.updated \in Nat /\ h \in Nat /\ o.ends[h].at \in Nat /\ OutcomeDelay \in Nat
  BY DEF OutcomeRecord, OutcomeEnd, OutcomeAssumption
<1>3. o.ends[h] # OU!NoEnd
  BY <1>1, OutcomeNoEnd
<1>4. OutcomeSettled(o, h)
  BY <1>3 DEF OutcomeSane, OutcomeOpen
<1>5. o.updated # 0
  BY <1>3 DEF OutcomeSane
<1>6. o.at + h <= o.ends[h].at /\ o.ends[h].at <= o.at + h + OutcomeDelay
  BY <1>1, <1>2, <1>4 DEF OutcomeSettled
<1> QED BY <1>2, <1>3, <1>4, <1>5, <1>6 DEF OutcomeSettled

(* Every run keeps the invariant, and the deep scan's outcome goes on.     *)
LEMMA OutcomeStep ==
  ASSUME OutcomeAssumption, OutcomeShape, OutcomeKept, OU!Next
  PROVE  /\ OutcomeShape' /\ OutcomeKept'
         /\ c1'.out = c1.out \/ (c1.out.updated > 0 => OutcomeExtends(c1'.out, c1.out))
<1>1. c5' = c5 + 1
  BY DEF OU!Next
<1>2. PICK recovered \in BOOLEAN, missed \in BOOLEAN, synced \in BOOLEAN, saved \in BOOLEAN,
           present \in BOOLEAN, quote \in OU!Answers :
        \/ \E found \in OU!Alerts :
             /\ present /\ OU!Cardinality(c4 \cup found) <= OutcomeAlerts
             /\ OU!Deep(recovered, quote, missed, found, synced, saved)
        \/ ~missed /\ OU!Pulse(recovered, present, quote, synced, saved)
  BY ZenonT(60) DEF OU!Next
<1>3. CASE \E found \in OU!Alerts : OU!Deep(recovered, quote, missed, found, synced, saved)
  BY <1>1, <1>3, OutcomeDeep
<1>4. CASE OU!Pulse(recovered, present, quote, synced, saved)
  BY <1>1, <1>4, OutcomePulse
<1> QED BY <1>2, <1>3, <1>4

(* It is claimed of behaviours of this part only.                          *)
OutcomeInv == part = "outcomes" => OutcomeShape /\ OutcomeKept

(* What a saved outcome counts keeps its price until the token turns out   *)
(* to have been caught earlier, whatever copy a run starts from and        *)
(* wherever it dies, and that price is the first one shown after the       *)
(* horizon was due (update_signal_outcomes, load_remote_discovery_state).  *)
THEOREM MeasuredOutcomesStay == Spec => MeasuredStaysKept
<1>1. Init => OutcomeInv
  <2>1. Init /\ part = "outcomes" => OU!Init
    BY DEF Init
  <2> QED BY <2>1, OutcomeInit DEF OutcomeInv
<1>2. OutcomeInv /\ [Next]_<<part, c1, c2, c3, c4, c5, c6, c7, c8, c9, c10>>
        => OutcomeInv' /\ [part = "outcomes" => OU!MeasuredIsKept]_<<part, c1, c2, c3, c4, c5, c6, c7, c8, c9, c10>>
  <2> SUFFICES ASSUME OutcomeInv, Next
               PROVE  OutcomeInv' /\ (part = "outcomes" => OU!MeasuredIsKept)
    <3>1. CASE UNCHANGED <<part, c1, c2, c3, c4, c5, c6, c7, c8, c9, c10>>
      BY <3>1 DEF OutcomeInv, OutcomeShape, OutcomeKept, OutcomeFollows, OutcomeExtends, OutcomeSane,
         OutcomeOpen, OutcomeSettled
    <3> QED BY <3>1
  <2>1. part' = part
    BY DEF Next
  <2> SUFFICES ASSUME part = "outcomes" PROVE OutcomeShape' /\ OutcomeKept' /\ OU!MeasuredIsKept
    BY <2>1 DEF OutcomeInv
  <2>2. OutcomeShape /\ OutcomeKept /\ OU!Next /\ OutcomeAssumption
    BY OutcomeAssumption DEF OutcomeInv, Next
  <2>3. /\ OutcomeShape' /\ OutcomeKept'
        /\ c1'.out = c1.out \/ (c1.out.updated > 0 => OutcomeExtends(c1'.out, c1.out))
    BY <2>2, OutcomeStep
  <2>4. OU!MeasuredIsKept
    <3> SUFFICES ASSUME NEW h \in OutcomeHorizons
                 PROVE  /\ OU!Counted(c1.out, h) => c1'.out.ends[h] = c1.out.ends[h] \/ c1'.out.at < c1.out.at
                        /\ OU!Counted(c1'.out, h) =>
                             /\ c1'.out.at + h <= c1'.out.ends[h].at
                             /\ c1'.out.ends[h].at <= c1'.out.at + h + OutcomeDelay
                             /\ c1'.out.ends[h].at \in c1'.out.ends[h].over
                             /\ \A q \in c1'.out.ends[h].over \ {c1'.out.ends[h].at} :
                                  c1'.out.at <= q /\ q < c1'.out.at + h
      BY DEF OU!MeasuredIsKept
    <3>1. c1.out \in OutcomeRecord /\ c5 \in Nat /\ OutcomeSane(c1.out, c5)
      BY <2>2 DEF OutcomeShape, OutcomeState, OutcomeKept
    <3>2. c1'.out \in OutcomeRecord /\ c5' \in Nat /\ OutcomeSane(c1'.out, c5')
      BY <2>3 DEF OutcomeShape, OutcomeState, OutcomeKept, OutcomeSane, OutcomeOpen, OutcomeSettled
    <3>3. OU!Counted(c1.out, h) => c1'.out.ends[h] = c1.out.ends[h] \/ c1'.out.at < c1.out.at
      <4>1. OU!Counted(c1.out, h) => c1.out.updated > 0 /\ c1.out.ends[h] # OU!NoEnd
        BY <2>2, <3>1, OutcomeCounts
      <4> QED BY <2>3, <4>1 DEF OutcomeExtends
    <3>4. OU!Counted(c1'.out, h) =>
            /\ c1'.out.at + h <= c1'.out.ends[h].at
            /\ c1'.out.ends[h].at <= c1'.out.at + h + OutcomeDelay
            /\ c1'.out.ends[h].at \in c1'.out.ends[h].over
            /\ \A q \in c1'.out.ends[h].over \ {c1'.out.ends[h].at} :
                 c1'.out.at <= q /\ q < c1'.out.at + h
      BY <2>2, <3>2, OutcomeCounts
    <3> QED BY <3>3, <3>4
  <2> QED BY <2>3, <2>4
<1> QED BY <1>1, <1>2, PTL DEF Spec, MeasuredStaysKept

-----------------------------------------------------------------------------
(* SignalThesis: balances confirm, and what is left is exact.              *)

(* A thesis, and an alert it may be made of.                               *)
ThesisRecord ==
  [at : Nat \ {0}, wave : BOOLEAN, conf : {"confirmed", "unseasoned", "other"},
   eligible : Nat, known : BOOLEAN, status : {"intact", "weakening", "unknown", "invalidated"},
   cohort : SUBSET ThesisOwners, cap : [ThesisOwners -> 0..ThesisBought],
   checked : [ThesisOwners -> Nat], sold : [ThesisOwners -> 0..ThesisBought],
   seen : [ThesisSigs -> Nat], cycle : [at : Nat, done : SUBSET ThesisOwners]]
ThesisAlert == [at : Nat \ {0}, kind : ThesisKinds]

(* The lesser of two numbers.                                              *)
Lesser(a, b) == IF a <= b THEN a ELSE b

(* The tokens that a wallet's sales are known to have sold.                *)
ThesisTokens(told, o) ==
  UNION {{s} \X (1..told[s]) : s \in {s \in ThesisSigs : ThesisSellers[s] = o}}

(* A thesis comes from one of the alerts, and only what became unknown of  *)
(* its sales takes a confirmation back; a candidate waits for its season.  *)
ThesisOrigin(t, alerts) ==
  /\ t.conf = "unseasoned" => t.eligible = t.at + ThesisSeason
  /\ \E a \in alerts :
       /\ a.at = t.at /\ a.kind.wave = t.wave
       /\ a.kind.conf = "confirmed" /\ t.known => t.conf = "confirmed"

(* The wallets a cycle has checked were read since it began, and nothing   *)
(* was reported of them after that.                                        *)
ThesisCycle(t, readAt, time) ==
  /\ t.cycle.at <= time
  /\ \A o \in t.cycle.done : t.checked[o] = readAt[o] /\ t.cycle.at <= readAt[o]

(* Every wallet's sold tokens are those reported, up to all it had, and    *)
(* sales are followed until then; its cap is what they or a read leave.    *)
ThesisExact(t, low, told) ==
  \A o \in ThesisOwners :
    /\ t.sold[o] = Lesser(ThesisBought, Cardinality(ThesisTokens(told, o)))
    /\ t.sold[o] < ThesisBought => \A s \in ThesisSigs : ThesisSellers[s] = o => t.seen[s] = told[s]
    /\ t.cap[o] = Lesser(low[o], ThesisBought - t.sold[o])

ThesisKept(t, low, readAt, told, alerts, time) ==
  ThesisOrigin(t, alerts) /\ ThesisCycle(t, readAt, time) /\ ThesisExact(t, low, told)

(* The alerts are of different times, none later than now.                 *)
ThesisDated(alerts, time) ==
  /\ alerts \subseteq ThesisAlert /\ \A a \in alerts : a.at <= time
  /\ \A a, b \in alerts : a.at = b.at => a = b

(* The variables have their shape, and the thesis is kept.                 *)
ThesisInv ==
  /\ c1 \in ThesisRecord \cup {TH!None} /\ ThesisDated(c3, c5) /\ c5 \in Nat
  /\ c6 \in [ThesisOwners -> Nat] /\ c7 \in [ThesisOwners -> Nat] /\ c8 \in [ThesisSigs -> Nat]
  /\ c1 # TH!None => ThesisKept(c1, c6, c7, c8, c3, c5)

(* The least and the largest of some numbers.                              *)
LEMMA ThesisChosen ==
  ASSUME NEW S \in SUBSET Nat, NEW x \in S
  PROVE  /\ (\A y \in S : x <= y) => TH!Min(S) = x
         /\ (\A y \in S : x >= y) => TH!Max(S) = x
<1>1. ASSUME \A y \in S : x <= y PROVE TH!Min(S) = x
  <2>1. TH!Min(S) \in S /\ \A y \in S : TH!Min(S) <= y
    BY <1>1 DEF TH!Min
  <2>2. TH!Min(S) \in Nat /\ x \in Nat /\ TH!Min(S) <= x /\ x <= TH!Min(S)
    BY <1>1, <2>1
  <2> QED BY <2>2
<1>2. ASSUME \A y \in S : x >= y PROVE TH!Max(S) = x
  <2>1. TH!Max(S) \in S /\ \A y \in S : TH!Max(S) >= y
    BY <1>2 DEF TH!Max
  <2>2. TH!Max(S) \in Nat /\ x \in Nat /\ TH!Max(S) >= x /\ x >= TH!Max(S)
    BY <1>2, <2>1
  <2> QED BY <2>2
<1> QED BY <1>1, <1>2

(* The least and the largest of two numbers.                               *)
LEMMA ThesisLeast ==
  ASSUME NEW a \in Nat, NEW b \in Nat
  PROVE  TH!Min({a, b}) = Lesser(a, b) /\ TH!Max({a, b}) = IF a <= b THEN b ELSE a
<1>1. TH!Min({a, b}) = Lesser(a, b)
  <2>1. /\ {a, b} \in SUBSET Nat /\ Lesser(a, b) \in {a, b}
        /\ \A y \in {a, b} : Lesser(a, b) <= y
    BY DEF Lesser
  <2> QED BY <2>1, ThesisChosen
<1>2. TH!Max({a, b}) = IF a <= b THEN b ELSE a
  <2> DEFINE m == IF a <= b THEN b ELSE a
  <2>1. {a, b} \in SUBSET Nat /\ m \in {a, b} /\ \A y \in {a, b} : m >= y
    OBVIOUS
  <2> QED BY <2>1, ThesisChosen
<1> QED BY <1>1, <1>2

(* The least of three numbers.                                             *)
LEMMA ThesisLeastOfThree ==
  ASSUME NEW a \in Nat, NEW b \in Nat, NEW c \in Nat
  PROVE  TH!Min({a, b, c}) = Lesser(Lesser(a, b), c)
<1>1. /\ {a, b, c} \in SUBSET Nat /\ Lesser(Lesser(a, b), c) \in {a, b, c}
      /\ \A y \in {a, b, c} : Lesser(Lesser(a, b), c) <= y
  BY DEF Lesser
<1> QED BY <1>1, ThesisChosen

(* Cardinality in the part is Cardinality.                                 *)
LEMMA ThesisCardinality ==
  ASSUME NEW S
  PROVE  TH!Cardinality(S) = Cardinality(S)
BY Zenon DEF TH!Cardinality, Cardinality

(* The tokens reported sold are finitely many.                             *)
LEMMA ThesisTokensFinite ==
  ASSUME IsFiniteSet(ThesisSigs), NEW told \in [ThesisSigs -> Nat], NEW o
  PROVE  IsFiniteSet(ThesisTokens(told, o)) /\ Cardinality(ThesisTokens(told, o)) \in Nat
<1> DEFINE T == {s \in ThesisSigs : ThesisSellers[s] = o}
           of(s) == {s} \X (1..told[s])
<1>1. IsFiniteSet(T)
  BY FS_Subset
<1>2. IsFiniteSet({of(s) : s \in T})
  <2> DEFINE f == [s \in T |-> of(s)]
  <2>1. f \in Surjection(T, {of(s) : s \in T})
    BY DEF Surjection
  <2> HIDE DEF f
  <2> QED BY <1>1, <2>1, FS_Surjection
<1>3. ASSUME NEW s \in T PROVE IsFiniteSet(of(s))
  <2>1. IsFiniteSet({s})
    BY FS_Singleton
  <2>2. IsFiniteSet(1..told[s])
    <3>1. told[s] \in Int
      OBVIOUS
    <3> QED BY <3>1, FS_Interval
  <2> QED BY <2>1, <2>2, FS_Product
<1>4. IsFiniteSet(UNION {of(s) : s \in T})
  BY <1>2, <1>3, FS_UNION
<1>5. ThesisTokens(told, o) = UNION {of(s) : s \in T}
  BY DEF ThesisTokens
<1> HIDE DEF T, of
<1> QED BY <1>4, <1>5, FS_CardinalityType

(* More reported of one sale is as much more of its wallet's tokens, and   *)
(* leaves the other wallets' alone.                                        *)
LEMMA ThesisTokensGrow ==
  ASSUME IsFiniteSet(ThesisSigs), NEW told \in [ThesisSigs -> Nat], NEW new \in [ThesisSigs -> Nat],
         NEW s \in ThesisSigs, told[s] <= new[s], \A q \in ThesisSigs \ {s} : new[q] = told[q], NEW o
  PROVE  Cardinality(ThesisTokens(new, o)) = Cardinality(ThesisTokens(told, o))
           + (IF ThesisSellers[s] = o THEN new[s] - told[s] ELSE 0)
<1> DEFINE n == new[s]
           more == {s} \X ((told[s] + 1)..n)
<1>0. n \in Nat /\ told[s] \in Nat /\ told[s] <= n
  OBVIOUS
<1>2. CASE ThesisSellers[s] # o
  <2>1. ThesisTokens(new, o) = ThesisTokens(told, o)
    BY <1>2 DEF ThesisTokens
  <2> QED BY <1>2, <2>1, ThesisTokensFinite
<1>3. CASE ThesisSellers[s] = o
  <2>1. \A x : x \in ThesisTokens(new, o) <=> x \in ThesisTokens(told, o) \/ x \in more
    <3> TAKE x
    <3>1. x \in ThesisTokens(new, o) <=>
            \E q \in ThesisSigs : ThesisSellers[q] = o /\ x \in {q} \X (1..new[q])
      BY Zenon DEF ThesisTokens
    <3>2. x \in ThesisTokens(told, o) <=>
            \E q \in ThesisSigs : ThesisSellers[q] = o /\ x \in {q} \X (1..told[q])
      BY Zenon DEF ThesisTokens
    <3>3. x \in {s} \X (1..n) <=> x \in {s} \X (1..told[s]) \/ x \in more
      <4> HIDE DEF n
      <4> QED BY <1>0 DEF more
    <3> HIDE DEF more
    <3> QED BY <1>3, <3>1, <3>2, <3>3
  <2>2. ThesisTokens(new, o) = ThesisTokens(told, o) \cup more
    <3> HIDE DEF more
    <3> QED BY <2>1
  <2>3. ThesisTokens(told, o) \cap more = {}
    <3>1. ASSUME NEW x \in more, x \in ThesisTokens(told, o) PROVE FALSE
      <4>1. PICK q \in ThesisSigs : x \in {q} \X (1..told[q])
        BY <3>1, Zenon DEF ThesisTokens
      <4> QED BY <4>1
    <3> HIDE DEF more
    <3> QED BY <3>1
  <2>4. IsFiniteSet(more) /\ Cardinality(more) = n - told[s]
    <3>1. IsFiniteSet({s}) /\ Cardinality({s}) = 1
      BY FS_Singleton
    <3>2. /\ IsFiniteSet((told[s] + 1)..n)
          /\ Cardinality((told[s] + 1)..n) = n - told[s]
      <4>1. told[s] \in Nat /\ told[s] + 1 \in Int /\ n \in Int
        BY <1>0
      <4>2. /\ IsFiniteSet((told[s] + 1)..n)
            /\ Cardinality((told[s] + 1)..n) =
                 IF told[s] + 1 > n THEN 0 ELSE n - (told[s] + 1) + 1
        BY <4>1, FS_Interval
      <4> QED BY <1>0, <4>1, <4>2
    <3>3. IsFiniteSet(more) /\ Cardinality(more) = 1 * Cardinality((told[s] + 1)..n)
      BY <3>1, <3>2, FS_Product
    <3> QED BY <3>2, <3>3
  <2>5. IsFiniteSet(ThesisTokens(told, o)) /\ Cardinality(ThesisTokens(told, o)) \in Nat
    BY ThesisTokensFinite
  <2>6. Cardinality({}) = 0
    BY FS_EmptySet
  <2> HIDE DEF more
  <2>7. Cardinality(ThesisTokens(new, o)) = Cardinality(ThesisTokens(told, o)) + (n - told[s]) - 0
    <3> HIDE DEF n
    <3> QED BY <2>2, <2>3, <2>4, <2>5, <2>6, FS_Union
  <2>8. Cardinality(ThesisTokens(new, o)) = Cardinality(ThesisTokens(told, o)) + (n - told[s])
    BY <1>0, <2>5, <2>7
  <2> QED BY <1>3, <2>8
<1> QED BY <1>2, <1>3

(* A thesis that a later one carries on: the same signal, balances and     *)
(* sales; at most its cycle starts over and its confirmation is lost.      *)
ThesisCarries(u, t) ==
  /\ u.at = t.at /\ u.wave = t.wave /\ u.eligible = t.eligible
  /\ u.cap = t.cap /\ u.checked = t.checked /\ u.sold = t.sold /\ u.seen = t.seen
  /\ u.cycle = t.cycle \/ u.cycle = TH!NoCycle
  /\ u.known => t.known
  /\ u.conf = t.conf \/ (u.conf = "other" /\ ~u.known)

(* A thesis that begins with an alert.                                     *)
ThesisBegins(t, a) ==
  /\ t.at = a.at /\ t.wave = a.kind.wave
  /\ t.known => t.conf = a.kind.conf
  /\ t.conf = "confirmed" => t.known
  /\ t.conf = "unseasoned" => t.eligible = t.at + ThesisSeason
  /\ t.sold = [o \in ThesisOwners |-> 0] /\ t.seen = [s \in ThesisSigs |-> 0]
  /\ t.cycle = TH!NoCycle

(* No thesis is none.                                                      *)
LEMMA ThesisIsSome ==
  TH!None.at = 0 /\ \A t \in ThesisRecord : t # TH!None
<1>1. TH!None.at = 0
  BY DEF TH!None
<1>2. ASSUME NEW t \in ThesisRecord PROVE t # TH!None
  <2>1. t.at \in Nat \ {0}
    BY DEF ThesisRecord
  <2> QED BY <1>1, <2>1
<1> QED BY <1>1, <1>2

(* Gaps in the history of sales.                                           *)
LEMMA ThesisUnknown ==
  ASSUME NEW t \in ThesisRecord
  PROVE  /\ TH!Unknown(t) \in ThesisRecord /\ ThesisCarries(TH!Unknown(t), t)
         /\ ~TH!Unknown(t).known /\ TH!Unknown(t).conf # "confirmed"
         /\ TH!Unknown(t).cycle = t.cycle
<1> DEFINE conf == IF t.conf = "confirmed" THEN "other" ELSE t.conf
           status == IF t.status = "intact" THEN "unknown" ELSE t.status
           u == [at |-> t.at, wave |-> t.wave, conf |-> conf, eligible |-> t.eligible,
                 known |-> FALSE, status |-> status, cohort |-> t.cohort, cap |-> t.cap,
                 checked |-> t.checked, sold |-> t.sold, seen |-> t.seen, cycle |-> t.cycle]
<1>1. TH!Unknown(t) = u
  <2>1. TH!Unknown(t) = [t EXCEPT !.known = FALSE, !.conf = conf, !.status = status]
    BY DEF TH!Unknown
  <2> HIDE DEF conf, status
  <2>2. t = [at |-> t.at, wave |-> t.wave, conf |-> t.conf, eligible |-> t.eligible,
             known |-> t.known, status |-> t.status, cohort |-> t.cohort, cap |-> t.cap,
             checked |-> t.checked, sold |-> t.sold, seen |-> t.seen, cycle |-> t.cycle]
    BY DEF ThesisRecord
  <2> QED BY <2>1, <2>2
<1>2. /\ conf \in {"confirmed", "unseasoned", "other"} /\ conf # "confirmed"
      /\ status \in {"intact", "weakening", "unknown", "invalidated"}
      /\ conf = t.conf \/ conf = "other"
  BY DEF ThesisRecord
<1> HIDE DEF conf, status
<1>3. u \in ThesisRecord
  BY <1>2 DEF ThesisRecord
<1>4. ThesisCarries(u, t)
  BY <1>2 DEF ThesisCarries
<1> QED BY <1>1, <1>2, <1>3, <1>4

(* Carrying on is transitive.                                              *)
LEMMA ThesisCarriesOn ==
  ASSUME NEW t, NEW u, NEW v, ThesisCarries(u, t), ThesisCarries(v, u)
  PROVE  ThesisCarries(v, t)
BY DEF ThesisCarries

(* The thesis of a new alert.                                              *)
LEMMA ThesisIncoming ==
  ASSUME ThesisAssumption, NEW a \in ThesisAlert
  PROVE  /\ TH!Fresh(a) \in ThesisRecord /\ ThesisBegins(TH!Fresh(a), a)
         /\ TH!Unknown(TH!Fresh(a)) \in ThesisRecord /\ ThesisBegins(TH!Unknown(TH!Fresh(a)), a)
         /\ TH!Incoming(a) \in ThesisRecord /\ ThesisBegins(TH!Incoming(a), a)
<1> DEFINE eligible == IF a.kind.conf = "unseasoned" THEN a.at + ThesisSeason ELSE 0
           status == IF ~a.kind.wave THEN "unknown"
                     ELSE IF TH!Share(a.kind.kept, ThesisBought, 60) THEN "intact" ELSE "weakening"
           cap == [o \in ThesisOwners |-> IF a.kind.wave THEN a.kind.kept ELSE ThesisBought]
           checked == [o \in ThesisOwners |-> IF a.kind.wave THEN a.at ELSE 0]
           f == [at |-> a.at, wave |-> a.kind.wave, conf |-> a.kind.conf, eligible |-> eligible,
                 known |-> TRUE, status |-> status, cohort |-> ThesisOwners, cap |-> cap,
                 checked |-> checked, sold |-> [o \in ThesisOwners |-> 0],
                 seen |-> [s \in ThesisSigs |-> 0], cycle |-> TH!NoCycle]
<1>1. TH!Fresh(a) = f
  BY DEF TH!Fresh
<1>2. /\ a.at \in Nat \ {0} /\ a.kind \in ThesisKinds /\ a.kind.wave \in BOOLEAN
      /\ a.kind.conf \in {"confirmed", "unseasoned", "other"} /\ a.kind.kept \in 0..ThesisBought
      /\ ThesisBought \in Nat /\ ThesisSeason \in Nat
  BY DEF ThesisAlert, ThesisAssumption
<1>3. eligible \in Nat /\ status \in {"intact", "weakening", "unknown", "invalidated"}
      /\ (a.kind.conf = "unseasoned" => eligible = a.at + ThesisSeason)
  BY <1>2
<1>4. cap \in [ThesisOwners -> 0..ThesisBought] /\ checked \in [ThesisOwners -> Nat]
  BY <1>2
<1>5. /\ [o \in ThesisOwners |-> 0] \in [ThesisOwners -> 0..ThesisBought]
      /\ [s \in ThesisSigs |-> 0] \in [ThesisSigs -> Nat]
      /\ TH!NoCycle \in [at : Nat, done : SUBSET ThesisOwners]
  BY <1>2 DEF TH!NoCycle
<1> HIDE DEF eligible, status, cap, checked
<1>6. f \in ThesisRecord
  BY <1>2, <1>3, <1>4, <1>5 DEF ThesisRecord
<1>7. ThesisBegins(f, a)
  BY <1>3 DEF ThesisBegins
<1>8. TH!Unknown(f) \in ThesisRecord /\ ThesisBegins(TH!Unknown(f), a)
  <2>1. /\ TH!Unknown(f) \in ThesisRecord /\ ThesisCarries(TH!Unknown(f), f) /\ ~TH!Unknown(f).known
        /\ TH!Unknown(f).conf # "confirmed" /\ TH!Unknown(f).cycle = f.cycle
    BY <1>6, ThesisUnknown
  <2> HIDE DEF f
  <2> QED BY <1>7, <2>1 DEF ThesisBegins, ThesisCarries
<1> HIDE DEF f
<1> QED BY <1>1, <1>6, <1>7, <1>8 DEF TH!Incoming

(* The wallets that a former version left out come back.                   *)
LEMMA ThesisRecovers ==
  ASSUME NEW t \in ThesisRecord, NEW A
  PROVE  TH!Recovered(t, A) \in ThesisRecord /\ ThesisCarries(TH!Recovered(t, A), t)
<1> DEFINE u == [t EXCEPT !.cohort = ThesisOwners, !.status = "unknown", !.cycle = TH!NoCycle]
<1>1. u \in ThesisRecord /\ ThesisCarries(u, t)
  <2>1. u = [at |-> t.at, wave |-> t.wave, conf |-> t.conf, eligible |-> t.eligible,
             known |-> t.known, status |-> "unknown", cohort |-> ThesisOwners, cap |-> t.cap,
             checked |-> t.checked, sold |-> t.sold, seen |-> t.seen, cycle |-> TH!NoCycle]
    <3> DEFINE u1 == [t EXCEPT !.cohort = ThesisOwners]
               u2 == [u1 EXCEPT !.status = "unknown"]
    <3>1. u1 = [at |-> t.at, wave |-> t.wave, conf |-> t.conf, eligible |-> t.eligible,
                known |-> t.known, status |-> t.status, cohort |-> ThesisOwners, cap |-> t.cap,
                checked |-> t.checked, sold |-> t.sold, seen |-> t.seen, cycle |-> t.cycle]
      BY DEF ThesisRecord
    <3> HIDE DEF u1
    <3>2. u2 = [at |-> t.at, wave |-> t.wave, conf |-> t.conf, eligible |-> t.eligible,
                known |-> t.known, status |-> "unknown", cohort |-> ThesisOwners, cap |-> t.cap,
                checked |-> t.checked, sold |-> t.sold, seen |-> t.seen, cycle |-> t.cycle]
      BY <3>1
    <3>3. u = [u2 EXCEPT !.cycle = TH!NoCycle]
      BY DEF u1
    <3> HIDE DEF u, u2
    <3> QED BY <3>2, <3>3
  <2>2. TH!NoCycle \in [at : Nat, done : SUBSET ThesisOwners]
    BY DEF TH!NoCycle
  <2>3. u \in ThesisRecord
    BY <2>1, <2>2 DEF ThesisRecord
  <2>4. ThesisCarries(u, t)
    BY <2>1 DEF ThesisCarries
  <2> QED BY <2>3, <2>4
<1>2. ThesisCarries(t, t)
  BY DEF ThesisCarries
<1>3. TH!Recovered(t, A) = TH!Unknown(u) \/ TH!Recovered(t, A) = t
  BY DEF TH!Recovered
<1> HIDE DEF u
<1> QED BY <1>1, <1>2, <1>3, ThesisUnknown, ThesisCarriesOn

(* Of the theses that alerts would make, the one to be preferred is one of *)
(* them.                                                                   *)
LEMMA ThesisPreferred ==
  ASSUME NEW time \in Nat, NEW C \in SUBSET ThesisRecord, C # {}, \A c \in C : c.at <= time
  PROVE  TH!Earliest(TH!Preferred(C)) \in C /\ TH!Latest(TH!Preferred(C)) \in C
<1> DEFINE P == TH!Preferred(C)
           Ats == {c.at : c \in P}
<1>1. P \in SUBSET C /\ P # {}
  BY DEF TH!Preferred
<1> HIDE DEF P
<1>2. Ats \in SUBSET (0..time) /\ Ats \in SUBSET Nat /\ Ats # {}
  <2>1. \A c \in P : c.at \in Nat /\ c.at <= time
    BY <1>1 DEF ThesisRecord
  <2> QED BY <1>1, <2>1
<1>3. \E c \in P : \A d \in P : d.at <= c.at
  <2>1. PICK x \in Ats : \A y \in Ats : x >= y
    <3> HIDE DEF Ats
    <3> QED BY <1>2, LargestNumber
  <2>2. PICK c \in P : x = c.at
    OBVIOUS
  <2>3. \A d \in P : d.at \in Ats /\ d.at \in Nat /\ c.at \in Nat
    BY <1>2
  <2>4. \A d \in P : d.at <= c.at
    <3> HIDE DEF Ats
    <3> QED BY <2>1, <2>2, <2>3
  <2> QED BY <2>4
<1>4. \E c \in P : \A d \in P : c.at <= d.at
  <2>1. PICK x \in Ats : \A y \in Ats : x <= y
    <3> HIDE DEF Ats
    <3> QED BY <1>2, LeastNumber
  <2>2. PICK c \in P : x = c.at
    OBVIOUS
  <2>3. \A d \in P : d.at \in Ats
    OBVIOUS
  <2>4. \A d \in P : c.at <= d.at
    <3> HIDE DEF Ats
    <3> QED BY <2>1, <2>2, <2>3
  <2> QED BY <2>4
<1>5. TH!Latest(P) \in P
  BY <1>3, Zenon DEF TH!Latest
<1>6. TH!Earliest(P) \in P
  BY <1>4, Zenon DEF TH!Earliest
<1> QED BY <1>1, <1>5, <1>6 DEF P

(* A capture carries the thesis on or begins one of another time.          *)
LEMMA ThesisCaptured ==
  ASSUME ThesisAssumption, ThesisInv, NEW A, ThesisDated(c3 \cup A, c5), c1 # TH!None \/ A # {}
  PROVE  LET t == TH!Captured(A)[1]
         IN  /\ t \in ThesisRecord
             /\ \/ c1 # TH!None /\ ThesisCarries(t, c1)
                \/ /\ c1 = TH!None \/ t.at # c1.at
                   /\ \E a \in A : ThesisBegins(t, a)
<1> DEFINE C == {TH!Incoming(a) : a \in A}
           old == IF c1 = TH!None THEN TH!None ELSE TH!Recovered(c1, A)
           new == IF old = TH!None THEN TH!Earliest(TH!Preferred(C)) ELSE TH!Latest(TH!Preferred(C))
           t == TH!Captured(A)[1]
<1>1. /\ t = IF A = {} THEN old ELSE IF old = TH!None THEN new ELSE IF TH!Replaces(new, old) THEN new ELSE old
  BY DEF TH!Captured
<1>2. \A a \in A : a \in ThesisAlert /\ a.at <= c5
  BY DEF ThesisDated
<1>3. c5 \in Nat /\ c1 \in ThesisRecord \cup {TH!None}
  BY DEF ThesisInv
<1>4. c1 # TH!None => old \in ThesisRecord /\ ThesisCarries(old, c1) /\ old # TH!None
  BY <1>3, ThesisRecovers, ThesisIsSome
<1>5. A # {} => \E a \in A : new = TH!Incoming(a) /\ new \in ThesisRecord /\ ThesisBegins(new, a)
  <2> SUFFICES ASSUME A # {} PROVE \E a \in A : new = TH!Incoming(a) /\ new \in ThesisRecord /\ ThesisBegins(new, a)
    OBVIOUS
  <2>1. \A c \in C : c \in ThesisRecord /\ c.at <= c5
    BY <1>2, ThesisIncoming DEF ThesisBegins
  <2>2. C \in SUBSET ThesisRecord /\ C # {}
    BY <2>1
  <2>3. new \in C
    <3>1. TH!Earliest(TH!Preferred(C)) \in C /\ TH!Latest(TH!Preferred(C)) \in C
      <4> HIDE DEF C
      <4> QED BY <1>3, <2>1, <2>2, ThesisPreferred
    <3> HIDE DEF C, old
    <3> QED BY <3>1
  <2> HIDE DEF new, old
  <2>4. PICK a \in A : new = TH!Incoming(a)
    BY <2>3
  <2> QED BY <1>2, <2>4, ThesisIncoming
<1> HIDE DEF new, C
<1>6. CASE t = new /\ A # {} /\ (c1 = TH!None \/ (old # TH!None /\ TH!Replaces(new, old)))
  <2>1. PICK a \in A : new = TH!Incoming(a) /\ new \in ThesisRecord /\ ThesisBegins(new, a)
    BY <1>5, <1>6
  <2>2. ASSUME c1 # TH!None, new.at = c1.at PROVE FALSE
    <3>1. PICK b \in c3 : b.at = c1.at /\ b.kind.wave = c1.wave /\ (b.kind.conf = "confirmed" /\ c1.known => c1.conf = "confirmed")
      BY <2>2 DEF ThesisInv, ThesisKept, ThesisOrigin
    <3>2. a = b
      BY <2>1, <2>2, <3>1 DEF ThesisDated, ThesisBegins
    <3>3. old \in ThesisRecord /\ ThesisCarries(old, c1)
      BY <1>4, <2>2
    <3> HIDE DEF old
    <3>4. new.at = old.at /\ old.at \in Nat /\ ~(new.at > old.at)
      BY <2>2, <3>3 DEF ThesisCarries, ThesisRecord
    <3>5. TH!Replaces(new, old)
      BY <1>6, <2>2
    <3>6. /\ old.conf # "confirmed" /\ old.known
          /\ new.conf = "confirmed" \/ (new.wave /\ ~old.wave)
      BY <3>4, <3>5 DEF TH!Replaces
    <3>7. c1.known /\ old.wave = c1.wave /\ old.conf = c1.conf
      BY <3>3, <3>6 DEF ThesisCarries
    <3>8. new.wave = a.kind.wave /\ (new.conf = "confirmed" => a.kind.conf = "confirmed")
      BY <2>1, Zenon DEF ThesisBegins
    <3> QED BY <3>1, <3>2, <3>6, <3>7, <3>8, Zenon
  <2> HIDE DEF old
  <2> QED BY <1>6, <2>1, <2>2
<1>7. CASE t = old /\ c1 # TH!None
  <2> HIDE DEF old
  <2> QED BY <1>4, <1>7
<1>8. \/ t = new /\ A # {} /\ (c1 = TH!None \/ (old # TH!None /\ TH!Replaces(new, old)))
      \/ t = old /\ c1 # TH!None
  <2> HIDE DEF t
  <2> QED BY <1>1, <1>4
<1> QED BY <1>6, <1>7, <1>8

(* A thesis that is carried on is kept.                                    *)
LEMMA ThesisCarriesKept ==
  ASSUME NEW t \in ThesisRecord, NEW u, ThesisCarries(u, t), NEW alerts, NEW more, alerts \subseteq more,
         NEW low, NEW readAt, NEW told, NEW time \in Nat,
         ThesisKept(t, low, readAt, told, alerts, time)
  PROVE  ThesisKept(u, low, readAt, told, more, time)
<1>1. ThesisOrigin(u, more)
  <2>1. u.conf = "unseasoned" => u.eligible = u.at + ThesisSeason
    BY DEF ThesisKept, ThesisOrigin, ThesisCarries
  <2>2. PICK a \in alerts : /\ a.at = t.at /\ a.kind.wave = t.wave
                            /\ a.kind.conf = "confirmed" /\ t.known => t.conf = "confirmed"
    BY DEF ThesisKept, ThesisOrigin
  <2>3. /\ a \in more /\ a.at = u.at /\ a.kind.wave = u.wave
        /\ a.kind.conf = "confirmed" /\ u.known => u.conf = "confirmed"
    BY <2>2 DEF ThesisCarries
  <2> QED BY <2>1, <2>3 DEF ThesisOrigin
<1>2. ThesisCycle(u, readAt, time)
  <2>1. TH!NoCycle.at <= time /\ TH!NoCycle.done = {}
    BY DEF TH!NoCycle
  <2> QED BY <2>1 DEF ThesisKept, ThesisCycle, ThesisCarries
<1>3. ThesisExact(u, low, told)
  BY DEF ThesisKept, ThesisExact, ThesisCarries
<1> QED BY <1>1, <1>2, <1>3 DEF ThesisKept

(* A thesis that begins has what its alert left its wallets.               *)
LEMMA ThesisBeginsKept ==
  ASSUME ThesisAssumption, NEW t \in ThesisRecord, NEW alerts, NEW a \in alerts, ThesisBegins(t, a),
         NEW readAt, NEW time \in Nat
  PROVE  ThesisKept(t, [o \in ThesisOwners |-> t.cap[o]], readAt, [s \in ThesisSigs |-> 0], alerts, time)
<1> DEFINE low == [o \in ThesisOwners |-> t.cap[o]]
           told == [s \in ThesisSigs |-> 0]
<1>1. ThesisOrigin(t, alerts)
  BY DEF ThesisOrigin, ThesisBegins
<1>2. ThesisCycle(t, readAt, time)
  BY DEF ThesisCycle, ThesisBegins, TH!NoCycle
<1>3. ThesisExact(t, low, told)
  <2> SUFFICES ASSUME NEW o \in ThesisOwners
               PROVE  /\ t.sold[o] = Lesser(ThesisBought, Cardinality(ThesisTokens(told, o)))
                      /\ \A s \in ThesisSigs : t.seen[s] = told[s]
                      /\ t.cap[o] = Lesser(low[o], ThesisBought - t.sold[o])
    BY DEF ThesisExact
  <2>1. ThesisTokens(told, o) = {}
    <3>1. ASSUME NEW x \in ThesisTokens(told, o) PROVE FALSE
      <4>1. PICK s \in ThesisSigs : x \in {s} \X (1..told[s])
        BY <3>1, Zenon DEF ThesisTokens
      <4>2. 1..told[s] = {}
        OBVIOUS
      <4> QED BY <4>1, <4>2
    <3> HIDE DEF told
    <3> QED BY <3>1
  <2>2. t.sold[o] = 0 /\ \A s \in ThesisSigs : t.seen[s] = told[s]
    BY DEF ThesisBegins
  <2>3. ThesisBought \in Nat /\ t.cap[o] \in 0..ThesisBought
    BY DEF ThesisRecord, ThesisAssumption
  <2>4. Cardinality(ThesisTokens(told, o)) = 0
    BY <2>1, FS_EmptySet
  <2> HIDE DEF told
  <2> QED BY <2>2, <2>3, <2>4 DEF Lesser
<1> QED BY <1>1, <1>2, <1>3 DEF ThesisKept

(* A sale is reported of a thesis that is kept.                            *)
ThesisSelling(t, s, amount, low, readAt, reset, told, new, alerts, time) ==
  /\ t \in ThesisRecord /\ s \in ThesisSigs /\ amount \in Nat
  /\ low \in [ThesisOwners -> Nat] /\ told \in [ThesisSigs -> Nat] /\ time \in Nat
  /\ ThesisKept(t, low, readAt, told, alerts, time)
  /\ TH!Sold(t, s, amount) = t => reset = readAt
  /\ new = IF ThesisSellers[s] \in t.cohort
           THEN [told EXCEPT ![s] = TH!Max({told[s], amount})] ELSE told

(* What a sale leaves of a thesis.                                         *)
LEMMA ThesisSells ==
  ASSUME ThesisAssumption, NEW t, NEW s, NEW amount, NEW low, NEW readAt, NEW reset, NEW told, NEW new,
         NEW alerts, NEW time, ThesisSelling(t, s, amount, low, readAt, reset, told, new, alerts, time)
  PROVE  /\ TH!Sold(t, s, amount) \in ThesisRecord
         /\ TH!Sold(t, s, amount).at = t.at /\ TH!Sold(t, s, amount).conf = t.conf
         /\ new \in [ThesisSigs -> Nat]
         /\ ThesisKept(TH!Sold(t, s, amount), low, reset, new, alerts, time)
<1> DEFINE o == ThesisSellers[s]
           more == IF amount > t.seen[s] THEN amount - t.seen[s] ELSE 0
           sold == TH!Min({ThesisBought, t.sold[o] + more})
           u == TH!Sold(t, s, amount)
           n == TH!Max({told[s], amount})
<1>0. /\ t \in ThesisRecord /\ s \in ThesisSigs /\ amount \in Nat
      /\ low \in [ThesisOwners -> Nat] /\ told \in [ThesisSigs -> Nat] /\ time \in Nat
      /\ ThesisKept(t, low, readAt, told, alerts, time)
      /\ u = t => reset = readAt
  BY DEF ThesisSelling
<1>00. new = IF o \in t.cohort THEN [told EXCEPT ![s] = n] ELSE told
  BY DEF ThesisSelling
<1> USE <1>0
<1>1. /\ ThesisBought \in Nat /\ o \in ThesisOwners /\ told[s] \in Nat /\ t.seen[s] \in Nat
      /\ t.cap \in [ThesisOwners -> 0..ThesisBought] /\ t.sold \in [ThesisOwners -> 0..ThesisBought]
      /\ t.seen \in [ThesisSigs -> Nat]
  BY DEF ThesisAssumption, ThesisRecord
<1>2. n \in Nat /\ told[s] <= n /\ amount <= n /\ (n = told[s] \/ n = amount)
  <2>1. n = IF told[s] <= amount THEN amount ELSE told[s]
    BY <1>1, ThesisLeast
  <2> QED BY <1>1, <2>1
<1>3. \A p \in ThesisOwners :
        /\ t.sold[p] = Lesser(ThesisBought, Cardinality(ThesisTokens(told, p)))
        /\ t.sold[p] < ThesisBought => \A q \in ThesisSigs : ThesisSellers[q] = p => t.seen[q] = told[q]
        /\ t.cap[p] = Lesser(low[p], ThesisBought - t.sold[p])
  BY DEF ThesisKept, ThesisExact
<1>4. /\ new \in [ThesisSigs -> Nat]
      /\ \A q \in ThesisSigs : ThesisSellers[q] # o => new[q] = told[q]
      /\ \A p \in ThesisOwners :
           /\ Cardinality(ThesisTokens(told, p)) \in Nat
           /\ Cardinality(ThesisTokens(new, p)) = Cardinality(ThesisTokens(told, p))
                + (IF p = o /\ o \in t.cohort THEN n - told[s] ELSE 0)
  <2> HIDE DEF n
  <2>1. \A p : Cardinality(ThesisTokens(told, p)) \in Nat
    BY ThesisTokensFinite DEF ThesisAssumption
  <2>2. CASE o \in t.cohort
    <3>1. /\ new \in [ThesisSigs -> Nat] /\ told[s] <= new[s]
          /\ new[s] = n /\ \A q \in ThesisSigs \ {s} : new[q] = told[q]
      BY <1>00, <1>2, <2>2
    <3>2. IsFiniteSet(ThesisSigs)
      BY DEF ThesisAssumption
    <3>3. ASSUME NEW p
          PROVE  Cardinality(ThesisTokens(new, p)) = Cardinality(ThesisTokens(told, p))
                   + (IF ThesisSellers[s] = p THEN new[s] - told[s] ELSE 0)
      BY <3>1, <3>2, ThesisTokensGrow
    <3> QED BY <2>1, <2>2, <3>1, <3>3
  <2>3. CASE o \notin t.cohort
    <3>1. new = told
      BY <1>00, <2>3
    <3> QED BY <2>1, <2>3, <3>1
  <2> QED BY <2>2, <2>3
<1> HIDE DEF n
<1>5. CASE o \notin t.cohort \/ more = 0 \/ t.sold[o] >= ThesisBought
  <2>1. u = t
    BY <1>5 DEF TH!Sold
  <2>2. ThesisExact(t, low, new)
    <3> HIDE DEF u
    <3> SUFFICES ASSUME NEW p \in ThesisOwners
                 PROVE  /\ t.sold[p] = Lesser(ThesisBought, Cardinality(ThesisTokens(new, p)))
                        /\ t.sold[p] < ThesisBought =>
                             \A q \in ThesisSigs : ThesisSellers[q] = p => t.seen[q] = new[q]
      BY <1>3 DEF ThesisExact
    <3>1. CASE p # o \/ o \notin t.cohort
      <4>1. \A q \in ThesisSigs : ThesisSellers[q] = p => new[q] = told[q]
        BY <1>00, <1>4, <3>1
      <4>2. Cardinality(ThesisTokens(new, p)) = Cardinality(ThesisTokens(told, p))
        <5> QED BY <1>4, <3>1
      <4> QED BY <1>3, <4>1, <4>2
    <3>2. CASE p = o /\ t.sold[o] >= ThesisBought
      <4>1. t.sold[o] \in 0..ThesisBought
        BY <1>1
      <4>2. t.sold[o] = Lesser(ThesisBought, Cardinality(ThesisTokens(told, o)))
        BY <1>1, <1>3
      <4>3. /\ Cardinality(ThesisTokens(told, o)) \in Nat
            /\ Cardinality(ThesisTokens(new, o)) >= Cardinality(ThesisTokens(told, o))
            /\ Cardinality(ThesisTokens(new, o)) \in Nat
        <5> QED BY <1>1, <1>2, <1>4
      <4> QED BY <1>1, <3>2, <4>1, <4>2, <4>3 DEF Lesser
    <3>3. CASE p = o /\ t.sold[o] < ThesisBought /\ o \in t.cohort
      <4>1. t.seen[s] = told[s]
        BY <1>1, <1>3, <3>3
      <4>2. amount <= told[s]
        BY <1>1, <1>5, <3>3, <4>1
      <4>3. n = told[s]
        BY <1>1, <1>2, <4>2
      <4>4. new = told
        BY <1>00, <4>3
      <4> QED BY <1>3, <4>4
    <3> QED BY <1>1, <3>1, <3>2, <3>3
  <2>3. ThesisKept(t, low, reset, new, alerts, time)
    BY <2>1, <2>2 DEF ThesisKept
  <2> QED BY <1>4, <2>1, <2>3
<1>6. CASE o \in t.cohort /\ more # 0 /\ t.sold[o] < ThesisBought
  <2>1. /\ amount > t.seen[s] /\ t.seen[s] = told[s] /\ more = amount - told[s] /\ n = amount
    BY <1>1, <1>2, <1>3, <1>6
  <2>2. /\ t.sold[o] = Cardinality(ThesisTokens(told, o))
        /\ sold = Lesser(ThesisBought, Cardinality(ThesisTokens(new, o)))
        /\ sold \in 0..ThesisBought /\ t.sold[o] <= sold
    <3>1. t.sold[o] = Cardinality(ThesisTokens(told, o)) /\ t.sold[o] \in Nat
      BY <1>1, <1>3, <1>4, <1>6 DEF Lesser
    <3>2. t.sold[o] + more = Cardinality(ThesisTokens(new, o)) /\ more \in Nat
      <4>1. Cardinality(ThesisTokens(new, o)) = Cardinality(ThesisTokens(told, o)) + (n - told[s])
        <5> HIDE DEF more
        <5> QED BY <1>1, <1>4, <1>6
      <4> QED BY <1>1, <2>1, <3>1, <4>1
    <3>3. sold = Lesser(ThesisBought, t.sold[o] + more)
      <4> HIDE DEF more
      <4>1. t.sold[o] + more \in Nat
        BY <3>1, <3>2
      <4> QED BY <1>1, <4>1, ThesisLeast
    <3>4. sold \in 0..ThesisBought /\ t.sold[o] <= sold
      <4> HIDE DEF more, sold
      <4> QED BY <1>1, <1>6, <3>1, <3>2, <3>3 DEF Lesser
    <3> HIDE DEF sold, more
    <3> QED BY <3>1, <3>2, <3>3, <3>4
  <2> DEFINE cap == TH!Min({t.cap[o], ThesisBought - sold})
  <2>3. u = [t EXCEPT !.seen = [t.seen EXCEPT ![s] = amount], !.sold = [t.sold EXCEPT ![o] = sold],
                      !.cap = [t.cap EXCEPT ![o] = cap], !.cycle = TH!NoCycle]
    <3> DEFINE r == [t EXCEPT !.seen = [t.seen EXCEPT ![s] = amount], !.sold = [t.sold EXCEPT ![o] = sold],
                              !.cap = [t.cap EXCEPT ![o] = cap], !.cycle = TH!NoCycle]
    <3>1. u = IF o \notin t.cohort \/ more = 0 \/ t.sold[o] >= ThesisBought THEN t ELSE r
      BY Zenon DEF TH!Sold
    <3> HIDE DEF u, r, sold, more, o
    <3>2. ~(t.sold[o] >= ThesisBought)
      BY <1>1, <1>6
    <3>3. u = r
      BY <1>6, <3>1, <3>2
    <3> QED BY <3>3 DEF r
  <2> HIDE DEF sold
  <2>4. cap = Lesser(low[o], ThesisBought - sold) /\ cap \in 0..ThesisBought
    <3>1. /\ t.cap[o] = Lesser(low[o], ThesisBought - t.sold[o]) /\ t.cap[o] \in 0..ThesisBought
          /\ t.sold[o] \in 0..ThesisBought /\ low[o] \in Nat
      BY <1>1, <1>3
    <3>2. ThesisBought - sold \in Nat
      BY <1>1, <2>2
    <3>3. cap = Lesser(t.cap[o], ThesisBought - sold)
      BY <3>1, <3>2, ThesisLeast
    <3> HIDE DEF cap
    <3> QED BY <1>1, <2>2, <3>1, <3>2, <3>3 DEF Lesser
  <2> HIDE DEF cap, u
  <2>5. /\ u \in ThesisRecord /\ u.at = t.at /\ u.conf = t.conf /\ u.wave = t.wave /\ u.known = t.known
        /\ u.eligible = t.eligible /\ u.cycle = TH!NoCycle
        /\ u.seen = [t.seen EXCEPT ![s] = amount] /\ u.sold = [t.sold EXCEPT ![o] = sold]
        /\ u.cap = [t.cap EXCEPT ![o] = cap]
    <3>1. /\ [t.seen EXCEPT ![s] = amount] \in [ThesisSigs -> Nat]
          /\ [t.sold EXCEPT ![o] = sold] \in [ThesisOwners -> 0..ThesisBought]
          /\ [t.cap EXCEPT ![o] = cap] \in [ThesisOwners -> 0..ThesisBought]
          /\ TH!NoCycle \in [at : Nat, done : SUBSET ThesisOwners]
      BY <1>1, <2>2, <2>4 DEF TH!NoCycle
    <3> DEFINE a == [t.seen EXCEPT ![s] = amount]
               b == [t.sold EXCEPT ![o] = sold]
               c == [t.cap EXCEPT ![o] = cap]
    <3>2. u = [t EXCEPT !.seen = a, !.sold = b, !.cap = c, !.cycle = TH!NoCycle]
      BY <2>3
    <3> HIDE DEF a, b, c
    <3>3. t = [at |-> t.at, wave |-> t.wave, conf |-> t.conf, eligible |-> t.eligible,
               known |-> t.known, status |-> t.status, cohort |-> t.cohort, cap |-> t.cap,
               checked |-> t.checked, sold |-> t.sold, seen |-> t.seen, cycle |-> t.cycle]
      BY DEF ThesisRecord
    <3>4. u = [at |-> t.at, wave |-> t.wave, conf |-> t.conf, eligible |-> t.eligible,
               known |-> t.known, status |-> t.status, cohort |-> t.cohort, cap |-> c,
               checked |-> t.checked, sold |-> b, seen |-> a, cycle |-> TH!NoCycle]
      BY <3>2, <3>3
    <3>5. /\ a \in [ThesisSigs -> Nat] /\ b \in [ThesisOwners -> 0..ThesisBought]
          /\ c \in [ThesisOwners -> 0..ThesisBought]
      BY <3>1 DEF a, b, c
    <3>6. u \in ThesisRecord
      BY <3>1, <3>4, <3>5 DEF ThesisRecord
    <3>7. /\ u.at = t.at /\ u.conf = t.conf /\ u.wave = t.wave /\ u.known = t.known
          /\ u.eligible = t.eligible /\ u.cycle = TH!NoCycle /\ u.seen = a /\ u.sold = b /\ u.cap = c
      BY <3>4
    <3> QED BY <3>6, <3>7 DEF a, b, c
  <2>6. ThesisOrigin(u, alerts) /\ ThesisCycle(u, reset, time)
    <3>1. ThesisOrigin(t, alerts)
      BY DEF ThesisKept
    <3>2. ThesisOrigin(u, alerts)
      BY <2>5, <3>1 DEF ThesisOrigin
    <3>3. TH!NoCycle.at <= time /\ TH!NoCycle.done = {}
      BY DEF TH!NoCycle
    <3>4. ThesisCycle(u, reset, time)
      BY <2>5, <3>3 DEF ThesisCycle
    <3> QED BY <3>2, <3>4
  <2>7. ThesisExact(u, low, new)
    <3> SUFFICES ASSUME NEW p \in ThesisOwners
                 PROVE  /\ u.sold[p] = Lesser(ThesisBought, Cardinality(ThesisTokens(new, p)))
                        /\ u.sold[p] < ThesisBought =>
                             \A q \in ThesisSigs : ThesisSellers[q] = p => u.seen[q] = new[q]
                        /\ u.cap[p] = Lesser(low[p], ThesisBought - u.sold[p])
      BY DEF ThesisExact
    <3>1. CASE p = o
      <4>1. u.sold[p] = sold /\ u.cap[p] = cap
        BY <1>1, <2>5, <3>1
      <4>2. ASSUME NEW q \in ThesisSigs, ThesisSellers[q] = o PROVE u.seen[q] = new[q]
        <5>1. t.seen[q] = told[q]
          BY <1>1, <1>3, <1>6, <4>2
        <5>2. u.seen[q] = IF q = s THEN amount ELSE t.seen[q]
          BY <1>1, <2>5
        <5>3. new[q] = IF q = s THEN amount ELSE told[q]
          BY <1>00, <1>6, <2>1
        <5> QED BY <5>1, <5>2, <5>3
      <4> QED BY <2>2, <2>4, <3>1, <4>1, <4>2
    <3>2. CASE p # o
      <4>1. u.sold[p] = t.sold[p] /\ u.cap[p] = t.cap[p]
        BY <1>1, <2>5, <3>2
      <4>2. \A q \in ThesisSigs : ThesisSellers[q] = p => u.seen[q] = t.seen[q] /\ new[q] = told[q]
        BY <1>1, <1>4, <2>5, <3>2
      <4>3. Cardinality(ThesisTokens(new, p)) = Cardinality(ThesisTokens(told, p))
        BY <1>4, <3>2
      <4> QED BY <1>3, <4>1, <4>2, <4>3
    <3> QED BY <3>1, <3>2
  <2>8. ThesisKept(u, low, reset, new, alerts, time)
    BY <2>6, <2>7 DEF ThesisKept
  <2> QED BY <1>4, <2>5, <2>8 DEF u
<1>7. more \in Nat
  BY <1>1
<1> QED BY <1>1, <1>5, <1>6, <1>7

(* Some wallets' balances are read of a thesis that is exact.              *)
ThesisReading(t, ok, read, low, told, u, less) ==
  /\ ThesisBought \in Nat /\ t \in ThesisRecord /\ c5 \in Nat /\ ok \subseteq ThesisOwners
  /\ read \in [ok -> Nat] /\ low \in [ThesisOwners -> Nat] /\ ThesisExact(t, low, told)
  /\ u = TH!Read(t, read)
  /\ less = [o \in ThesisOwners |-> IF o \in ok THEN TH!Min({low[o], read[o]}) ELSE low[o]]

(* What the balances that were read leave of a thesis.                     *)
LEMMA ThesisReadsBalances ==
  ASSUME NEW t, NEW ok, NEW read, NEW low, NEW told, NEW u, NEW less,
         ThesisReading(t, ok, read, low, told, u, less)
  PROVE  /\ u \in ThesisRecord /\ less \in [ThesisOwners -> Nat] /\ ThesisExact(u, less, told)
         /\ u.at = t.at /\ u.wave = t.wave /\ u.conf = t.conf /\ u.eligible = t.eligible
         /\ u.known = t.known /\ u.cohort = t.cohort
         /\ \A o \in ThesisOwners : u.checked[o] = IF o \in ok THEN c5 ELSE t.checked[o]
<1> DEFINE least(o) == TH!Min({read[o], ThesisBought - t.sold[o], t.cap[o]})
           cap == [o \in ThesisOwners |-> IF o \in ok THEN least(o) ELSE t.cap[o]]
           checked == [o \in ThesisOwners |-> IF o \in ok THEN c5 ELSE t.checked[o]]
<1>0. /\ ThesisBought \in Nat /\ t \in ThesisRecord /\ c5 \in Nat /\ ok \subseteq ThesisOwners
      /\ read \in [ok -> Nat] /\ low \in [ThesisOwners -> Nat] /\ ThesisExact(t, low, told)
      /\ u = TH!Read(t, read)
      /\ less = [o \in ThesisOwners |-> IF o \in ok THEN TH!Min({low[o], read[o]}) ELSE low[o]]
  BY DEF ThesisReading
<1>1. /\ ThesisBought \in Nat /\ t.cap \in [ThesisOwners -> 0..ThesisBought]
      /\ t.sold \in [ThesisOwners -> 0..ThesisBought] /\ t.checked \in [ThesisOwners -> Nat]
      /\ t.seen \in [ThesisSigs -> Nat] /\ \A o \in ok : read[o] \in Nat /\ o \in ThesisOwners
  BY <1>0 DEF ThesisRecord
<1>2. \A o \in ThesisOwners : t.cap[o] = Lesser(low[o], ThesisBought - t.sold[o])
  BY <1>0 DEF ThesisExact
<1>3. ASSUME NEW o \in ok
      PROVE  /\ TH!Min({low[o], read[o]}) \in Nat
             /\ least(o) = Lesser(TH!Min({low[o], read[o]}), ThesisBought - t.sold[o])
             /\ least(o) \in 0..ThesisBought
  <2>1. /\ read[o] \in Nat /\ ThesisBought - t.sold[o] \in Nat /\ t.cap[o] \in Nat /\ low[o] \in Nat
        /\ t.cap[o] <= ThesisBought /\ t.cap[o] = Lesser(low[o], ThesisBought - t.sold[o])
    BY <1>0, <1>1, <1>2
  <2>2. least(o) = Lesser(Lesser(read[o], ThesisBought - t.sold[o]), t.cap[o])
    BY <2>1, ThesisLeastOfThree
  <2>3. TH!Min({low[o], read[o]}) = Lesser(low[o], read[o])
    BY <2>1, ThesisLeast
  <2> HIDE DEF least
  <2> QED BY <1>1, <2>1, <2>2, <2>3 DEF Lesser
<1>4. /\ cap \in [ThesisOwners -> 0..ThesisBought] /\ checked \in [ThesisOwners -> Nat]
      /\ less \in [ThesisOwners -> Nat]
      /\ \A o \in ThesisOwners : cap[o] = Lesser(less[o], ThesisBought - t.sold[o])
  <2> HIDE DEF least
  <2> USE <1>0
  <2>1. \A o \in ThesisOwners : /\ cap[o] = IF o \in ok THEN least(o) ELSE t.cap[o]
                                /\ less[o] = IF o \in ok THEN TH!Min({low[o], read[o]}) ELSE low[o]
    OBVIOUS
  <2>2. cap \in [ThesisOwners -> 0..ThesisBought]
    BY <1>1, <1>3
  <2>3. checked \in [ThesisOwners -> Nat]
    BY <1>1
  <2>4. less \in [ThesisOwners -> Nat]
    BY <1>3
  <2>5. \A o \in ThesisOwners : cap[o] = Lesser(less[o], ThesisBought - t.sold[o])
    <3> HIDE DEF cap
    <3> QED BY <1>2, <1>3, <2>1
  <2> QED BY <2>2, <2>3, <2>4, <2>5
<1>5. u = [t EXCEPT !.cap = cap, !.checked = checked]
  <2>1. DOMAIN read = ok
    BY <1>0
  <2> DEFINE caps == [o \in ThesisOwners |-> IF o \in DOMAIN read THEN least(o) ELSE t.cap[o]]
             checks == [o \in ThesisOwners |-> IF o \in DOMAIN read THEN c5 ELSE t.checked[o]]
  <2>2. u = [t EXCEPT !.cap = caps, !.checked = checks]
    BY <1>0 DEF TH!Read
  <2> HIDE DEF least
  <2>3. caps = cap /\ checks = checked
    BY <2>1
  <2> HIDE DEF cap, checked, caps, checks
  <2> QED BY <2>2, <2>3
<1> HIDE DEF cap, checked
<1>6. t = [at |-> t.at, wave |-> t.wave, conf |-> t.conf, eligible |-> t.eligible,
           known |-> t.known, status |-> t.status, cohort |-> t.cohort, cap |-> t.cap,
           checked |-> t.checked, sold |-> t.sold, seen |-> t.seen, cycle |-> t.cycle]
  BY <1>0 DEF ThesisRecord
<1>7. u = [at |-> t.at, wave |-> t.wave, conf |-> t.conf, eligible |-> t.eligible,
           known |-> t.known, status |-> t.status, cohort |-> t.cohort, cap |-> cap,
           checked |-> checked, sold |-> t.sold, seen |-> t.seen, cycle |-> t.cycle]
  BY <1>5, <1>6
<1>8. u \in ThesisRecord
  BY <1>0, <1>4, <1>7 DEF ThesisRecord
<1>9. /\ u.at = t.at /\ u.wave = t.wave /\ u.conf = t.conf /\ u.eligible = t.eligible
      /\ u.known = t.known /\ u.cohort = t.cohort /\ u.checked = checked /\ u.cap = cap
      /\ u.sold = t.sold /\ u.seen = t.seen
  BY <1>7
<1>10. ThesisExact(u, less, told)
  BY <1>0, <1>4, <1>9 DEF ThesisExact
<1> QED BY <1>4, <1>8, <1>9, <1>10 DEF checked

(* A judgement confirms only candidates in season that every wallet has    *)
(* been checked for, and only when nothing is unknown of their sales.      *)
LEMMA ThesisJudged ==
  ASSUME NEW t \in ThesisRecord
  PROVE  LET u == TH!Judged(t)
         IN  /\ u \in ThesisRecord
             /\ u.at = t.at /\ u.wave = t.wave /\ u.eligible = t.eligible /\ u.known = t.known
             /\ u.cohort = t.cohort /\ u.cap = t.cap /\ u.sold = t.sold /\ u.seen = t.seen
             /\ u.cycle = TH!NoCycle
             /\ u.conf # t.conf =>
                  /\ t.conf = "unseasoned" /\ u.conf = "confirmed" /\ t.known
                  /\ \A o \in t.cohort : t.checked[o] >= t.eligible
<1> DEFINE n == TH!Cardinality(t.cohort)
           kept == TH!SumFunctionOnSet(t.cap, t.cohort)
           holders == TH!Cardinality({o \in t.cohort : TH!Share(t.cap[o], ThesisBought, 10)})
           whole == TH!Share(n, TH!Cardinality(ThesisOwners), 70)
           status == IF TH!Share(kept, n * ThesisBought, 60) /\ TH!Share(holders, n, 50)
                     THEN IF t.known THEN "intact" ELSE "unknown"
                     ELSE IF whole THEN "weakening" ELSE "unknown"
           confirm == /\ t.conf = "unseasoned" /\ c5 >= t.eligible
                      /\ status = "intact" /\ whole
                      /\ TH!Share(kept, n * ThesisBought, 80) /\ TH!Share(holders, n, 65)
                      /\ \A o \in t.cohort : t.checked[o] >= t.eligible
           conf == IF confirm THEN "confirmed" ELSE t.conf
           u == TH!Judged(t)
<1>1. u = [t EXCEPT !.status = status, !.cycle = TH!NoCycle, !.conf = conf]
  BY Zenon DEF TH!Judged
<1> HIDE DEF n, kept, holders, whole, u
<1>2. status \in {"intact", "weakening", "unknown", "invalidated"} /\ (status = "intact" => t.known)
  <2>1. \/ status = "intact" /\ t.known
        \/ status = "unknown"
        \/ status = "weakening"
    BY Zenon
  <2> HIDE DEF status
  <2> QED BY <2>1
<1> HIDE DEF status
<1>3. /\ conf \in {"confirmed", "unseasoned", "other"}
      /\ conf # t.conf => /\ t.conf = "unseasoned" /\ conf = "confirmed" /\ status = "intact"
                          /\ \A o \in t.cohort : t.checked[o] >= t.eligible
  <2>1. t.conf \in {"confirmed", "unseasoned", "other"}
    BY DEF ThesisRecord
  <2>2. conf = t.conf \/ (conf = "confirmed" /\ confirm)
    BY Zenon
  <2> HIDE DEF conf
  <2> QED BY <2>1, <2>2
<1> HIDE DEF conf
<1>4. t = [at |-> t.at, wave |-> t.wave, conf |-> t.conf, eligible |-> t.eligible,
           known |-> t.known, status |-> t.status, cohort |-> t.cohort, cap |-> t.cap,
           checked |-> t.checked, sold |-> t.sold, seen |-> t.seen, cycle |-> t.cycle]
  BY DEF ThesisRecord
<1>5. u = [at |-> t.at, wave |-> t.wave, conf |-> conf, eligible |-> t.eligible,
           known |-> t.known, status |-> status, cohort |-> t.cohort, cap |-> t.cap,
           checked |-> t.checked, sold |-> t.sold, seen |-> t.seen, cycle |-> TH!NoCycle]
  BY <1>1, <1>4
<1>6. TH!NoCycle \in [at : Nat, done : SUBSET ThesisOwners]
  BY DEF TH!NoCycle
<1>7. u \in ThesisRecord
  BY <1>2, <1>3, <1>5, <1>6 DEF ThesisRecord
<1>8. /\ u.at = t.at /\ u.wave = t.wave /\ u.eligible = t.eligible /\ u.known = t.known
      /\ u.cohort = t.cohort /\ u.cap = t.cap /\ u.sold = t.sold /\ u.seen = t.seen
      /\ u.cycle = TH!NoCycle /\ u.conf = conf
  BY <1>5
<1> QED BY <1>2, <1>3, <1>7, <1>8 DEF u

(* What still counts of a cycle was read since the cycle began, not too    *)
(* long ago.                                                               *)
LEMMA ThesisStillDone ==
  ASSUME ThesisAssumption, ThesisInv, c1 # TH!None
  PROVE  /\ TH!StillDone(c1) \subseteq c1.cycle.done
         /\ \A o \in TH!StillDone(c1) :
              /\ o \in ThesisOwners /\ c1.cycle.at # 0 /\ ~(c5 - c1.cycle.at > ThesisMaxAge)
              /\ c1.checked[o] = c7[o] /\ c1.cycle.at <= c7[o] /\ c5 - c7[o] <= ThesisMaxAge
<1>1. TH!StillDone(c1) \subseteq c1.cycle.done
  BY Zenon DEF TH!StillDone
<1>2. ASSUME NEW o \in TH!StillDone(c1) PROVE c1.cycle.at # 0 /\ ~(c5 - c1.cycle.at > ThesisMaxAge)
  <2>1. TH!StillDone(c1) # {}
    BY <1>2
  <2> QED BY <2>1, Zenon DEF TH!StillDone
<1>3. c1 \in ThesisRecord /\ c5 \in Nat /\ ThesisMaxAge \in Nat /\ c7 \in [ThesisOwners -> Nat]
  BY DEF ThesisInv, ThesisAssumption
<1>4. c1.cycle.at \in Nat /\ c1.cycle.done \subseteq ThesisOwners
  BY <1>3 DEF ThesisRecord
<1>5. \A o \in c1.cycle.done : c1.checked[o] = c7[o] /\ c1.cycle.at <= c7[o] /\ c7[o] \in Nat
  BY <1>3, <1>4 DEF ThesisInv, ThesisKept, ThesisCycle
<1>6. ASSUME NEW o \in TH!StillDone(c1) PROVE c5 - c7[o] <= ThesisMaxAge
  <2>1. ~(c5 - c1.cycle.at > ThesisMaxAge) /\ c1.cycle.at <= c7[o] /\ c7[o] \in Nat
    BY <1>1, <1>2, <1>5
  <2> QED BY <1>3, <1>4, <2>1
<1> QED BY <1>1, <1>2, <1>4, <1>5, <1>6

(* A check of balances keeps the thesis, and what it confirms was read of  *)
(* every wallet in one cycle.                                              *)
LEMMA ThesisRechecks ==
  ASSUME ThesisAssumption, ThesisInv, c1 # TH!None,
         NEW ok \in SUBSET (c1.cohort \ TH!StillDone(c1)), NEW read \in [ok -> ThesisReads]
  PROVE  LET u == TH!Rechecked(c1, read)
             less == [o \in ThesisOwners |-> IF o \in ok THEN TH!Min({c6[o], read[o]}) ELSE c6[o]]
             at == [o \in ThesisOwners |-> IF o \in ok THEN c5 ELSE c7[o]]
         IN  /\ u \in ThesisRecord /\ less \in [ThesisOwners -> Nat] /\ at \in [ThesisOwners -> Nat]
             /\ ThesisKept(u, less, at, c8, c3, c5)
             /\ c1.conf # "confirmed" /\ u.conf = "confirmed" =>
                  /\ u.known
                  /\ \A o \in u.cohort : at[o] >= u.at + ThesisSeason /\ c5 - at[o] <= ThesisMaxAge
<1> DEFINE D == TH!StillDone(c1)
           r == TH!Read(c1, read)
           u == TH!Rechecked(c1, read)
           less == [o \in ThesisOwners |-> IF o \in ok THEN TH!Min({c6[o], read[o]}) ELSE c6[o]]
           at == [o \in ThesisOwners |-> IF o \in ok THEN c5 ELSE c7[o]]
           done == D \cup ok
           start == IF c1.cycle.at = 0 \/ c5 - c1.cycle.at > ThesisMaxAge THEN c5 ELSE c1.cycle.at
<1>1. /\ c1 \in ThesisRecord /\ c5 \in Nat /\ ThesisMaxAge \in Nat /\ ThesisSeason \in Nat
      /\ c6 \in [ThesisOwners -> Nat] /\ c7 \in [ThesisOwners -> Nat]
      /\ ThesisOrigin(c1, c3) /\ ThesisCycle(c1, c7, c5) /\ ThesisExact(c1, c6, c8)
  BY DEF ThesisInv, ThesisAssumption, ThesisKept
<1>2. c1.cohort \subseteq ThesisOwners /\ c1.checked \in [ThesisOwners -> Nat] /\ c1.cycle.at \in Nat
      /\ ok \in SUBSET ThesisOwners
  BY <1>1 DEF ThesisRecord
<1>3. /\ r \in ThesisRecord /\ less \in [ThesisOwners -> Nat] /\ ThesisExact(r, less, c8)
      /\ r.at = c1.at /\ r.wave = c1.wave /\ r.conf = c1.conf /\ r.eligible = c1.eligible
      /\ r.known = c1.known /\ r.cohort = c1.cohort
      /\ \A o \in ThesisOwners : r.checked[o] = IF o \in ok THEN c5 ELSE c1.checked[o]
  <2>1. ThesisBought \in Nat /\ c1 \in ThesisRecord /\ c5 \in Nat /\ ok \in SUBSET ThesisOwners
        /\ read \in [ok -> Nat] /\ c6 \in [ThesisOwners -> Nat] /\ ThesisExact(c1, c6, c8)
    BY <1>1, <1>2 DEF ThesisAssumption
  <2>2. /\ r = TH!Read(c1, read)
        /\ less = [o \in ThesisOwners |-> IF o \in ok THEN TH!Min({c6[o], read[o]}) ELSE c6[o]]
    OBVIOUS
  <2> HIDE DEF u, D, at, done, start, r, less
  <2>3. ThesisReading(c1, ok, read, c6, c8, r, less)
    BY <2>1, <2>2 DEF ThesisReading
  <2> QED BY <2>3, ThesisReadsBalances
<1>4. /\ at \in [ThesisOwners -> Nat]
      /\ \A o \in ThesisOwners : at[o] = IF o \in ok THEN c5 ELSE c7[o]
      /\ \A o \in ThesisOwners : r.checked[o] = IF o \in ok THEN c5 ELSE c1.checked[o]
  BY <1>1, <1>3
<1>5. u = IF done = c1.cohort THEN TH!Judged(r)
          ELSE [r EXCEPT !.status = "unknown", !.cycle = [at |-> start, done |-> done]]
  <2>1. DOMAIN read = ok
    OBVIOUS
  <2> QED BY <2>1, Zenon DEF TH!Rechecked
<1> HIDE DEF u, r, less, at
<1>6. \A o \in done : o \in ThesisOwners /\ r.checked[o] = at[o] /\ c5 - at[o] <= ThesisMaxAge /\ start <= at[o]
  <2> SUFFICES ASSUME NEW o \in done
               PROVE  o \in ThesisOwners /\ r.checked[o] = at[o] /\ c5 - at[o] <= ThesisMaxAge /\ start <= at[o]
    OBVIOUS
  <2>1. start <= c5
    BY <1>1, <1>2 DEF ThesisCycle
  <2>2. CASE o \in ok
    <3>1. at[o] = c5 /\ r.checked[o] = c5 /\ o \in ThesisOwners /\ c5 - c5 <= ThesisMaxAge
      BY <1>1, <1>2, <1>4, <2>2
    <3> HIDE DEF start
    <3> QED BY <2>1, <3>1
  <2>3. CASE o \in D
    <3>1. /\ o \in ThesisOwners /\ c1.cycle.at # 0 /\ ~(c5 - c1.cycle.at > ThesisMaxAge)
          /\ c1.checked[o] = c7[o] /\ c1.cycle.at <= c7[o] /\ c5 - c7[o] <= ThesisMaxAge
      BY <2>3, ThesisStillDone
    <3>2. at[o] = c7[o] /\ r.checked[o] = c1.checked[o]
      BY <1>4, <2>3, <3>1
    <3> HIDE DEF D
    <3> QED BY <3>1, <3>2
  <2> QED BY <2>2, <2>3
<1>7. start \in Nat /\ start <= c5 /\ done \subseteq ThesisOwners
  BY <1>1, <1>2, <1>6 DEF ThesisCycle
<1> HIDE DEF start, D, done
<1>8. CASE done = c1.cohort
  <2>1. u = TH!Judged(r)
    BY <1>5, <1>8
  <2>2. /\ u \in ThesisRecord
        /\ u.at = r.at /\ u.wave = r.wave /\ u.eligible = r.eligible /\ u.known = r.known
        /\ u.cohort = r.cohort /\ u.cap = r.cap /\ u.sold = r.sold /\ u.seen = r.seen
        /\ u.cycle = TH!NoCycle
        /\ u.conf # r.conf =>
             /\ r.conf = "unseasoned" /\ u.conf = "confirmed" /\ r.known
             /\ \A o \in r.cohort : r.checked[o] >= r.eligible
    BY <1>3, <2>1, ThesisJudged
  <2>3. ThesisOrigin(u, c3)
    <3>1. u.conf = "unseasoned" => u.eligible = u.at + ThesisSeason
      BY <1>1, <1>3, <2>2 DEF ThesisOrigin
    <3>2. PICK a \in c3 : /\ a.at = c1.at /\ a.kind.wave = c1.wave
                          /\ a.kind.conf = "confirmed" /\ c1.known => c1.conf = "confirmed"
      BY <1>1 DEF ThesisOrigin
    <3>3. a.kind.conf = "confirmed" /\ u.known => u.conf = "confirmed"
      BY <1>3, <2>2, <3>2
    <3>4. a.at = u.at /\ a.kind.wave = u.wave
      BY <1>3, <2>2, <3>2
    <3> QED BY <3>1, <3>2, <3>3, <3>4 DEF ThesisOrigin
  <2>4. TH!NoCycle.at <= c5 /\ TH!NoCycle.done = {}
    BY <1>1 DEF TH!NoCycle
  <2>5. ThesisCycle(u, at, c5) /\ ThesisExact(u, less, c8)
    BY <1>3, <2>2, <2>4 DEF ThesisCycle, ThesisExact
  <2>6. c1.conf # "confirmed" /\ u.conf = "confirmed" =>
          /\ u.known
          /\ \A o \in u.cohort : at[o] >= u.at + ThesisSeason /\ c5 - at[o] <= ThesisMaxAge
    <3> SUFFICES ASSUME c1.conf # "confirmed", u.conf = "confirmed"
                 PROVE  /\ u.known
                        /\ \A o \in u.cohort : at[o] >= u.at + ThesisSeason /\ c5 - at[o] <= ThesisMaxAge
      OBVIOUS
    <3>1. r.conf = "unseasoned" /\ r.known /\ \A o \in r.cohort : r.checked[o] >= r.eligible
      BY <1>3, <2>2
    <3>2. r.eligible = u.at + ThesisSeason
      BY <1>1, <1>3, <2>2, <3>1 DEF ThesisOrigin
    <3>3. \A o \in u.cohort : o \in done
      BY <1>3, <1>8, <2>2
    <3>4. u.known
      BY <2>2, <3>1
    <3>5. \A o \in u.cohort : at[o] >= u.at + ThesisSeason /\ c5 - at[o] <= ThesisMaxAge
      BY <1>6, <2>2, <3>1, <3>2, <3>3
    <3> QED BY <3>4, <3>5
  <2> QED BY <1>3, <1>4, <2>2, <2>3, <2>5, <2>6 DEF ThesisKept, u, less, at
<1>9. CASE done # c1.cohort
  <2> DEFINE cycle == [at |-> start, done |-> done]
  <2>1. u = [r EXCEPT !.status = "unknown", !.cycle = cycle]
    BY <1>5, <1>9
  <2>2. cycle \in [at : Nat, done : SUBSET ThesisOwners] /\ cycle.at = start /\ cycle.done = done
    BY <1>7
  <2> HIDE DEF cycle
  <2>3. r = [at |-> r.at, wave |-> r.wave, conf |-> r.conf, eligible |-> r.eligible,
             known |-> r.known, status |-> r.status, cohort |-> r.cohort, cap |-> r.cap,
             checked |-> r.checked, sold |-> r.sold, seen |-> r.seen, cycle |-> r.cycle]
    BY <1>3 DEF ThesisRecord
  <2>4. u = [at |-> r.at, wave |-> r.wave, conf |-> r.conf, eligible |-> r.eligible,
             known |-> r.known, status |-> "unknown", cohort |-> r.cohort, cap |-> r.cap,
             checked |-> r.checked, sold |-> r.sold, seen |-> r.seen, cycle |-> cycle]
    BY <2>1, <2>3
  <2>5. u \in ThesisRecord
    BY <1>3, <2>2, <2>4 DEF ThesisRecord
  <2>6. /\ u.at = r.at /\ u.wave = r.wave /\ u.conf = r.conf /\ u.eligible = r.eligible
        /\ u.known = r.known /\ u.cap = r.cap /\ u.checked = r.checked
        /\ u.sold = r.sold /\ u.seen = r.seen /\ u.cycle = cycle
    BY <2>4
  <2>7. ThesisOrigin(u, c3)
    BY <1>1, <1>3, <2>6 DEF ThesisOrigin
  <2>8. ThesisCycle(u, at, c5)
    BY <1>6, <1>7, <2>2, <2>6 DEF ThesisCycle
  <2>9. ThesisExact(u, less, c8)
    BY <1>3, <2>6 DEF ThesisExact
  <2>10. ~(c1.conf # "confirmed" /\ u.conf = "confirmed")
    BY <1>3, <2>6
  <2> QED BY <1>3, <1>4, <2>5, <2>7, <2>8, <2>9, <2>10 DEF ThesisKept, u, less, at
<1> QED BY <1>8, <1>9

(* A thesis after a capture of some alerts: the one there was, carried on, *)
(* or one that begins with an alert of another time.                       *)
ThesisTaken(t, A) ==
  /\ t \in ThesisRecord
  /\ \/ c1 # TH!None /\ ThesisCarries(t, c1)
     \/ (c1 = TH!None \/ t.at # c1.at) /\ \E a \in A : ThesisBegins(t, a)

(* What is true of its wallets: it is followed on, or anew.                *)
ThesisTruth(t, low, readAt, told) ==
  /\ TH!Same(t) => low = c6 /\ readAt = c7 /\ told = c8
  /\ ~TH!Same(t) => /\ low = [o \in ThesisOwners |-> t.cap[o]] /\ readAt = t.checked
                    /\ told = [s \in ThesisSigs |-> 0]

(* A gap in the history changes neither.                                   *)
LEMMA ThesisTakenUnknown ==
  ASSUME NEW t, NEW A, ThesisTaken(t, A)
  PROVE  ThesisTaken(TH!Unknown(t), A)
<1> DEFINE u == TH!Unknown(t)
<1>1. t \in ThesisRecord
  BY DEF ThesisTaken
<1>2. /\ u \in ThesisRecord /\ ThesisCarries(u, t) /\ ~u.known /\ u.conf # "confirmed" /\ u.cycle = t.cycle
  BY <1>1, ThesisUnknown, Zenon
<1> SUFFICES ThesisTaken(u, A)
  OBVIOUS
<1> HIDE DEF u
<1>3. CASE c1 # TH!None /\ ThesisCarries(t, c1)
  BY <1>2, <1>3, ThesisCarriesOn DEF ThesisTaken
<1>4. CASE (c1 = TH!None \/ t.at # c1.at) /\ \E a \in A : ThesisBegins(t, a)
  <2>1. PICK a \in A : ThesisBegins(t, a)
    BY <1>4
  <2>2. ThesisBegins(u, a) /\ u.at = t.at
    BY <1>2, <2>1, Zenon DEF ThesisBegins, ThesisCarries
  <2> QED BY <1>2, <1>4, <2>2 DEF ThesisTaken
<1> QED BY <1>3, <1>4 DEF ThesisTaken

(* The thesis a capture leaves is kept.                                    *)
LEMMA ThesisTakenKept ==
  ASSUME ThesisAssumption, ThesisInv, NEW t, NEW A, ThesisTaken(t, A),
         NEW low, NEW readAt, NEW told, ThesisTruth(t, low, readAt, told)
  PROVE  /\ low \in [ThesisOwners -> Nat] /\ readAt \in [ThesisOwners -> Nat] /\ told \in [ThesisSigs -> Nat]
         /\ ThesisKept(t, low, readAt, told, c3 \cup A, c5)
         /\ TH!Same(t) => t.conf = c1.conf \/ t.conf # "confirmed"
<1>1. t \in ThesisRecord /\ c5 \in Nat /\ ThesisBought \in Nat
  BY DEF ThesisTaken, ThesisInv, ThesisAssumption
<1>2. CASE c1 # TH!None /\ ThesisCarries(t, c1)
  <2>1. TH!Same(t)
    BY <1>2 DEF TH!Same, ThesisCarries
  <2>2. low = c6 /\ readAt = c7 /\ told = c8
    BY <2>1 DEF ThesisTruth
  <2>3. /\ c1 \in ThesisRecord /\ ThesisKept(c1, c6, c7, c8, c3, c5) /\ c3 \subseteq c3 \cup A
        /\ c6 \in [ThesisOwners -> Nat] /\ c7 \in [ThesisOwners -> Nat] /\ c8 \in [ThesisSigs -> Nat]
    BY <1>2 DEF ThesisInv
  <2>4. ThesisKept(t, c6, c7, c8, c3 \cup A, c5)
    BY <1>1, <1>2, <2>3, ThesisCarriesKept
  <2>5. t.conf = c1.conf \/ t.conf # "confirmed"
    BY <1>2 DEF ThesisCarries
  <2> QED BY <2>2, <2>3, <2>4, <2>5
<1>3. CASE (c1 = TH!None \/ t.at # c1.at) /\ \E a \in A : ThesisBegins(t, a)
  <2>1. ~TH!Same(t)
    BY <1>3 DEF TH!Same
  <2>2. low = [o \in ThesisOwners |-> t.cap[o]] /\ readAt = t.checked /\ told = [s \in ThesisSigs |-> 0]
    BY <2>1 DEF ThesisTruth
  <2>3. PICK a \in A : ThesisBegins(t, a)
    BY <1>3
  <2>4. a \in c3 \cup A
    OBVIOUS
  <2>5. ThesisKept(t, low, readAt, told, c3 \cup A, c5)
    <3> DEFINE more == c3 \cup A
    <3>1. a \in more
      BY <2>4
    <3> HIDE DEF more
    <3>2. ThesisKept(t, [o \in ThesisOwners |-> t.cap[o]], readAt, [s \in ThesisSigs |-> 0], more, c5)
      BY <1>1, <2>3, <3>1, ThesisBeginsKept
    <3> QED BY <2>2, <3>2 DEF more
  <2>6. low \in [ThesisOwners -> Nat] /\ readAt \in [ThesisOwners -> Nat] /\ told \in [ThesisSigs -> Nat]
    BY <1>1, <2>2 DEF ThesisRecord
  <2> QED BY <2>1, <2>5, <2>6
<1> QED BY <1>2, <1>3 DEF ThesisTaken

(* It holds at first.                                                      *)
LEMMA ThesisInit ==
  ASSUME ThesisAssumption, TH!Init
  PROVE  ThesisInv
<1>1. c5 = 1 /\ c8 = [s \in ThesisSigs |-> 0] /\ c7 = [o \in ThesisOwners |-> IF c1 = TH!None THEN 0 ELSE 1]
      /\ c6 = IF c1 = TH!None THEN [o \in ThesisOwners |-> ThesisBought] ELSE c1.cap
  BY DEF TH!Init
<1>2. /\ c8 \in [ThesisSigs -> Nat] /\ c7 \in [ThesisOwners -> Nat] /\ c5 \in Nat /\ ThesisBought \in Nat
  BY <1>1 DEF ThesisAssumption
<1>3. CASE c1 = TH!None /\ c3 = {}
  <2>1. c6 \in [ThesisOwners -> Nat]
    BY <1>1, <1>2, <1>3
  <2>2. ThesisDated(c3, c5)
    BY <1>3 DEF ThesisDated
  <2> QED BY <1>2, <1>3, <2>1, <2>2 DEF ThesisInv
<1>4. ASSUME NEW kind \in ThesisKinds, NEW some \in SUBSET ThesisOwners \ {{}}, NEW status \in {"unknown", "invalidated"},
             c3 = {[at |-> 1, kind |-> kind]},
             c1 = [TH!Unknown(TH!Fresh([at |-> 1, kind |-> kind])) EXCEPT !.cohort = some, !.status = status]
      PROVE  ThesisInv
  <2> DEFINE a == [at |-> 1, kind |-> kind]
             x == TH!Unknown(TH!Fresh(a))
  <2>1. a \in ThesisAlert /\ a.at = 1 /\ c3 = {a}
    BY <1>4 DEF ThesisAlert
  <2> HIDE DEF a
  <2>2. x \in ThesisRecord /\ ThesisBegins(x, a)
    BY <2>1, ThesisIncoming
  <2>3. c1 = [x EXCEPT !.cohort = some, !.status = status]
    BY <1>4 DEF a
  <2> HIDE DEF x
  <2>4. x = [at |-> x.at, wave |-> x.wave, conf |-> x.conf, eligible |-> x.eligible,
             known |-> x.known, status |-> x.status, cohort |-> x.cohort, cap |-> x.cap,
             checked |-> x.checked, sold |-> x.sold, seen |-> x.seen, cycle |-> x.cycle]
    BY <2>2 DEF ThesisRecord
  <2>5. c1 = [at |-> x.at, wave |-> x.wave, conf |-> x.conf, eligible |-> x.eligible,
              known |-> x.known, status |-> status, cohort |-> some, cap |-> x.cap,
              checked |-> x.checked, sold |-> x.sold, seen |-> x.seen, cycle |-> x.cycle]
    BY <2>3, <2>4
  <2>6. c1 \in ThesisRecord
    BY <2>2, <2>5 DEF ThesisRecord
  <2>7. ThesisBegins(c1, a)
    BY <2>2, <2>5 DEF ThesisBegins
  <2>8. c1 # TH!None
    BY <2>6, ThesisIsSome
  <2>9. c6 = [o \in ThesisOwners |-> c1.cap[o]] /\ c6 \in [ThesisOwners -> Nat]
    BY <1>1, <1>2, <2>6, <2>8 DEF ThesisRecord
  <2>10. ThesisDated(c3, c5)
    BY <1>1, <2>1 DEF ThesisDated
  <2>11. a \in c3
    BY <2>1
  <2>12. ThesisKept(c1, [o \in ThesisOwners |-> c1.cap[o]], c7, [s \in ThesisSigs |-> 0], c3, c5)
    BY <1>2, <2>6, <2>7, <2>11, ThesisBeginsKept
  <2>13. ThesisKept(c1, c6, c7, c8, c3, c5)
    BY <1>1, <2>9, <2>12
  <2> QED BY <1>2, <2>6, <2>9, <2>10, <2>13 DEF ThesisInv
<1>5. \/ c1 = TH!None /\ c3 = {}
      \/ \E kind \in ThesisKinds, some \in SUBSET ThesisOwners \ {{}}, status \in {"unknown", "invalidated"} :
           /\ c3 = {[at |-> 1, kind |-> kind]}
           /\ c1 = [TH!Unknown(TH!Fresh([at |-> 1, kind |-> kind])) EXCEPT !.cohort = some, !.status = status]
  BY Zenon DEF TH!Init
<1> QED BY <1>3, <1>4, <1>5

(* A step keeps the invariant if it leaves a thesis that is kept.          *)
LEMMA ThesisNext ==
  ASSUME c1' \in ThesisRecord, ThesisDated(c3', c5'), c5' \in Nat,
         c6' \in [ThesisOwners -> Nat], c7' \in [ThesisOwners -> Nat], c8' \in [ThesisSigs -> Nat],
         ThesisKept(c1', c6', c7', c8', c3', c5')
  PROVE  ThesisInv'
BY DEF ThesisInv, ThesisDated, ThesisKept, ThesisOrigin, ThesisCycle, ThesisExact, ThesisTokens, ThesisRecord,
   ThesisAlert, Lesser, TH!None

(* A scan raises an alert at the present time, or none.                    *)
LEMMA ThesisRaised ==
  ASSUME ThesisAssumption, ThesisInv, NEW A \in {{}} \cup {{a} : a \in {x \in TH!Alert : x.at = c5}},
         A # {} => \A a \in c3 : a.at < c5
  PROVE  ThesisDated(c3 \cup A, c5)
<1>1. ThesisDated(c3, c5) /\ c5 \in Nat
  BY DEF ThesisInv
<1>2. CASE A = {}
  <2>1. c3 \cup A = c3
    BY <1>2
  <2> QED BY <1>1, <2>1
<1>3. CASE A # {}
  <2>1. PICK a \in TH!Alert : a.at = c5 /\ A = {a}
    BY <1>3
  <2>2. a \in ThesisAlert
    BY <2>1 DEF TH!Alert, ThesisAlert, ThesisAssumption
  <2>3. \A b \in c3 : b.at \in Nat /\ b.at < c5
    BY <1>1, <1>3 DEF ThesisDated, ThesisAlert
  <2> QED BY <1>1, <2>1, <2>2, <2>3 DEF ThesisDated
<1> QED BY <1>2, <1>3

(* Scans keep the invariant and confirm nothing.                           *)
LEMMA ThesisScan ==
  ASSUME ThesisAssumption, ThesisInv, TH!Scan
  PROVE  ThesisInv' /\ TH!OnlyByReads
<1>1. PICK A \in {{}} \cup {{a} : a \in {x \in TH!Alert : x.at = c5}}, gap \in BOOLEAN,
           sales \in {<<>>} \cup (ThesisSigs \X ThesisAmounts) :
         /\ A # {} => TH!Cardinality(c3) < ThesisAlerts /\ \A a \in c3 : a.at < c5
         /\ c3' = c3 \cup A
         /\ TH!Captured(A)[1] # TH!None
         /\ LET c == TH!Captured(A)
                t == IF gap THEN TH!Unknown(c[1]) ELSE c[1]
                u == IF sales = <<>> THEN t ELSE TH!Sold(t, sales[1], sales[2])
                news == {s \in ThesisSigs : sales # <<>> /\ s = sales[1] /\ ThesisSellers[s] \in t.cohort}
                sellers == {ThesisSellers[s] : s \in news}
                was == IF TH!Same(t) THEN <<c6, c7, c8>>
                       ELSE <<[o \in ThesisOwners |-> t.cap[o]], t.checked, [s \in ThesisSigs |-> 0]>>
            IN  /\ c1' = u /\ c2' = c[2]
                /\ c6' = was[1]
                /\ c7' = [o \in ThesisOwners |-> IF o \in sellers /\ u # t THEN 0 ELSE was[2][o]]
                /\ c8' = [s \in ThesisSigs |-> IF s \in news THEN TH!Max({was[3][s], sales[2]}) ELSE was[3][s]]
                /\ c4' = IF A # {} \/ u # t \/ ~TH!Same(t) \/ t.cohort # c1.cohort
                            \/ (t.cycle.at = 0 /\ \A o \in ThesisOwners : t.checked[o] = 0)
                         THEN "must" ELSE "may"
  BY DEF TH!Scan
<1>0. c5' = c5
  BY DEF TH!Scan
<1> DEFINE c == TH!Captured(A)
           t == IF gap THEN TH!Unknown(c[1]) ELSE c[1]
           u == IF sales = <<>> THEN t ELSE TH!Sold(t, sales[1], sales[2])
           news == {s \in ThesisSigs : sales # <<>> /\ s = sales[1] /\ ThesisSellers[s] \in t.cohort}
           sellers == {ThesisSellers[s] : s \in news}
           low == IF TH!Same(t) THEN c6 ELSE [o \in ThesisOwners |-> t.cap[o]]
           readAt == IF TH!Same(t) THEN c7 ELSE t.checked
           told == IF TH!Same(t) THEN c8 ELSE [s \in ThesisSigs |-> 0]
           reset == [o \in ThesisOwners |-> IF o \in sellers /\ u # t THEN 0 ELSE readAt[o]]
           new == [s \in ThesisSigs |-> IF s \in news THEN TH!Max({told[s], sales[2]}) ELSE told[s]]
<1>2. ThesisDated(c3 \cup A, c5)
  BY <1>1, ThesisRaised
<1>3. c1' = u /\ c6' = low /\ c7' = reset /\ c8' = new /\ c3' = c3 \cup A /\ c5' = c5
  <2> DEFINE was == IF TH!Same(t) THEN <<c6, c7, c8>>
                    ELSE <<[o \in ThesisOwners |-> t.cap[o]], t.checked, [s \in ThesisSigs |-> 0]>>
  <2>1. was[1] = low /\ was[2] = readAt /\ was[3] = told
    <3> HIDE DEF t
    <3>1. CASE TH!Same(t)
      BY <3>1
    <3>2. CASE ~TH!Same(t)
      BY <3>2
    <3> QED BY <3>1, <3>2
  <2>2. /\ c1' = u
        /\ c6' = was[1]
        /\ c7' = [o \in ThesisOwners |-> IF o \in sellers /\ u # t THEN 0 ELSE was[2][o]]
        /\ c8' = [s \in ThesisSigs |-> IF s \in news THEN TH!Max({was[3][s], sales[2]}) ELSE was[3][s]]
    BY <1>1, Zenon
  <2> HIDE DEF was, low, readAt, told, t, u, news, sellers
  <2> QED BY <1>0, <1>1, <2>1, <2>2
<1>4. ThesisTaken(t, A)
  <2>1. A = {} /\ c1 = TH!None => c[1] = TH!None
    BY DEF TH!Captured
  <2>2. c1 # TH!None \/ A # {}
    <3> HIDE DEF c
    <3> QED BY <1>1, <2>1 DEF c
  <2>3. ThesisTaken(c[1], A)
    BY <1>2, <2>2, ThesisCaptured DEF ThesisTaken
  <2> HIDE DEF c
  <2> QED BY <2>3, ThesisTakenUnknown
<1> HIDE DEF t
<1>5. ThesisTruth(t, low, readAt, told)
  BY DEF ThesisTruth
<1> HIDE DEF low, readAt, told
<1>6. /\ low \in [ThesisOwners -> Nat] /\ readAt \in [ThesisOwners -> Nat] /\ told \in [ThesisSigs -> Nat]
      /\ ThesisKept(t, low, readAt, told, c3 \cup A, c5)
      /\ TH!Same(t) => t.conf = c1.conf \/ t.conf # "confirmed"
      /\ t \in ThesisRecord /\ c5 \in Nat
  BY <1>4, <1>5, ThesisTakenKept DEF ThesisTaken, ThesisInv
<1>7. /\ u \in ThesisRecord /\ u.at = t.at /\ u.conf = t.conf
      /\ ThesisKept(u, low, reset, new, c3 \cup A, c5)
      /\ reset \in [ThesisOwners -> Nat] /\ new \in [ThesisSigs -> Nat]
  <2>1. CASE sales = <<>>
    <3>1. u = t /\ reset = readAt /\ new = told
      <4>1. u = t /\ news = {}
        BY <2>1
      <4> HIDE DEF u, news
      <4> QED BY <1>6, <4>1
    <3> HIDE DEF u, reset, new
    <3> QED BY <1>6, <3>1
  <2>2. CASE sales # <<>>
    <3>1. PICK s \in ThesisSigs, amount \in Nat : sales = <<s, amount>>
      BY <1>1, <2>2 DEF ThesisAssumption
    <3>2. sales[1] = s /\ sales[2] = amount
      BY <3>1
    <3>3. u = TH!Sold(t, s, amount)
      BY <2>2, <3>2
    <3>4. u = t => reset = readAt
      <4> HIDE DEF u
      <4> QED BY <1>6
    <3>5. reset \in [ThesisOwners -> Nat]
      <4> HIDE DEF u, sellers
      <4> QED BY <1>6
    <3>6. new = IF ThesisSellers[s] \in t.cohort
                THEN [told EXCEPT ![s] = TH!Max({told[s], amount})] ELSE told
      <4>1. \A q \in ThesisSigs : q \in news <=> q = s /\ ThesisSellers[s] \in t.cohort
        BY <2>2, <3>2
      <4> HIDE DEF news
      <4>2. CASE ThesisSellers[s] \in t.cohort
        BY <1>6, <3>2, <4>1, <4>2
      <4>3. CASE ThesisSellers[s] \notin t.cohort
        BY <1>6, <4>1, <4>3
      <4> QED BY <4>2, <4>3
    <3> HIDE DEF u, reset, new
    <3>7. ThesisSelling(t, s, amount, low, readAt, reset, told, new, c3 \cup A, c5)
      BY <1>6, <3>3, <3>4, <3>6 DEF ThesisSelling
    <3>8. /\ u \in ThesisRecord /\ u.at = t.at /\ u.conf = t.conf /\ new \in [ThesisSigs -> Nat]
          /\ ThesisKept(u, low, reset, new, c3 \cup A, c5)
      BY <3>3, <3>7, ThesisSells
    <3> QED BY <3>5, <3>8
  <2> QED BY <2>1, <2>2
<1> HIDE DEF u, reset, new
<1>8. ThesisInv'
  BY <1>2, <1>3, <1>6, <1>7, ThesisNext
<1>9. TH!OnlyByReads
  BY <1>3, <1>6, <1>7 DEF TH!OnlyByReads, TH!Confirms, TH!Same
<1> QED BY <1>8, <1>9

(* So do starts.                                                           *)
LEMMA ThesisBootstrap ==
  ASSUME ThesisAssumption, ThesisInv, TH!Bootstrap
  PROVE  ThesisInv' /\ TH!OnlyByReads
<1> DEFINE t == TH!Captured(c3)[1]
<1>1. /\ c3 # {} /\ c1' = t /\ c3' = c3 /\ c5' = c5
      /\ TH!Same(t) => c6' = c6 /\ c7' = c7 /\ c8' = c8
      /\ ~TH!Same(t) => /\ c6' = [o \in ThesisOwners |-> t.cap[o]]
                        /\ c7' = t.checked /\ c8' = [s \in ThesisSigs |-> 0]
  BY DEF TH!Bootstrap, TH!truth
<1>2. ThesisDated(c3, c5) /\ c3 \cup c3 = c3 /\ c5 \in Nat
  BY DEF ThesisInv
<1>3. ThesisTaken(t, c3)
  BY <1>1, <1>2, ThesisCaptured DEF ThesisTaken
<1> HIDE DEF t
<1>4. ThesisTruth(t, c6', c7', c8')
  BY <1>1 DEF ThesisTruth
<1>5. /\ c6' \in [ThesisOwners -> Nat] /\ c7' \in [ThesisOwners -> Nat] /\ c8' \in [ThesisSigs -> Nat]
      /\ ThesisKept(t, c6', c7', c8', c3 \cup c3, c5)
      /\ TH!Same(t) => t.conf = c1.conf \/ t.conf # "confirmed"
      /\ t \in ThesisRecord
  BY <1>3, <1>4, ThesisTakenKept DEF ThesisTaken
<1>6. ThesisInv'
  BY <1>1, <1>2, <1>5, ThesisNext
<1>7. TH!OnlyByReads
  BY <1>1, <1>5 DEF TH!OnlyByReads, TH!Confirms, TH!Same
<1> QED BY <1>6, <1>7

(* Checks of balances keep it, and confirm by whole cycles only.           *)
LEMMA ThesisRecheck ==
  ASSUME ThesisAssumption, ThesisInv, TH!Recheck
  PROVE  ThesisInv' /\ TH!OnlyByReads
<1>1. c1 # TH!None /\ c3' = c3 /\ c5' = c5 /\ c8' = c8
  BY DEF TH!Recheck
<1>2. /\ c1 \in ThesisRecord /\ ThesisDated(c3, c5) /\ c5 \in Nat /\ c8 \in [ThesisSigs -> Nat]
      /\ c6 \in [ThesisOwners -> Nat] /\ c7 \in [ThesisOwners -> Nat]
      /\ ThesisKept(c1, c6, c7, c8, c3, c5)
  BY <1>1 DEF ThesisInv
<1>3. CASE c1.status = "invalidated"
  <2>1. c1' = c1 /\ c6' = c6 /\ c7' = c7
    BY <1>3 DEF TH!Recheck
  <2>2. ThesisInv'
    BY <1>1, <1>2, <2>1, ThesisNext
  <2> QED BY <2>1, <2>2 DEF TH!OnlyByReads, TH!Confirms
<1>4. CASE c1.status # "invalidated"
  <2>1. PICK ok \in SUBSET (c1.cohort \ TH!StillDone(c1)) : \E read \in [ok -> ThesisReads] :
          /\ c1' = TH!Rechecked(c1, read)
          /\ c6' = [o \in ThesisOwners |-> IF o \in ok THEN TH!Min({c6[o], read[o]}) ELSE c6[o]]
          /\ c7' = [o \in ThesisOwners |-> IF o \in ok THEN c5 ELSE c7[o]]
    BY <1>4, Zenon DEF TH!Recheck
  <2>2. PICK read \in [ok -> ThesisReads] :
          /\ c1' = TH!Rechecked(c1, read)
          /\ c6' = [o \in ThesisOwners |-> IF o \in ok THEN TH!Min({c6[o], read[o]}) ELSE c6[o]]
          /\ c7' = [o \in ThesisOwners |-> IF o \in ok THEN c5 ELSE c7[o]]
    BY <2>1
  <2> DEFINE u == TH!Rechecked(c1, read)
             less == [o \in ThesisOwners |-> IF o \in ok THEN TH!Min({c6[o], read[o]}) ELSE c6[o]]
             at == [o \in ThesisOwners |-> IF o \in ok THEN c5 ELSE c7[o]]
  <2>3. /\ u \in ThesisRecord /\ less \in [ThesisOwners -> Nat] /\ at \in [ThesisOwners -> Nat]
        /\ ThesisKept(u, less, at, c8, c3, c5)
        /\ c1.conf # "confirmed" /\ u.conf = "confirmed" =>
             /\ u.known
             /\ \A o \in u.cohort : at[o] >= u.at + ThesisSeason /\ c5 - at[o] <= ThesisMaxAge
    BY <1>1, ThesisRechecks
  <2>4. c1' = u /\ c6' = less /\ c7' = at
    BY <2>2
  <2> HIDE DEF u, less, at
  <2>5. ThesisInv'
    BY <1>1, <1>2, <2>3, <2>4, ThesisNext
  <2>6. TH!OnlyByReads
    BY <2>3, <2>4, Zenon DEF TH!OnlyByReads, TH!Confirms
  <2> QED BY <2>5, <2>6
<1> QED BY <1>3, <1>4

(* Time may pass.                                                          *)
LEMMA ThesisWaits ==
  ASSUME ThesisInv, c1' = c1, c3' = c3, c6' = c6, c7' = c7, c8' = c8, c5' = c5 \/ c5' = c5 + 1
  PROVE  ThesisInv'
<1>1. c5 \in Nat /\ c5' \in Nat /\ c5 <= c5'
  BY DEF ThesisInv
<1>2. ThesisDated(c3', c5')
  <2>1. \A a \in c3 : a.at \in Nat /\ a.at <= c5
    BY DEF ThesisInv, ThesisDated, ThesisAlert
  <2> QED BY <1>1, <2>1 DEF ThesisInv, ThesisDated
<1>3. CASE c1 = TH!None
  <2>1. c1' = TH!None
    BY <1>3
  <2> QED BY <1>1, <1>2, <2>1 DEF ThesisInv, TH!None, ThesisRecord
<1>4. CASE c1 # TH!None
  <2>1. c1 \in ThesisRecord /\ ThesisKept(c1, c6, c7, c8, c3, c5)
    BY <1>4 DEF ThesisInv
  <2>2. c1.cycle.at \in Nat
    BY <2>1 DEF ThesisRecord
  <2>3. ThesisCycle(c1, c7, c5')
    BY <1>1, <2>1, <2>2 DEF ThesisKept, ThesisCycle
  <2>4. ThesisKept(c1, c6, c7, c8, c3, c5')
    BY <2>1, <2>3 DEF ThesisKept
  <2> QED BY <1>1, <1>2, <2>1, <2>4, ThesisNext DEF ThesisInv
<1> QED BY <1>3, <1>4

(* Every step keeps the invariant, and only reads confirm.                 *)
LEMMA ThesisStep ==
  ASSUME ThesisAssumption, ThesisInv, TH!Next
  PROVE  ThesisInv' /\ TH!OnlyByReads
<1>1. CASE TH!Scan
  BY <1>1, ThesisScan
<1>2. CASE TH!Bootstrap
  BY <1>2, ThesisBootstrap
<1>3. CASE TH!Recheck
  BY <1>3, ThesisRecheck
<1>4. CASE TH!Skip \/ TH!Wait
  <2>1. c1' = c1 /\ c3' = c3 /\ c6' = c6 /\ c7' = c7 /\ c8' = c8 /\ (c5' = c5 \/ c5' = c5 + 1)
    BY <1>4 DEF TH!Skip, TH!Wait, TH!truth
  <2>2. ThesisInv'
    BY <2>1, ThesisWaits
  <2> QED BY <2>1, <2>2 DEF TH!OnlyByReads, TH!Confirms
<1> QED BY <1>1, <1>2, <1>3, <1>4 DEF TH!Next

(* It is claimed of behaviours of this part only.                          *)
ThesisKeptInv == part = "thesis" => ThesisInv

(* The invariant holds throughout, and no step confirms but by reads.      *)
LEMMA ThesisHolds ==
  Spec => []ThesisKeptInv /\ [][part = "thesis" => TH!OnlyByReads]_<<part, c1, c2, c3, c4, c5, c6, c7, c8, c9, c10>>
<1>1. Init => ThesisKeptInv
  <2>1. Init /\ part = "thesis" => TH!Init
    BY DEF Init
  <2> QED BY <2>1, ThesisAssumption, ThesisInit DEF ThesisKeptInv
<1>2. ThesisKeptInv /\ [Next]_<<part, c1, c2, c3, c4, c5, c6, c7, c8, c9, c10>>
        => ThesisKeptInv' /\ [part = "thesis" => TH!OnlyByReads]_<<part, c1, c2, c3, c4, c5, c6, c7, c8, c9, c10>>
  <2> SUFFICES ASSUME ThesisKeptInv, Next
               PROVE  ThesisKeptInv' /\ (part = "thesis" => TH!OnlyByReads)
    <3>1. CASE UNCHANGED <<part, c1, c2, c3, c4, c5, c6, c7, c8, c9, c10>>
      <4>1. part' = part /\ c1' = c1 /\ c3' = c3 /\ c6' = c6 /\ c7' = c7 /\ c8' = c8 /\ c5' = c5
        BY <3>1
      <4>2. ASSUME ThesisKeptInv, part = "thesis" PROVE ThesisInv'
        <5>1. ThesisInv
          BY <4>2 DEF ThesisKeptInv
        <5> QED BY <4>1, <5>1, ThesisWaits
      <4> QED BY <3>1, <4>1, <4>2 DEF ThesisKeptInv
    <3> QED BY <3>1
  <2>1. part' = part
    BY DEF Next
  <2> SUFFICES ASSUME part = "thesis" PROVE ThesisInv' /\ TH!OnlyByReads
    BY <2>1 DEF ThesisKeptInv
  <2>2. ThesisInv /\ TH!Next /\ ThesisAssumption
    BY ThesisAssumption DEF ThesisKeptInv, Next
  <2> QED BY <2>2, ThesisStep
<1> QED BY <1>1, <1>2, PTL DEF Spec

(* Whatever is captured, sold, bought back or read, and in whatever order, *)
(* a wallet is credited with exactly the least balance read of it, or with *)
(* what its reported sales leave (record_thesis_sales,                     *)
(* recheck_signal_thesis).                                                 *)
THEOREM CapsAreExact == Spec => []CapIsExact
<1>1. ThesisAssumption /\ ThesisKeptInv => CapIsExact
  <2> SUFFICES ASSUME ThesisAssumption, ThesisInv, c1 # TH!None, NEW o \in c1.cohort
               PROVE  c1.cap[o] = TH!Min({c6[o], IF TH!Reported(o) > ThesisBought THEN 0
                                                 ELSE ThesisBought - TH!Reported(o)})
    BY DEF CapIsExact, TH!CapIsExact, ThesisKeptInv
  <2>1. /\ c1 \in ThesisRecord /\ c6 \in [ThesisOwners -> Nat] /\ c8 \in [ThesisSigs -> Nat]
        /\ ThesisExact(c1, c6, c8) /\ ThesisBought \in Nat /\ IsFiniteSet(ThesisSigs)
    BY DEF ThesisInv, ThesisKept, ThesisAssumption
  <2>2. o \in ThesisOwners /\ c6[o] \in Nat
    BY <2>1 DEF ThesisRecord
  <2> DEFINE r == Cardinality(ThesisTokens(c8, o))
             left == IF r > ThesisBought THEN 0 ELSE ThesisBought - r
  <2>3. TH!Reported(o) = r
    BY ThesisCardinality DEF TH!Reported, ThesisTokens
  <2>4. r \in Nat
    BY <2>1, ThesisTokensFinite
  <2>5. c1.sold[o] = Lesser(ThesisBought, r) /\ c1.cap[o] = Lesser(c6[o], ThesisBought - c1.sold[o])
    BY <2>1, <2>2 DEF ThesisExact
  <2> HIDE DEF r
  <2>6. left \in Nat /\ ThesisBought - c1.sold[o] = left
    BY <2>1, <2>4, <2>5 DEF Lesser
  <2> HIDE DEF left
  <2>7. TH!Min({c6[o], left}) = Lesser(c6[o], left)
    BY <2>2, <2>6, ThesisLeast
  <2> QED BY <2>3, <2>5, <2>6, <2>7 DEF left
<1>2. ThesisAssumption
  BY ThesisAssumption
<1> QED BY <1>1, <1>2, ThesisHolds, PTL

(* No thesis is confirmed but by reads of all its wallets in one cycle,    *)
(* made in season and after their last reported sales, with nothing        *)
(* unknown of them, across captures, starts and gaps                       *)
(* (recheck_signal_thesis).                                                *)
THEOREM ReadsConfirm == Spec => ConfirmedByReads
BY ThesisHolds, PTL DEF ConfirmedByReads

===============================================================================
