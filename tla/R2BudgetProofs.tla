--------------------------- MODULE R2BudgetProofs ---------------------------
(***************************************************************************)
(* The catalogue of the R2 budget guard bounds every stored object, a      *)
(* pause is announced and lasts, a batch runs on the day it is charged to, *)
(* and what R2 bills in one of its cycles stays within the free allowance, *)
(* for any number of invocations, keys, operations and plans.              *)
(***************************************************************************)
EXTENDS R2Budget, FiniteSetTheorems, WellFoundedInduction, TLAPS

Initialized == acct.initialized
Deletable(key) == \E op \in Singles : op.kind = "delete" /\ op.key = key

(* The shapes the argument needs.                                          *)
Shapes ==
  /\ "initialized" \in DOMAIN acct
  /\ catalogue \in [Keys -> Row]
  /\ bucket \in [Keys -> Nat]
  /\ inventory \in [month : Nat \cup {Never}, sizes : [Keys -> Nat]]
  /\ client \in [Clients -> Invocation]
  /\ now \in Nat

(* An invocation holds a plan, or one of the single operations.            *)
Origin ==
  \A c \in Clients :
    /\ client[c].phase = "calling" => client[c].ops \in Plans
    /\ client[c].phase = "open" =>
         /\ DOMAIN client[c].slot = DOMAIN client[c].ops
         /\ \/ client[c].ops \in Plans
            \/ \E op \in Singles : client[c].ops = <<op>>
    /\ client[c].phase = "deleted" =>
         \E op \in Singles : op.kind = "delete" /\ client[c].ops = <<op>>

(* A PUT that was admitted and may still land has its bytes in the         *)
(* catalogue, in a row no report of a deletion can remove.                 *)
AdmittedPut(c, i) ==
  client[c].phase = "open" /\ i \in DOMAIN client[c].ops /\ client[c].ops[i].kind = "put"
Admitted ==
  \A c \in Clients : \A i \in DOMAIN client[c].ops :
    AdmittedPut(c, i) =>
      LET op == client[c].ops[i] IN
      /\ Initialized
      /\ op.bytes + Metadata <= catalogue[op.key].bytes
      /\ catalogue[op.key].retained \/ ~Deletable(op.key)

(* A deletion that is about to be reported has left no object behind,      *)
(* unless the row is marked.                                               *)
Removed ==
  \A c \in Clients :
    client[c].phase = "deleted" =>
      LET key == client[c].ops[1].key IN
      catalogue[key].retained \/ bucket[key] = 0

(* Before the bootstrap nothing is counted and objects only disappear.     *)
Unborn ==
  ~Initialized =>
    /\ \A key \in Keys : catalogue[key] = NoRow
    /\ inventory # NoInventory => \A key \in Keys : bucket[key] <= inventory.sizes[key]

IInv == Shapes /\ Origin /\ Admitted /\ Removed /\ Unborn /\ CatalogueCovers

-----------------------------------------------------------------------------
(* Numbers.                                                                *)

(* A non-empty set of natural numbers has a smallest element.              *)
LEMMA Least ==
  ASSUME NEW T \in SUBSET Nat, T # {}
  PROVE  \E n \in T : \A m \in T : n <= m
<1> DEFINE R == {p \in Nat \X Nat : p[1] < p[2]}
<1>1. IsWellFoundedOn(R, Nat)
  <2>1. OpToRel(<, Nat) = {p \in Nat \X Nat : p[1] < p[2]}
    BY DEF OpToRel
  <2> QED BY <2>1, NatLessThanWellFounded
<1>2. T \subseteq Nat
  OBVIOUS
<1>3. PICK x \in T : \A y \in T : ~ (<<y, x>> \in R)
  <2> HIDE DEF R
  <2> QED BY <1>1, <1>2, WFMin
<1>4. \A y \in T : x <= y
  <2> TAKE y \in T
  <2>1. <<y, x>> \in Nat \X Nat
    BY <1>2
  <2>2. ~(y < x)
    BY <1>3, <2>1
  <2> QED BY <2>2, <1>2
<1> QED BY <1>4

(* A non-empty bounded set of natural numbers has a largest element.       *)
LEMMA MaxOfBounded ==
  ASSUME NEW B \in Nat, NEW S \in SUBSET (0 .. B), S # {}
  PROVE  Max(S) \in S /\ \A y \in S : y <= Max(S)
<1> DEFINE T == {B - x : x \in S}
<1>1. T \in SUBSET Nat /\ T # {}
  <2>1. \A x \in S : B - x \in Nat
    OBVIOUS
  <2>2. \A t \in T : t \in Nat
    BY <2>1
  <2>3. T # {}
    OBVIOUS
  <2> QED BY <2>2, <2>3
<1>2. PICK n \in T : \A m \in T : n <= m
  <2> HIDE DEF T
  <2> QED BY <1>1, Least
<1>3. PICK x \in S : n = B - x
  BY <1>2
<1>4. \A y \in S : x >= y
  <2> TAKE y \in S
  <2>1. n <= B - y
    BY <1>2
  <2> QED BY <2>1, <1>3
<1>5. Max(S) \in S /\ \A y \in S : Max(S) >= y
  BY <1>4 DEF Max
<1> QED BY <1>5

(* The larger of two numbers.                                              *)
LEMMA MaxOfPair ==
  ASSUME NEW a \in Nat, NEW b \in Nat
  PROVE  Max({a, b}) \in {a, b} /\ a <= Max({a, b}) /\ b <= Max({a, b})
<1>1. \E x \in {a, b} : \A y \in {a, b} : x >= y
  OBVIOUS
<1> QED BY <1>1 DEF Max

-----------------------------------------------------------------------------
(* The operators of the model.                                             *)

(* Evaluating the account never makes it initialized or uninitialized.     *)
LEMMA EvaluateKeeps ==
  ASSUME NEW s, NEW t, "initialized" \in DOMAIN s
  PROVE  /\ "initialized" \in DOMAIN Evaluate(s, t)
         /\ Evaluate(s, t).initialized = s.initialized
<1> DEFINE Same(r) == "initialized" \in DOMAIN r /\ r.initialized = s.initialized
<1>1. Same(Prune(s, t))
  BY DEF Prune
<1>2. ASSUME NEW r, Same(r) PROVE Same(ClearRolling(r))
  BY <1>2 DEF ClearRolling, Unpause
<1>3. ASSUME NEW r, Same(r) PROVE Same(Rollover(r, t))
  BY <1>3 DEF Rollover, Unpause
<1>4. ASSUME NEW r, Same(r) PROVE Same(Latch(r))
  BY <1>4 DEF Latch, Pause
<1>5. ASSUME NEW r, NEW kind, Same(r) PROVE Same(Notify(r, kind))
  BY <1>5 DEF Notify
<1>6. ASSUME NEW r, NEW was, Same(r) PROVE Same(Announce(r, was))
  <2> DEFINE u == IF was /\ ~r.paused THEN Notify(r, "resumed") ELSE r
  <2>1. Same(u)
    BY <1>5, <1>6
  <2>2. Same(Notify(u, "paused")) /\ Same(Notify(u, "warning"))
    BY <2>1, <1>5
  <2>3. Announce(r, was) \in {Notify(u, "paused"), Notify(u, "warning"), u}
    BY DEF Announce
  <2> QED BY <2>1, <2>2, <2>3
<1> DEFINE rolled == Rollover(ClearRolling(Prune(s, t)), t)
<1>7. Same(rolled)
  BY <1>1, <1>2, <1>3
<1>8. Same(Announce(Latch(rolled), s.paused))
  BY <1>7, <1>4, <1>6
<1>9. Evaluate(s, t) \in {rolled, Announce(Latch(rolled), s.paused)}
  BY DEF Evaluate
<1> QED BY <1>7, <1>8, <1>9

(* Neither does a reservation.                                             *)
LEMMA ReservedKeeps ==
  ASSUME NEW s, NEW ops, "initialized" \in DOMAIN s
  PROVE  /\ "initialized" \in DOMAIN Reserved(s, ops)
         /\ Reserved(s, ops).initialized = s.initialized
<1> DEFINE charged == Charge(s, now, Counts(ops), Delta(ops))
           paused == Notify(Pause(s, Refusal(s, ops)), "paused")
<1>1. "initialized" \in DOMAIN charged /\ charged.initialized = s.initialized
  BY DEF Charge, ChargeDay
<1>2. "initialized" \in DOMAIN Evaluate(charged, now) /\ Evaluate(charged, now).initialized = s.initialized
  <2> HIDE DEF charged
  <2> QED BY <1>1, EvaluateKeeps
<1>3. "initialized" \in DOMAIN paused /\ paused.initialized = s.initialized
  BY DEF Pause, Notify
<1>4. Reserved(s, ops) \in {s, paused, Evaluate(charged, now)}
  BY DEF Reserved
<1> QED BY <1>2, <1>3, <1>4

(* Every PUT of a list of operations is within the list's bound for its    *)
(* key, and the bound is zero for a key it does not put.                   *)
LEMMA PutBytesBounds ==
  ASSUME NEW ops \in Seq(Operation), NEW key \in Keys
  PROVE  /\ PutBytes(ops, key) \in Nat
         /\ \A i \in DOMAIN ops : ops[i].kind = "put" /\ ops[i].key = key =>
              /\ ops[i].bytes + Metadata <= PutBytes(ops, key)
              /\ PutBytes(ops, key) > 0
<1> DEFINE puts == {j \in DOMAIN ops : ops[j].kind = "put" /\ ops[j].key = key}
           sizes == {ops[i].bytes + Metadata : i \in puts}
<1>1. PutLimit \in Nat /\ PutLimit + Metadata \in Nat /\ Metadata \in Nat /\ Metadata > 0
  BY TimeAssumption
<1>2. \A i \in DOMAIN ops : ops[i].bytes \in 0 .. PutLimit
  BY DEF Operation
<1>3. sizes \in SUBSET (0 .. PutLimit + Metadata)
  <2>1. \A i \in puts : ops[i].bytes + Metadata \in 0 .. PutLimit + Metadata
    BY <1>1, <1>2
  <2> QED BY <2>1
<1>4. CASE sizes = {}
  <2>1. puts = {}
    BY <1>4
  <2> QED BY <1>4, <2>1 DEF PutBytes
<1>5. CASE sizes # {}
  <2>1. Max(sizes) \in sizes /\ \A y \in sizes : y <= Max(sizes)
    <3> HIDE DEF sizes
    <3> QED BY <1>1, <1>3, <1>5, MaxOfBounded
  <2>2. PutBytes(ops, key) = Max(sizes)
    BY <1>5 DEF PutBytes
  <2>3. Max(sizes) \in Nat
    BY <2>1, <1>3
  <2>4. ASSUME NEW i \in DOMAIN ops, ops[i].kind = "put" /\ ops[i].key = key
        PROVE  ops[i].bytes + Metadata <= Max(sizes) /\ Max(sizes) > 0
    <3>1. ops[i].bytes + Metadata \in sizes
      BY <2>4
    <3>2. ops[i].bytes + Metadata <= Max(sizes)
      <4> HIDE DEF sizes
      <4> QED BY <2>1, <3>1
    <3>3. ops[i].bytes + Metadata > 0
      BY <1>1, <1>2
    <3> HIDE DEF sizes
    <3> QED BY <3>2, <3>3, <2>3, <1>1, <1>2
  <2> QED BY <2>2, <2>3, <2>4
<1> QED BY <1>4, <1>5

(* Raising the catalogue lowers no row, removes no mark, and covers every  *)
(* PUT of the list; a batch marks the rows it raises.                      *)
LEMMA RaiseCovers ==
  ASSUME catalogue \in [Keys -> Row], NEW ops \in Seq(Operation), NEW retain \in BOOLEAN
  PROVE  LET raised == Raise(ops, retain) IN
         /\ raised \in [Keys -> Row]
         /\ \A key \in Keys :
              /\ catalogue[key].bytes <= raised[key].bytes
              /\ catalogue[key].retained => raised[key].retained
         /\ \A i \in DOMAIN ops : ops[i].kind = "put" =>
              /\ ops[i].key \in Keys
              /\ ops[i].bytes + Metadata <= raised[ops[i].key].bytes
              /\ retain => raised[ops[i].key].retained
<1> DEFINE raised == Raise(ops, retain)
<1>1. \A key \in Keys : PutBytes(ops, key) \in Nat /\ catalogue[key].bytes \in Nat
                        /\ catalogue[key].retained \in BOOLEAN /\ catalogue[key] \in Row
  BY PutBytesBounds DEF Row
<1>2. ASSUME NEW key \in Keys, PutBytes(ops, key) = 0
      PROVE  raised[key] = catalogue[key]
  BY <1>2 DEF Raise
<1>3. ASSUME NEW key \in Keys, PutBytes(ops, key) # 0
      PROVE  /\ raised[key] \in Row
             /\ PutBytes(ops, key) <= raised[key].bytes
             /\ catalogue[key].bytes <= raised[key].bytes
             /\ raised[key].retained = (retain \/ catalogue[key].retained)
  <2> DEFINE m == Max({catalogue[key].bytes, PutBytes(ops, key)})
  <2>1. m \in Nat /\ catalogue[key].bytes <= m /\ PutBytes(ops, key) <= m
    BY <1>1, MaxOfPair
  <2>2. raised[key] = [bytes |-> m, retained |-> retain \/ catalogue[key].retained]
    BY <1>3 DEF Raise
  <2> HIDE DEF m, raised
  <2> QED BY <2>1, <2>2, <1>1 DEF Row
<1>4. DOMAIN raised = Keys /\ raised = [key \in Keys |-> raised[key]]
  BY DEF Raise
<1>5. \A key \in Keys : raised[key] \in Row
  BY <1>1, <1>2, <1>3
<1>6. raised \in [Keys -> Row]
  <2> HIDE DEF raised
  <2> QED BY <1>4, <1>5
<1>7. \A key \in Keys : /\ catalogue[key].bytes <= raised[key].bytes
                        /\ catalogue[key].retained => raised[key].retained
  <2> HIDE DEF raised
  <2> QED BY <1>1, <1>2, <1>3
<1>8. ASSUME NEW i \in DOMAIN ops, ops[i].kind = "put"
      PROVE  /\ ops[i].key \in Keys
             /\ ops[i].bytes + Metadata <= raised[ops[i].key].bytes
             /\ retain => raised[ops[i].key].retained
  <2>1. ops[i].key \in Keys /\ ops[i].bytes \in Nat
    BY <1>8, TimeAssumption DEF Operation
  <2>2. ops[i].bytes + Metadata <= PutBytes(ops, ops[i].key) /\ PutBytes(ops, ops[i].key) > 0
    BY <1>8, <2>1, PutBytesBounds
  <2>3. /\ PutBytes(ops, ops[i].key) # 0
        /\ PutBytes(ops, ops[i].key) \in Nat
    BY <2>2, <2>1, <1>1
  <2>4. /\ raised[ops[i].key] \in Row
        /\ PutBytes(ops, ops[i].key) <= raised[ops[i].key].bytes
        /\ raised[ops[i].key].retained = (retain \/ catalogue[ops[i].key].retained)
    <3> HIDE DEF raised
    <3> QED BY <2>1, <2>3, <1>3
  <2>5. ops[i].bytes + Metadata <= raised[ops[i].key].bytes
    <3>1. Metadata \in Nat /\ raised[ops[i].key].bytes \in Nat
      <4> HIDE DEF raised
      <4> QED BY <2>4, TimeAssumption DEF Row
    <3> HIDE DEF raised
    <3> QED BY <3>1, <2>1, <2>2, <2>3, <2>4
  <2>6. retain => raised[ops[i].key].retained
    <3> HIDE DEF raised
    <3> QED BY <2>4
  <2> QED BY <2>1, <2>5, <2>6
<1> HIDE DEF raised
<1>9. QED BY <1>6, <1>7, <1>8 DEF raised

-----------------------------------------------------------------------------
(* The steps.                                                              *)

(* What an open invocation holds is a list of operations, and a batch      *)
(* holds no DELETE.                                                        *)
LEMMA HeldOperations ==
  ASSUME Origin, NEW c \in Clients, client[c].phase = "open"
  PROVE  /\ client[c].ops \in Seq(Operation)
         /\ \A i \in DOMAIN client[c].ops :
              client[c].ops[i].kind = "delete" =>
                \E op \in Singles : op.kind = "delete" /\ client[c].ops = <<op>>
<1>1. CASE client[c].ops \in Plans
  BY <1>1, OperationAssumption
<1>2. CASE \E op \in Singles : client[c].ops = <<op>>
  <2>1. PICK op \in Singles : client[c].ops = <<op>>
    BY <1>2
  <2>2. op \in Operation
    BY OperationAssumption
  <2>3. <<op>> \in Seq(Operation) /\ DOMAIN <<op>> = {1} /\ <<op>>[1] = op
    BY <2>2
  <2> QED BY <2>1, <2>3
<1> QED BY <1>1, <1>2 DEF Origin

LEMMA CurrentKeeps ==
  ASSUME Shapes
  PROVE  "initialized" \in DOMAIN Current /\ Current.initialized = acct.initialized
BY EvaluateKeeps DEF Shapes, Current

(* An expiry is a number.                                                  *)
LEMMA ExpiryType ==
  ASSUME now \in Nat
  PROVE  Expiry(now) \in Int
<1>1. Day(now) \in Int
  BY TimeAssumption DEF Day
<1> DEFINE a == now + BatchTicks
           b == (Day(now) + 1) * DayTicks - MarginTicks
<1>2. a \in Int /\ b \in Int
  BY <1>1, TimeAssumption
<1>3. \E x \in {a, b} : \A y \in {a, b} : x <= y
  <2> HIDE DEF a, b
  <2> QED BY <1>2
<1>4. Min({a, b}) \in {a, b}
  <2> HIDE DEF a, b
  <2> QED BY <1>3 DEF Min
<1> QED BY <1>2, <1>4 DEF Expiry

(* A reservation that is allowed opens an invocation whose PUTs are        *)
(* covered; nothing that was covered is lost.                              *)
LEMMA OpeningPreserves ==
  ASSUME IInv, NEW c \in Clients, NEW ops \in Seq(Operation), NEW batch \in BOOLEAN,
         NEW expires \in Int,
         IF batch THEN ops \in Plans ELSE \E op \in Singles : ops = <<op>>,
         Current.initialized,
         "initialized" \in DOMAIN acct', acct'.initialized = Current.initialized,
         Open(c, ops, batch, expires), catalogue' = Raise(ops, batch),
         UNCHANGED <<now, inventory, bucket>>
  PROVE  IInv'
<1> USE DEF Initialized
<1>1. Shapes /\ Origin /\ Admitted /\ Removed /\ CatalogueCovers
  BY DEF IInv
<1>2. acct.initialized /\ acct'.initialized
  BY <1>1, CurrentKeeps
<1>3. /\ catalogue' \in [Keys -> Row]
      /\ \A key \in Keys :
           /\ catalogue[key].bytes <= catalogue'[key].bytes
           /\ catalogue[key].retained => catalogue'[key].retained
      /\ \A i \in DOMAIN ops : ops[i].kind = "put" =>
           /\ ops[i].key \in Keys
           /\ ops[i].bytes + Metadata <= catalogue'[ops[i].key].bytes
           /\ batch => catalogue'[ops[i].key].retained
  BY <1>1, RaiseCovers DEF Shapes
<1>4. Day(now) \in Int
  BY <1>1, TimeAssumption DEF Shapes, Day
<1>5. [i \in DOMAIN ops |-> "held"] \in Seq(SlotStates)
  <2>1. DOMAIN ops = 1 .. Len(ops) /\ Len(ops) \in Nat
    OBVIOUS
  <2> QED BY <2>1 DEF SlotStates
<1> DEFINE r == [phase |-> "open", ops |-> ops, slot |-> [i \in DOMAIN ops |-> "held"],
                 batch |-> batch, expires |-> expires, day |-> Day(now)]
<1>6. r \in Invocation
  BY <1>4, <1>5 DEF Invocation, Phases
<1>7. client' = [client EXCEPT ![c] = r] /\ client \in [Clients -> Invocation]
  BY <1>1 DEF Open, Shapes
<1>8. client' \in [Clients -> Invocation] /\ client'[c] = r /\ \A d \in Clients : d # c => client'[d] = client[d]
  <2> HIDE DEF r
  <2> QED BY <1>6, <1>7
<1>9. Shapes'
  BY <1>1, <1>3, <1>8 DEF Shapes
<1>10. Origin'
  <2> SUFFICES ASSUME NEW d \in Clients
      PROVE /\ client'[d].phase = "calling" => client'[d].ops \in Plans
            /\ client'[d].phase = "open" =>
                 /\ DOMAIN client'[d].slot = DOMAIN client'[d].ops
                 /\ \/ client'[d].ops \in Plans
                    \/ \E op \in Singles : client'[d].ops = <<op>>
            /\ client'[d].phase = "deleted" =>
                 \E op \in Singles : op.kind = "delete" /\ client'[d].ops = <<op>>
    BY DEF Origin
  <2>1. CASE d = c
    BY <2>1, <1>8
  <2>2. CASE d # c
    BY <2>2, <1>8, <1>1 DEF Origin
  <2> QED BY <2>1, <2>2
<1>11. \A i \in DOMAIN ops : ops[i].kind = "put" => batch \/ ~Deletable(ops[i].key)
  <2> SUFFICES ASSUME NEW i \in DOMAIN ops, ops[i].kind = "put", ~batch
               PROVE  ~Deletable(ops[i].key)
    OBVIOUS
  <2>1. PICK op \in Singles : ops = <<op>>
    OBVIOUS
  <2>2. ops[i] = op
    BY <2>1
  <2> QED BY <2>2, DeleteAssumption DEF Deletable
<1>12. Admitted'
  <2> SUFFICES ASSUME NEW d \in Clients, NEW i \in DOMAIN client'[d].ops, AdmittedPut(d, i)'
      PROVE /\ client'[d].ops[i].bytes + Metadata <= catalogue'[client'[d].ops[i].key].bytes
            /\ catalogue'[client'[d].ops[i].key].retained \/ ~Deletable(client'[d].ops[i].key)
    BY <1>2 DEF Admitted, Deletable
  <2>1. CASE d = c
    BY <2>1, <1>3, <1>8, <1>11 DEF AdmittedPut
  <2>2. CASE d # c
    <3> DEFINE op == client[d].ops[i]
    <3>1. client'[d] = client[d] /\ AdmittedPut(d, i) /\ client[d].phase = "open"
      BY <2>2, <1>8 DEF AdmittedPut
    <3>2. op \in Operation /\ op.kind = "put"
      BY <3>1, <1>1, HeldOperations DEF AdmittedPut
    <3>3. op.key \in Keys /\ op.bytes \in Nat
      <4> HIDE DEF op
      <4>1. op.kind # "list" /\ op.bytes \in 0 .. PutLimit
        BY <3>2 DEF Operation
      <4>2. op.key \in Keys
        BY <3>2, <4>1 DEF Operation
      <4> QED BY <4>1, <4>2, TimeAssumption
    <3>4. /\ op.bytes + Metadata <= catalogue[op.key].bytes
          /\ catalogue[op.key].retained \/ ~Deletable(op.key)
      BY <3>1, <1>1 DEF Admitted
    <3>5. catalogue[op.key].bytes \in Nat /\ catalogue'[op.key].bytes \in Nat /\ Metadata \in Nat
      BY <3>3, <1>1, <1>3, TimeAssumption DEF Shapes, Row
    <3>6. op.bytes + Metadata <= catalogue'[op.key].bytes
      <4> HIDE DEF op
      <4>1. catalogue[op.key].bytes <= catalogue'[op.key].bytes
        BY <3>3, <1>3
      <4> QED BY <3>3, <3>4, <3>5, <4>1
    <3>7. catalogue'[op.key].retained \/ ~Deletable(op.key)
      BY <3>3, <3>4, <1>3
    <3> QED BY <3>1, <3>6, <3>7
  <2> QED BY <2>1, <2>2
<1>13. Removed'
  <2> SUFFICES ASSUME NEW d \in Clients, client'[d].phase = "deleted"
      PROVE catalogue'[client'[d].ops[1].key].retained \/ bucket[client'[d].ops[1].key] = 0
    BY DEF Removed
  <2>1. d # c /\ client'[d] = client[d]
    BY <1>8
  <2>2. PICK op \in Singles : op.kind = "delete" /\ client[d].ops = <<op>>
    BY <2>1, <1>1 DEF Origin
  <2>3. client[d].ops[1].key \in Keys
    BY <2>2, OperationAssumption DEF Operation
  <2> QED BY <2>1, <2>3, <1>1, <1>3 DEF Removed
<1>14. Unborn'
  BY <1>2 DEF Unborn
<1>15. CatalogueCovers'
  <2> SUFFICES ASSUME NEW key \in Keys, bucket[key] > 0
               PROVE  bucket[key] + Metadata <= catalogue'[key].bytes
    BY DEF CatalogueCovers
  <2>1. bucket[key] + Metadata <= catalogue[key].bytes
    BY <1>1, <1>2 DEF CatalogueCovers
  <2>2. /\ bucket[key] \in Nat /\ Metadata \in Nat
        /\ catalogue[key].bytes \in Nat /\ catalogue'[key].bytes \in Nat
    BY <1>1, <1>3, TimeAssumption DEF Shapes, Row
  <2> QED BY <2>1, <2>2, <1>3
<1> QED BY <1>9, <1>10, <1>12, <1>13, <1>14, <1>15 DEF IInv

(* A step that leaves the bucket, its catalogue and the account's          *)
(* initialization alone, and gives no invocation a new PUT.                *)
LEMMA QuietPreserves ==
  ASSUME IInv,
         UNCHANGED <<catalogue, bucket, inventory>>,
         now' \in Nat,
         "initialized" \in DOMAIN acct', acct'.initialized = acct.initialized,
         client' \in [Clients -> Invocation],
         \A d \in Clients :
           \/ client'[d] = client[d]
           \/ client'[d].phase = "idle"
           \/ client'[d].phase = "calling" /\ client'[d].ops \in Plans
           \/ /\ client'[d].phase = "open" /\ client[d].phase = "open"
              /\ client'[d].ops = client[d].ops
              /\ DOMAIN client'[d].slot = DOMAIN client[d].slot
           \/ /\ client'[d].phase = "open"
              /\ DOMAIN client'[d].slot = DOMAIN client'[d].ops
              /\ \E op \in Singles : op.kind = "delete" /\ client'[d].ops = <<op>>
  PROVE  IInv'
<1>1. Shapes /\ Origin /\ Admitted /\ Removed /\ Unborn /\ CatalogueCovers
  BY DEF IInv
<1>2. Shapes'
  BY <1>1 DEF Shapes
<1>3. Origin'
  <2> SUFFICES ASSUME NEW d \in Clients
      PROVE /\ client'[d].phase = "calling" => client'[d].ops \in Plans
            /\ client'[d].phase = "open" =>
                 /\ DOMAIN client'[d].slot = DOMAIN client'[d].ops
                 /\ \/ client'[d].ops \in Plans
                    \/ \E op \in Singles : client'[d].ops = <<op>>
            /\ client'[d].phase = "deleted" =>
                 \E op \in Singles : op.kind = "delete" /\ client'[d].ops = <<op>>
    BY DEF Origin
  <2>1. /\ client[d].phase = "calling" => client[d].ops \in Plans
        /\ client[d].phase = "open" =>
             /\ DOMAIN client[d].slot = DOMAIN client[d].ops
             /\ \/ client[d].ops \in Plans
                \/ \E op \in Singles : client[d].ops = <<op>>
        /\ client[d].phase = "deleted" =>
             \E op \in Singles : op.kind = "delete" /\ client[d].ops = <<op>>
    BY <1>1 DEF Origin
  <2> QED BY <2>1
<1>4. Admitted'
  <2> SUFFICES ASSUME NEW d \in Clients, NEW i \in DOMAIN client'[d].ops, AdmittedPut(d, i)'
      PROVE AdmittedPut(d, i) /\ client'[d].ops = client[d].ops
    BY <1>1 DEF Admitted, Deletable, Initialized
  <2>1. ASSUME NEW op \in Singles, op.kind = "delete", client'[d].ops = <<op>>
        PROVE FALSE
    BY <2>1 DEF AdmittedPut
  <2> QED BY <2>1 DEF AdmittedPut
<1>5. Removed'
  BY <1>1 DEF Removed
<1>6. Unborn'
  BY <1>1 DEF Unborn, Initialized
<1>7. CatalogueCovers'
  BY <1>1 DEF CatalogueCovers
<1> QED BY <1>2, <1>3, <1>4, <1>5, <1>6, <1>7 DEF IInv

(* One invocation moves on, the others stay where they are.                *)
LEMMA SlotType ==
  ASSUME Shapes, Origin, NEW c \in Clients, NEW i \in DOMAIN client[c].slot, NEW to \in SlotStates,
         client[c].phase = "open", SetSlot(c, i, to)
  PROVE  /\ client' \in [Clients -> Invocation]
         /\ \A d \in Clients : d # c => client'[d] = client[d]
         /\ client'[c].phase = "open" /\ client'[c].ops = client[c].ops
         /\ DOMAIN client'[c].slot = DOMAIN client[c].slot
<1>1. client[c] \in Invocation
  BY DEF Shapes
<1>2. client[c].slot \in Seq(SlotStates)
  BY <1>1 DEF Invocation
<1>3. [client[c].slot EXCEPT ![i] = to] \in Seq(SlotStates)
  BY <1>2
<1>4. [client[c] EXCEPT !.slot = [client[c].slot EXCEPT ![i] = to]] \in Invocation
  BY <1>1, <1>3 DEF Invocation
<1>5. client' = [client EXCEPT ![c] = [client[c] EXCEPT !.slot = [client[c].slot EXCEPT ![i] = to]]]
  BY DEF SetSlot
<1> QED BY <1>1, <1>4, <1>5 DEF Shapes, Invocation

LEMMA IdleType ==
  Idle \in Invocation /\ Idle.phase = "idle"
<1>1. <<>> \in Seq(Operation) /\ <<>> \in Seq(SlotStates) /\ Never \in Int
  BY DEF Never
<1> QED BY <1>1 DEF Idle, Invocation, Phases

LEMMA InitIInv == Init => IInv
<1> SUFFICES ASSUME Init PROVE IInv
  OBVIOUS
<1>1. acct.initialized = FALSE /\ "initialized" \in DOMAIN acct
  BY DEF Init, InitialAccount
<1>2. \A c \in Clients : client[c] = Idle /\ client[c].phase = "idle"
  BY IdleType DEF Init
<1>3. NoInventory \in [month : Nat \cup {Never}, sizes : [Keys -> Nat]] /\ NoRow \in Row
  BY DEF NoInventory, NoRow, Row
<1>4. Shapes
  BY <1>1, <1>2, <1>3, IdleType, StartAssumption DEF Init, Shapes
<1>5. Origin /\ Admitted /\ Removed
  BY <1>2 DEF Origin, Admitted, AdmittedPut, Removed
<1>6. Unborn
  BY <1>1 DEF Init, Unborn, Initialized
<1>7. CatalogueCovers
  BY <1>1 DEF CatalogueCovers
<1> QED BY <1>4, <1>5, <1>6, <1>7 DEF IInv

(* The bootstrap: the listing, and the account made from it.               *)
LEMMA BootstrapPreserves ==
  ASSUME IInv, BootstrapList \/ BootstrapCommit
  PROVE  IInv'
<1>1. Shapes /\ Origin /\ Admitted /\ Removed /\ Unborn /\ CatalogueCovers
  BY DEF IInv
<1>2. CASE BootstrapList
  <2>1. /\ ~acct.initialized /\ acct' = acct /\ now' = now /\ catalogue' = catalogue
        /\ client' = client /\ bucket' = bucket
        /\ inventory' = [month |-> Month(now), sizes |-> bucket]
    BY <1>2 DEF BootstrapList
  <2>2. Month(now) \in Nat
    <3>1. now \div DayTicks \in Nat
      BY <1>1, TimeAssumption DEF Shapes
    <3> QED BY <3>1, TimeAssumption DEF Month, Day
  <2>3. Shapes'
    BY <1>1, <2>1, <2>2 DEF Shapes
  <2>4. Origin' /\ Removed' /\ CatalogueCovers'
    BY <1>1, <2>1 DEF Origin, Removed, CatalogueCovers
  <2>5. Admitted'
    BY <1>1, <2>1 DEF Admitted, AdmittedPut, Deletable, Initialized
  <2>6. Unborn'
    <3>1. \A key \in Keys : bucket[key] <= bucket[key]
      BY <1>1 DEF Shapes
    <3> QED BY <1>1, <2>1, <3>1 DEF Unborn, Initialized
  <2> QED BY <2>3, <2>4, <2>5, <2>6 DEF IInv
<1>3. CASE BootstrapCommit
  <2>1. "initialized" \in DOMAIN Current /\ Current.initialized = acct.initialized
    BY <1>1, CurrentKeeps
  <2>2. UNCHANGED <<now, inventory, client, bucket>>
    BY <1>3 DEF BootstrapCommit
  <2>3. CASE Current.initialized
    <3>1. acct' = Current /\ catalogue' = catalogue
      BY <1>3, <2>3 DEF BootstrapCommit
    <3> QED BY <1>1, <2>1, <2>2, <3>1, QuietPreserves DEF Shapes
  <2>4. CASE ~Current.initialized
    <3>1. PICK extra \in Baselines : acct' = Evaluate(Baseline(extra), now)
      BY <1>3, <2>4 DEF BootstrapCommit
    <3>2. "initialized" \in DOMAIN Baseline(extra) /\ Baseline(extra).initialized = TRUE
      BY <2>1 DEF Baseline, ChargeDay
    <3>3. "initialized" \in DOMAIN acct' /\ acct'.initialized = TRUE
      BY <3>1, <3>2, EvaluateKeeps
    <3>4. /\ inventory # NoInventory
          /\ catalogue' = [key \in Keys |->
               IF inventory.sizes[key] = 0 THEN catalogue[key]
               ELSE [bytes |-> inventory.sizes[key] + Metadata, retained |-> FALSE]]
      BY <1>3, <2>4 DEF BootstrapCommit
    <3>5. \A key \in Keys : bucket[key] <= inventory.sizes[key]
      BY <1>1, <2>1, <2>4, <3>4 DEF Unborn, Initialized
    <3>6. \A key \in Keys : inventory.sizes[key] \in Nat /\ bucket[key] \in Nat /\ catalogue[key] \in Row
      BY <1>1 DEF Shapes
    <3>7. catalogue' \in [Keys -> Row]
      BY <3>4, <3>6, TimeAssumption DEF Row
    <3>8. Shapes'
      BY <1>1, <2>2, <3>3, <3>7 DEF Shapes
    <3>9. Origin'
      BY <1>1, <2>2 DEF Origin
    <3>10. Admitted'
      BY <1>1, <2>1, <2>2, <2>4 DEF Admitted, AdmittedPut, Initialized
    <3>11. Removed'
      <4> SUFFICES ASSUME NEW d \in Clients, client[d].phase = "deleted"
                   PROVE  bucket[client[d].ops[1].key] = 0
        BY <2>2 DEF Removed
      <4>1. PICK op \in Singles : op.kind = "delete" /\ client[d].ops = <<op>>
        BY <1>1 DEF Origin
      <4>2. client[d].ops[1].key \in Keys
        BY <4>1, OperationAssumption DEF Operation
      <4>3. ~catalogue[client[d].ops[1].key].retained
        BY <4>2, <1>1, <2>1, <2>4 DEF Unborn, Initialized, NoRow
      <4> QED BY <4>3, <1>1 DEF Removed
    <3>12. Unborn'
      BY <3>3 DEF Unborn, Initialized
    <3>13. CatalogueCovers'
      <4> SUFFICES ASSUME NEW key \in Keys, bucket[key] > 0
                   PROVE  bucket[key] + Metadata <= catalogue'[key].bytes
        BY <2>2 DEF CatalogueCovers
      <4>1. inventory.sizes[key] # 0
        BY <3>5, <3>6
      <4>2. catalogue'[key].bytes = inventory.sizes[key] + Metadata
        BY <3>4, <4>1
      <4> QED BY <4>2, <3>5, <3>6, TimeAssumption
    <3> QED BY <3>8, <3>9, <3>10, <3>11, <3>12, <3>13 DEF IInv
  <2> QED BY <2>3, <2>4
<1> QED BY <1>2, <1>3

(* A landing PUT is covered by its reservation; a landing DELETE leaves    *)
(* nothing behind.                                                         *)
LEMMA LandPreserves ==
  ASSUME IInv, NEW c \in Clients, NEW i \in DOMAIN client[c].slot, Land(c, i)
  PROVE  IInv'
<1>1. Shapes /\ Origin /\ Admitted /\ Removed /\ Unborn /\ CatalogueCovers
  BY DEF IInv
<1>2. /\ client[c].phase = "open"
      /\ UNCHANGED <<now, acct, catalogue, inventory>>
  BY DEF Land
<1>3. /\ client[c].ops \in Seq(Operation) /\ i \in DOMAIN client[c].ops
      /\ client[c].ops[i] \in Operation
  BY <1>1, <1>2, HeldOperations DEF Origin
<1> DEFINE op == client[c].ops[i]
<1>4. CASE op.kind = "put"
  <2>1. PICK size \in 1 .. op.bytes :
          bucket' = [bucket EXCEPT ![op.key] = size] /\ SetSlot(c, i, "done")
    BY <1>4 DEF Land
  <2>2. /\ acct.initialized
        /\ op.bytes + Metadata <= catalogue[op.key].bytes
        /\ catalogue[op.key].retained \/ ~Deletable(op.key)
    BY <1>1, <1>2, <1>3, <1>4 DEF Admitted, AdmittedPut, Initialized
  <2>3. op.key \in Keys /\ op.bytes \in Nat /\ size \in Nat
    <3>1. op.bytes \in 0 .. PutLimit /\ op.key \in Keys
      BY <1>3, <1>4 DEF Operation
    <3> QED BY <3>1, TimeAssumption
  <2>4. /\ client' \in [Clients -> Invocation]
        /\ \A d \in Clients : d # c => client'[d] = client[d]
        /\ client'[c].phase = "open" /\ client'[c].ops = client[c].ops
        /\ DOMAIN client'[c].slot = DOMAIN client[c].slot
    BY <1>1, <1>2, <2>1, SlotType DEF SlotStates
  <2>5. Shapes'
    BY <1>1, <1>2, <2>1, <2>3, <2>4 DEF Shapes
  <2>6. Origin'
    <3> SUFFICES ASSUME NEW d \in Clients
        PROVE /\ client'[d].phase = "calling" => client'[d].ops \in Plans
              /\ client'[d].phase = "open" =>
                   /\ DOMAIN client'[d].slot = DOMAIN client'[d].ops
                   /\ \/ client'[d].ops \in Plans
                      \/ \E o \in Singles : client'[d].ops = <<o>>
              /\ client'[d].phase = "deleted" =>
                   \E o \in Singles : o.kind = "delete" /\ client'[d].ops = <<o>>
      BY DEF Origin
    <3>1. client'[d].phase = client[d].phase /\ client'[d].ops = client[d].ops
          /\ DOMAIN client'[d].slot = DOMAIN client[d].slot
      BY <1>2, <2>4
    <3> QED BY <3>1, <1>1 DEF Origin
  <2>7. Admitted'
    <3>1. \A d \in Clients : client'[d].phase = client[d].phase /\ client'[d].ops = client[d].ops
      BY <1>2, <2>4
    <3> QED BY <3>1, <1>1, <1>2 DEF Admitted, AdmittedPut, Initialized, Deletable
  <2>8. Removed'
    <3> SUFFICES ASSUME NEW d \in Clients, client'[d].phase = "deleted",
                        ~catalogue[client'[d].ops[1].key].retained
                 PROVE  bucket'[client'[d].ops[1].key] = 0
      BY <1>2 DEF Removed
    <3>1. d # c /\ client'[d] = client[d]
      BY <2>4
    <3>2. PICK o \in Singles : o.kind = "delete" /\ client[d].ops = <<o>>
      BY <3>1, <1>1 DEF Origin
    <3>3. client[d].ops[1] = o /\ o.key \in Keys /\ Deletable(o.key)
      BY <3>2, OperationAssumption DEF Operation, Deletable
    <3>4. bucket[o.key] = 0 /\ o.key # op.key
      BY <3>1, <3>3, <1>1, <2>2 DEF Removed
    <3> QED BY <3>1, <3>3, <3>4, <2>1, <1>1 DEF Shapes
  <2>9. Unborn'
    BY <1>2, <2>2 DEF Unborn, Initialized
  <2>10. CatalogueCovers'
    <3> SUFFICES ASSUME NEW key \in Keys, bucket'[key] > 0
                 PROVE  bucket'[key] + Metadata <= catalogue[key].bytes
      BY <1>2 DEF CatalogueCovers
    <3>1. CASE key = op.key
      <4>1. bucket'[key] = size
        BY <3>1, <2>1, <1>1 DEF Shapes
      <4>2. size <= op.bytes
        BY <2>1, <2>3
      <4>3. catalogue[op.key].bytes \in Nat /\ Metadata \in Nat
        BY <1>1, <2>3, TimeAssumption DEF Shapes, Row
      <4> HIDE DEF op
      <4> QED BY <3>1, <4>1, <4>2, <4>3, <2>2, <2>3
    <3>2. CASE key # op.key
      BY <3>2, <2>1, <2>2, <1>1 DEF Shapes, CatalogueCovers
    <3> QED BY <3>1, <3>2
  <2> QED BY <2>5, <2>6, <2>7, <2>8, <2>9, <2>10 DEF IInv
<1>5. CASE op.kind = "delete"
  <2>1. /\ bucket' = [bucket EXCEPT ![op.key] = 0]
        /\ client' = [client EXCEPT ![c].slot[i] = "done", ![c].phase = "deleted"]
    BY <1>5 DEF Land
  <2>2. PICK o \in Singles : o.kind = "delete" /\ client[c].ops = <<o>>
    BY <1>1, <1>2, <1>3, <1>5, HeldOperations
  <2>3. op = o /\ op.key \in Keys
    BY <2>2, <1>3, OperationAssumption DEF Operation
  <2>4. /\ client' \in [Clients -> Invocation]
        /\ \A d \in Clients : d # c => client'[d] = client[d]
        /\ client'[c].phase = "deleted" /\ client'[c].ops = client[c].ops
    <3> DEFINE q == [client[c].slot EXCEPT ![i] = "done"]
    <3>1. client[c] \in Invocation /\ client[c].slot \in Seq(SlotStates)
      BY <1>1 DEF Shapes, Invocation
    <3>2. q \in Seq(SlotStates)
      BY <3>1 DEF SlotStates
    <3>3. [[client[c] EXCEPT !.slot = q] EXCEPT !.phase = "deleted"] \in Invocation
      <4> HIDE DEF q
      <4> QED BY <3>1, <3>2 DEF Invocation, Phases
    <3>4. client' = [client EXCEPT ![c] = [[client[c] EXCEPT !.slot = q] EXCEPT !.phase = "deleted"]]
      BY <2>1, <3>1, <1>1 DEF Shapes, Invocation
    <3> HIDE DEF q
    <3> QED BY <3>1, <3>3, <3>4, <1>1 DEF Shapes, Invocation
  <2>5. Shapes'
    BY <1>1, <1>2, <2>1, <2>4 DEF Shapes
  <2>6. Origin'
    BY <1>1, <2>2, <2>4 DEF Origin
  <2>7. Admitted'
    BY <1>1, <1>2, <2>4 DEF Admitted, AdmittedPut, Initialized, Deletable
  <2>8. \A key \in Keys : bucket'[key] \in {0, bucket[key]} /\ bucket[key] \in Nat
    BY <1>1, <2>1 DEF Shapes
  <2>9. Removed'
    <3> SUFFICES ASSUME NEW d \in Clients, client'[d].phase = "deleted",
                        ~catalogue[client'[d].ops[1].key].retained
                 PROVE  bucket'[client'[d].ops[1].key] = 0
      BY <1>2 DEF Removed
    <3>1. CASE d = c
      BY <3>1, <2>1, <2>2, <2>3, <2>4, <1>1 DEF Shapes
    <3>2. CASE d # c
      <4>1. client'[d] = client[d] /\ bucket[client[d].ops[1].key] = 0
        BY <3>2, <2>4, <1>1 DEF Removed
      <4>2. PICK e \in Singles : e.kind = "delete" /\ client[d].ops = <<e>>
        BY <4>1, <1>1 DEF Origin
      <4>3. client[d].ops[1].key \in Keys
        BY <4>2, OperationAssumption DEF Operation
      <4> QED BY <4>1, <4>3, <2>8
    <3> QED BY <3>1, <3>2
  <2>10. Unborn'
    <3> SUFFICES ASSUME ~acct.initialized
        PROVE /\ \A key \in Keys : catalogue[key] = NoRow
              /\ inventory # NoInventory => \A key \in Keys : bucket'[key] <= inventory.sizes[key]
      BY <1>2 DEF Unborn, Initialized, NoInventory, NoRow
    <3>1. \A key \in Keys : inventory.sizes[key] \in Nat
      BY <1>1 DEF Shapes
    <3> QED BY <1>1, <2>8, <3>1 DEF Unborn, Initialized
  <2>11. CatalogueCovers'
    BY <1>1, <1>2, <2>8 DEF CatalogueCovers
  <2> QED BY <2>5, <2>6, <2>7, <2>9, <2>10, <2>11 DEF IInv
<1> QED BY <1>4, <1>5 DEF Land

(* The report of a deletion removes a row only when its object is gone and *)
(* no admitted PUT relies on the row.                                      *)
LEMMA DeletedPreserves ==
  ASSUME IInv, NEW c \in Clients, Deleted(c)
  PROVE  IInv'
<1>1. Shapes /\ Origin /\ Admitted /\ Removed /\ Unborn /\ CatalogueCovers
  BY DEF IInv
<1> DEFINE key == client[c].ops[1].key
<1>2. /\ client[c].phase = "deleted"
      /\ client' = [client EXCEPT ![c] = Idle]
      /\ UNCHANGED <<now, inventory, bucket>>
  BY DEF Deleted
<1>3. PICK op \in Singles : op.kind = "delete" /\ client[c].ops = <<op>>
  BY <1>1, <1>2 DEF Origin
<1>4. key = op.key /\ key \in Keys /\ Deletable(key)
  BY <1>3, OperationAssumption DEF Operation, Deletable
<1>5. "initialized" \in DOMAIN Current /\ Current.initialized = acct.initialized
  BY <1>1, CurrentKeeps
<1>6. "initialized" \in DOMAIN acct' /\ acct'.initialized = acct.initialized
  BY <1>5 DEF Deleted
<1>7. /\ client' \in [Clients -> Invocation]
      /\ client'[c].phase = "idle" /\ \A d \in Clients : d # c => client'[d] = client[d]
  BY <1>1, <1>2, IdleType DEF Shapes
<1>8. CASE catalogue' = catalogue
  BY <1>1, <1>2, <1>6, <1>7, <1>8, QuietPreserves DEF Shapes
<1>9. CASE catalogue[key].bytes > 0 /\ ~catalogue[key].retained /\ catalogue' = [catalogue EXCEPT ![key] = NoRow]
  <2>1. NoRow \in Row
    BY DEF NoRow, Row
  <2>2. Shapes'
    BY <1>1, <1>2, <1>6, <1>7, <1>9, <2>1 DEF Shapes
  <2>3. Origin'
    BY <1>1, <1>7 DEF Origin
  <2>4. Admitted'
    <3> SUFFICES ASSUME NEW d \in Clients, NEW i \in DOMAIN client'[d].ops, AdmittedPut(d, i)'
        PROVE /\ acct'.initialized
              /\ client'[d].ops[i].bytes + Metadata <= catalogue'[client'[d].ops[i].key].bytes
              /\ catalogue'[client'[d].ops[i].key].retained \/ ~Deletable(client'[d].ops[i].key)
      BY DEF Admitted, Deletable, Initialized
    <3>1. client'[d] = client[d] /\ AdmittedPut(d, i)
      BY <1>7 DEF AdmittedPut
    <3> DEFINE put == client[d].ops[i]
    <3>2. /\ acct.initialized
          /\ put.bytes + Metadata <= catalogue[put.key].bytes
          /\ catalogue[put.key].retained \/ ~Deletable(put.key)
      BY <3>1, <1>1 DEF Admitted, Initialized
    <3>3. put.key # key
      BY <3>2, <1>4, <1>9
    <3>4. catalogue'[put.key] = catalogue[put.key]
      BY <3>3, <1>9, <1>1 DEF Shapes
    <3> QED BY <3>1, <3>2, <3>4, <1>6
  <2>5. Removed'
    <3> SUFFICES ASSUME NEW d \in Clients, client'[d].phase = "deleted"
        PROVE catalogue'[client'[d].ops[1].key].retained \/ bucket[client'[d].ops[1].key] = 0
      BY <1>2 DEF Removed
    <3>1. client'[d] = client[d]
      BY <1>7
    <3>2. CASE client[d].ops[1].key = key
      BY <3>1, <3>2, <1>1, <1>2, <1>9 DEF Removed
    <3>3. CASE client[d].ops[1].key # key
      BY <3>1, <3>3, <1>1, <1>9 DEF Removed, Shapes
    <3> QED BY <3>2, <3>3
  <2>6. Unborn'
    BY <1>1, <1>2, <1>4, <1>6, <1>9 DEF Unborn, Initialized, NoRow, NoInventory, Shapes
  <2>7. CatalogueCovers'
    <3> SUFFICES ASSUME acct.initialized, NEW k \in Keys, bucket[k] > 0
                 PROVE  bucket[k] + Metadata <= catalogue'[k].bytes
      BY <1>2, <1>6 DEF CatalogueCovers
    <3>1. k # key
      <4>1. bucket[key] = 0
        BY <1>1, <1>2, <1>9 DEF Removed
      <4> QED BY <4>1
    <3> QED BY <3>1, <1>1, <1>9 DEF CatalogueCovers, Shapes
  <2> QED BY <2>2, <2>3, <2>4, <2>5, <2>6, <2>7 DEF IInv
<1> QED BY <1>8, <1>9 DEF Deleted

(* Every step preserves the invariant.                                     *)
LEMMA NextIInv == IInv /\ [Next]_vars => IInv'
<1> SUFFICES ASSUME IInv, [Next]_vars PROVE IInv'
  OBVIOUS
<1>1. Shapes /\ Origin
  BY DEF IInv
<1>2. "initialized" \in DOMAIN Current /\ Current.initialized = acct.initialized
  BY <1>1, CurrentKeeps
<1>3. now \in Nat /\ client \in [Clients -> Invocation] /\ "initialized" \in DOMAIN acct
  BY <1>1 DEF Shapes
<1>4. CASE Tick
  <2>1. now' \in Nat /\ UNCHANGED <<acct, catalogue, inventory, client, bucket>>
    BY <1>3, <1>4 DEF Tick
  <2> QED BY <2>1, <1>3, QuietPreserves
<1>5. CASE BootstrapList \/ BootstrapCommit
  BY <1>5, BootstrapPreserves
<1>6. CASE Ack \/ ClaimDispatch
  <2>1. UNCHANGED <<now, catalogue, inventory, client, bucket>>
    BY <1>6 DEF Ack, ClaimDispatch
  <2>2. "initialized" \in DOMAIN acct' /\ acct'.initialized = acct.initialized
    BY <1>2, <1>6 DEF Ack, ClaimDispatch
  <2> QED BY <2>1, <2>2, <1>3, QuietPreserves
<1>7. ASSUME NEW c \in Clients, NEW op \in Singles, ReserveSingle(c, op)
      PROVE  IInv'
  <2>1. UNCHANGED <<now, inventory, bucket>>
    BY <1>7 DEF ReserveSingle
  <2>2. <<op>> \in Seq(Operation) /\ DOMAIN <<op>> = {1} /\ now + SingleTicks \in Int
    BY <1>3, OperationAssumption, TimeAssumption
  <2>3. "initialized" \in DOMAIN Reserved(Current, <<op>>)
        /\ Reserved(Current, <<op>>).initialized = acct.initialized
    BY <1>2, ReservedKeeps
  <2>4. CASE op.kind = "delete"
    <3>1. acct' = Current /\ Open(c, <<op>>, FALSE, now + SingleTicks) /\ UNCHANGED catalogue
      BY <1>7, <2>4 DEF ReserveSingle
    <3> DEFINE r == [phase |-> "open", ops |-> <<op>>, slot |-> [i \in DOMAIN <<op>> |-> "held"],
                     batch |-> FALSE, expires |-> now + SingleTicks, day |-> Day(now)]
    <3>2. r \in Invocation /\ r.phase = "open" /\ r.ops = <<op>> /\ DOMAIN r.slot = DOMAIN r.ops
      <4>1. Day(now) \in Int
        BY <1>3, TimeAssumption DEF Day
      <4>2. [i \in DOMAIN <<op>> |-> "held"] \in Seq(SlotStates)
        BY <2>2 DEF SlotStates
      <4> QED BY <2>2, <4>1, <4>2 DEF Invocation, Phases
    <3>3. client' = [client EXCEPT ![c] = r]
      BY <3>1 DEF Open
    <3>4. client' \in [Clients -> Invocation] /\ client'[c] = r
          /\ \A d \in Clients : d # c => client'[d] = client[d]
      <4> HIDE DEF r
      <4> QED BY <3>2, <3>3, <1>3
    <3> HIDE DEF r
    <3> QED BY <1>2, <1>3, <2>1, <2>4, <3>1, <3>2, <3>4, QuietPreserves
  <2>5. CASE op.kind # "delete" /\ Allowed(Current, <<op>>)
    <3>1. /\ acct' = Reserved(Current, <<op>>)
          /\ Open(c, <<op>>, FALSE, now + SingleTicks) /\ catalogue' = Raise(<<op>>, FALSE)
      BY <1>7, <2>5 DEF ReserveSingle
    <3>2. Current.initialized
      BY <2>5 DEF Allowed, Closed
    <3>3. \E o \in Singles : <<op>> = <<o>>
      OBVIOUS
    <3> QED BY <1>2, <2>1, <2>2, <2>3, <3>1, <3>2, <3>3, OpeningPreserves
  <2>6. CASE op.kind # "delete" /\ ~Allowed(Current, <<op>>)
    <3>1. acct' = Reserved(Current, <<op>>) /\ UNCHANGED <<client, catalogue>>
      BY <1>7, <2>6 DEF ReserveSingle
    <3> QED BY <1>3, <2>1, <2>3, <3>1, QuietPreserves
  <2> QED BY <2>4, <2>5, <2>6
<1>8. ASSUME NEW c \in Clients, NEW plan \in Plans, StartBatch(c, plan)
      PROVE  IInv'
  <2> DEFINE r == [Idle EXCEPT !.phase = "calling", !.ops = plan, !.expires = Expiry(now)]
  <2>1. r \in Invocation /\ r.phase = "calling" /\ r.ops = plan
    BY IdleType, ExpiryType, <1>3, OperationAssumption DEF Invocation, Phases
  <2>2. client' = [client EXCEPT ![c] = r] /\ UNCHANGED <<now, acct, catalogue, inventory, bucket>>
    BY <1>8 DEF StartBatch
  <2>3. client' \in [Clients -> Invocation] /\ client'[c] = r
        /\ \A d \in Clients : d # c => client'[d] = client[d]
    <3> HIDE DEF r
    <3> QED BY <2>1, <2>2, <1>3
  <2> HIDE DEF r
  <2> QED BY <1>3, <2>1, <2>2, <2>3, QuietPreserves
<1>9. ASSUME NEW c \in Clients, ReserveBatch(c)
      PROVE  IInv'
  <2> DEFINE ops == client[c].ops
             expires == Min({Expiry(now), client[c].expires})
  <2>1. UNCHANGED <<now, inventory, bucket>> /\ acct' = Reserved(Current, ops)
    BY <1>9 DEF ReserveBatch
  <2>2. ops \in Plans /\ ops \in Seq(Operation)
    BY <1>1, <1>9, OperationAssumption DEF ReserveBatch, Origin
  <2>3. "initialized" \in DOMAIN acct' /\ acct'.initialized = acct.initialized
    BY <1>2, <2>1, ReservedKeeps
  <2>4. expires \in Int
    <3>1. Expiry(now) \in Int /\ client[c].expires \in Int
      BY <1>3, ExpiryType DEF Invocation
    <3>2. \E x \in {Expiry(now), client[c].expires} :
            \A y \in {Expiry(now), client[c].expires} : x <= y
      BY <3>1
    <3> QED BY <3>1, <3>2 DEF Min
  <2>5. CASE Allowed(Current, ops)
    <3>1. Open(c, ops, TRUE, expires) /\ catalogue' = Raise(ops, TRUE)
      BY <1>9, <2>5 DEF ReserveBatch
    <3>2. Current.initialized
      BY <2>5 DEF Allowed, Closed
    <3> HIDE DEF ops, expires
    <3> QED BY <1>2, <2>1, <2>2, <2>3, <2>4, <3>1, <3>2, OpeningPreserves
  <2>6. CASE ~Allowed(Current, ops)
    <3>1. client' = [client EXCEPT ![c] = Idle] /\ UNCHANGED catalogue
      BY <1>9, <2>6 DEF ReserveBatch
    <3>2. client' \in [Clients -> Invocation] /\ client'[c].phase = "idle"
          /\ \A d \in Clients : d # c => client'[d] = client[d]
      BY <3>1, <1>3, IdleType
    <3> QED BY <1>3, <2>1, <2>3, <3>1, <3>2, QuietPreserves
  <2> QED BY <2>5, <2>6
<1>10. ASSUME NEW c \in Clients, Deleted(c)
       PROVE  IInv'
  BY <1>10, DeletedPreserves
<1>11. ASSUME NEW c \in Clients, Leave(c)
       PROVE  IInv'
  <2>1. client' = [client EXCEPT ![c] = Idle] /\ UNCHANGED <<now, acct, catalogue, inventory, bucket>>
    BY <1>11 DEF Leave
  <2>2. client' \in [Clients -> Invocation] /\ client'[c].phase = "idle"
        /\ \A d \in Clients : d # c => client'[d] = client[d]
    BY <2>1, <1>3, IdleType
  <2> QED BY <1>3, <2>1, <2>2, QuietPreserves
<1>12. ASSUME NEW c \in Clients, NEW i \in DOMAIN client[c].slot, Issue(c, i) \/ NoEffect(c, i)
       PROVE  IInv'
  <2>1. client[c].phase = "open" /\ UNCHANGED <<now, acct, catalogue, inventory, bucket>>
    BY <1>12 DEF Issue, NoEffect
  <2>2. PICK to \in SlotStates : SetSlot(c, i, to)
    BY <1>12 DEF Issue, NoEffect, SlotStates
  <2>3. /\ client' \in [Clients -> Invocation]
        /\ \A d \in Clients : d # c => client'[d] = client[d]
        /\ client'[c].phase = "open" /\ client'[c].ops = client[c].ops
        /\ DOMAIN client'[c].slot = DOMAIN client[c].slot
    BY <1>1, <2>1, <2>2, SlotType
  <2> QED BY <1>3, <2>1, <2>3, QuietPreserves
<1>13. ASSUME NEW c \in Clients, NEW i \in DOMAIN client[c].slot, Land(c, i)
       PROVE  IInv'
  BY <1>13, LandPreserves
<1>14. CASE UNCHANGED vars
  BY <1>3, <1>14, QuietPreserves DEF vars
<1> QED BY <1>4, <1>5, <1>6, <1>7, <1>8, <1>9, <1>10, <1>11, <1>12, <1>13, <1>14 DEF Next

LEMMA IInvAlways == Spec => []IInv
BY InitIInv, NextIInv, PTL DEF Spec

(* No stored object is ever larger than its catalogue row, for any number  *)
(* of invocations and keys and every interleaving of admitted writes,      *)
(* deletions and their reports (r2-budget.js:209-216, 234-239).            *)
THEOREM CatalogueAlwaysCovers == Spec => []CatalogueCovers
<1>1. IInv => CatalogueCovers
  BY DEF IInv
<1> QED BY IInvAlways, <1>1, PTL

-----------------------------------------------------------------------------
(* The pauses.  The account keeps its fields, is not paused before the     *)
(* bootstrap, and whoever pauses it leaves a notice.                       *)

Fields ==
  {"month", "initialized", "used", "stored", "paused", "reason", "notes", "dispatchAt", "daily"}
NoteFields == {"month", "kind", "acked"}
HasFields(s) == DOMAIN s = Fields /\ \A n \in s.notes : DOMAIN n = NoteFields
Noticed(s) == s.paused => \E n \in s.notes : n.kind = "paused" /\ n.month = s.month
Frozen(s, r) == r.paused /\ r.reason = s.reason /\ r.used = s.used /\ r.month = s.month

PauseInv ==
  /\ HasFields(acct)
  /\ ~acct.initialized => ~acct.paused
  /\ acct.initialized => Noticed(acct)

(* A notice changes nothing but the list of notices.                       *)
LEMMA NotifyKeeps ==
  ASSUME NEW s, NEW kind, HasFields(s)
  PROVE  /\ HasFields(Notify(s, kind))
         /\ Notify(s, kind).paused = s.paused /\ Notify(s, kind).reason = s.reason
         /\ Notify(s, kind).used = s.used /\ Notify(s, kind).month = s.month
         /\ Notify(s, kind).initialized = s.initialized
         /\ \E n \in Notify(s, kind).notes : n.kind = kind /\ n.month = s.month
<1>1. CASE \E n \in s.notes : n.month = s.month /\ n.kind = kind
  BY <1>1 DEF Notify
<1>2. CASE ~\E n \in s.notes : n.month = s.month /\ n.kind = kind
  <2> DEFINE n == [month |-> s.month, kind |-> kind, acked |-> FALSE]
  <2>0. DOMAIN n = NoteFields
    BY DEF NoteFields
  <2>1. Notify(s, kind) = [s EXCEPT !.notes = s.notes \cup {n}]
    BY <1>2 DEF Notify
  <2>2. n \in Notify(s, kind).notes
    BY <2>1 DEF HasFields, Fields
  <2>3. n.kind = kind /\ n.month = s.month
    OBVIOUS
  <2> QED BY <2>0, <2>1, <2>2, <2>3 DEF HasFields, Fields
<1> QED BY <1>1, <1>2

(* The same of an announcement; a paused account is announced as paused.   *)
LEMMA AnnounceKeeps ==
  ASSUME NEW s, NEW was, HasFields(s)
  PROVE  /\ HasFields(Announce(s, was))
         /\ Announce(s, was).paused = s.paused /\ Announce(s, was).reason = s.reason
         /\ Announce(s, was).used = s.used /\ Announce(s, was).month = s.month
         /\ Announce(s, was).initialized = s.initialized
         /\ Noticed(Announce(s, was))
<1> DEFINE Same(r) == /\ HasFields(r) /\ r.paused = s.paused /\ r.reason = s.reason
                      /\ r.used = s.used /\ r.month = s.month /\ r.initialized = s.initialized
           resumed == IF was /\ ~s.paused THEN Notify(s, "resumed") ELSE s
<1>1. Same(resumed)
  BY NotifyKeeps
<1>2. \A kind : Same(Notify(resumed, kind)) /\
                \E n \in Notify(resumed, kind).notes : n.kind = kind /\ n.month = s.month
  <2> HIDE DEF resumed
  <2> QED BY <1>1, NotifyKeeps
<1>3. CASE s.paused
  <2>1. Announce(s, was) = Notify(resumed, "paused")
    BY <1>3 DEF Announce
  <2> HIDE DEF resumed
  <2> QED BY <2>1, <1>2 DEF Noticed
<1>4. CASE ~s.paused
  <2>1. Announce(s, was) \in {Notify(resumed, "warning"), resumed}
    BY <1>4 DEF Announce
  <2> HIDE DEF resumed
  <2> QED BY <2>1, <1>1, <1>2, <1>4 DEF Noticed
<1> QED BY <1>3, <1>4

(* The parts of evaluate() that come before the announcement.              *)
LEMMA SettleKeeps ==
  ASSUME NEW s, NEW t, HasFields(s)
  PROVE  LET rolled == Rollover(ClearRolling(Prune(s, t)), t) IN
         /\ HasFields(rolled) /\ HasFields(Latch(rolled))
         /\ rolled.initialized = s.initialized /\ Latch(rolled).initialized = s.initialized
         /\ rolled.month = Month(t) /\ Latch(rolled).month = Month(t)
         /\ ~s.paused => ~rolled.paused
         /\ s.paused /\ s.reason \in Allowances /\ s.month = Month(t) =>
              Frozen(s, rolled) /\ Latch(rolled) = rolled
<1> DEFINE p == Prune(s, t)
           c == ClearRolling(p)
           r == Rollover(c, t)
<1>1. HasFields(p) /\ p.paused = s.paused /\ p.reason = s.reason /\ p.used = s.used
      /\ p.month = s.month /\ p.initialized = s.initialized
  BY DEF HasFields, Fields, Prune
<1> HIDE DEF p
<1>2. HasFields(c) /\ c.month = s.month /\ c.initialized = s.initialized /\ (~s.paused => ~c.paused)
  <2>1. c \in {Unpause(p), p}
    BY DEF ClearRolling
  <2>2. ~Unpause(p).paused /\ HasFields(Unpause(p)) /\ Unpause(p).month = p.month
        /\ Unpause(p).initialized = p.initialized
    BY <1>1 DEF Unpause, HasFields, Fields
  <2> QED BY <2>1, <2>2, <1>1
<1>3. s.reason \in Allowances => c = p
  <2>1. s.reason \in Allowances => s.reason \notin {RollingReason[k] : k \in Classes}
    BY DEF Allowances, Classes, RollingReason
  <2> QED BY <2>1, <1>1 DEF ClearRolling
<1> HIDE DEF c
<1>4. CASE c.month = Month(t)
  <2>1. r = c
    BY <1>4 DEF Rollover
  <2>2. HasFields(Latch(c)) /\ Latch(c).initialized = c.initialized /\ Latch(c).month = c.month
    BY <1>2 DEF Latch, Pause, HasFields, Fields
  <2>3. s.paused /\ s.reason \in Allowances => Frozen(s, c) /\ Latch(c) = c
    BY <1>1, <1>3 DEF Frozen, Latch
  <2> QED BY <2>1, <2>2, <2>3, <1>2, <1>4 DEF p, c
<1>5. CASE c.month # Month(t)
  <2>1. HasFields(r) /\ r.month = Month(t) /\ r.initialized = c.initialized /\ ~r.paused
    BY <1>2, <1>5 DEF Rollover, Unpause, HasFields, Fields
  <2> HIDE DEF r
  <2>2. HasFields(Latch(r)) /\ Latch(r).initialized = r.initialized /\ Latch(r).month = r.month
    BY <2>1 DEF Latch, Pause, HasFields, Fields
  <2> QED BY <2>1, <2>2, <1>2, <1>5 DEF p, c, r
<1> QED BY <1>4, <1>5

(* Evaluating an account: its fields, its notice, and its pause.           *)
LEMMA Evaluated ==
  ASSUME NEW s, NEW t, HasFields(s)
  PROVE  /\ HasFields(Evaluate(s, t)) /\ Evaluate(s, t).initialized = s.initialized
         /\ s.initialized => Noticed(Evaluate(s, t))
         /\ ~s.initialized /\ ~s.paused => ~Evaluate(s, t).paused
         /\ Evaluate(s, t).month = Month(t)
         /\ s.paused /\ s.reason \in Allowances /\ s.month = Month(t) => Frozen(s, Evaluate(s, t))
<1> DEFINE r == Rollover(ClearRolling(Prune(s, t)), t)
<1>1. /\ HasFields(r) /\ HasFields(Latch(r))
      /\ r.initialized = s.initialized /\ Latch(r).initialized = s.initialized
      /\ r.month = Month(t) /\ Latch(r).month = Month(t)
      /\ ~s.paused => ~r.paused
      /\ s.paused /\ s.reason \in Allowances /\ s.month = Month(t) => Frozen(s, r) /\ Latch(r) = r
  BY SettleKeeps
<1>2. Evaluate(s, t) = IF r.initialized THEN Announce(Latch(r), s.paused) ELSE r
  BY DEF Evaluate
<1> HIDE DEF r
<1>3. CASE s.initialized
  <2>1. Evaluate(s, t) = Announce(Latch(r), s.paused)
    BY <1>1, <1>2, <1>3
  <2> DEFINE a == Announce(Latch(r), s.paused)
  <2>2. /\ HasFields(a) /\ a.paused = Latch(r).paused /\ a.reason = Latch(r).reason
        /\ a.used = Latch(r).used /\ a.month = Latch(r).month
        /\ a.initialized = Latch(r).initialized /\ Noticed(a)
    BY <1>1, AnnounceKeeps
  <2> HIDE DEF a
  <2>3. s.paused /\ s.reason \in Allowances /\ s.month = Month(t) => Frozen(s, a)
    BY <1>1, <2>2 DEF Frozen
  <2>4. Evaluate(s, t) = a
    BY <2>1 DEF a
  <2> QED BY <2>2, <2>3, <2>4, <1>1, <1>3
<1>4. CASE ~s.initialized
  <2>1. Evaluate(s, t) = r
    BY <1>1, <1>2, <1>4
  <2> QED BY <2>1, <1>1, <1>4
<1> QED BY <1>3, <1>4

(* A reservation asks for no more than an evaluation; a refusal pauses the *)
(* account and says so.                                                    *)
LEMMA ReservedNoticed ==
  ASSUME NEW s, NEW ops, HasFields(s), ~s.initialized => ~s.paused, s.initialized => Noticed(s)
  PROVE  LET r == Reserved(s, ops) IN
         /\ HasFields(r) /\ r.initialized = s.initialized
         /\ ~r.initialized => ~r.paused
         /\ r.initialized => Noticed(r)
         /\ s.month = Month(now) => r.month = Month(now)
         /\ s.paused => r = s
<1> DEFINE charged == Charge(s, now, Counts(ops), Delta(ops))
           stopped == Pause(s, Refusal(s, ops))
<1>1. CASE Closed(s)
  BY <1>1 DEF Reserved
<1>2. CASE ~Closed(s)
  <2>1. s.initialized /\ ~s.paused
    BY <1>2 DEF Closed
  <2>2. Reserved(s, ops) \in {Notify(stopped, "paused"), Evaluate(charged, now)}
    BY <1>2 DEF Reserved
  <2>3. HasFields(charged) /\ charged.initialized = s.initialized
    BY DEF Charge, ChargeDay, HasFields, Fields
  <2>4. HasFields(stopped) /\ stopped.initialized = s.initialized /\ stopped.month = s.month
    BY DEF Pause, HasFields, Fields
  <2> HIDE DEF charged, stopped
  <2>5. HasFields(Evaluate(charged, now)) /\ Evaluate(charged, now).initialized = s.initialized
        /\ Noticed(Evaluate(charged, now)) /\ Evaluate(charged, now).month = Month(now)
    BY <2>1, <2>3, Evaluated
  <2>6. /\ HasFields(Notify(stopped, "paused")) /\ Notify(stopped, "paused").initialized = s.initialized
        /\ Noticed(Notify(stopped, "paused")) /\ Notify(stopped, "paused").month = s.month
    BY <2>4, NotifyKeeps DEF Noticed
  <2> QED BY <2>1, <2>2, <2>5, <2>6
<1> QED BY <1>1, <1>2

(* The forms in which a step changes the account.                          *)
Acked(s, n) == [s EXCEPT !.notes = (@ \ {n}) \cup {[n EXCEPT !.acked = TRUE]}]

LEMMA AccountSteps ==
  ASSUME [Next]_vars
  PROVE  \/ acct' = acct \/ acct' = Current
         \/ \E ops : acct' = Reserved(Current, ops)
         \/ \E bytes : acct' = [Current EXCEPT !.stored = bytes]
         \/ \E at : acct' = [Current EXCEPT !.dispatchAt = at]
         \/ \E n \in Current.notes : acct' = Acked(Current, n)
         \/ ~Current.initialized /\ \E extra \in Baselines : acct' = Evaluate(Baseline(extra), now)
<1>1. CASE Tick \/ BootstrapList \/ UNCHANGED vars
  BY <1>1 DEF Tick, BootstrapList, vars
<1>2. CASE BootstrapCommit
  BY <1>2 DEF BootstrapCommit
<1>3. CASE Ack
  BY <1>3 DEF Ack, Acked
<1>4. CASE ClaimDispatch
  BY <1>4 DEF ClaimDispatch
<1>5. ASSUME NEW c \in Clients, NEW op \in Singles, ReserveSingle(c, op)
      PROVE  acct' = Current \/ \E ops : acct' = Reserved(Current, ops)
  BY <1>5 DEF ReserveSingle
<1>6. ASSUME NEW c \in Clients, (\E plan \in Plans : StartBatch(c, plan)) \/ Leave(c)
      PROVE  acct' = acct
  BY <1>6 DEF StartBatch, Leave
<1>7. ASSUME NEW c \in Clients, ReserveBatch(c)
      PROVE  \E ops : acct' = Reserved(Current, ops)
  BY <1>7 DEF ReserveBatch
<1>8. ASSUME NEW c \in Clients, Deleted(c)
      PROVE  acct' = Current \/ \E bytes : acct' = [Current EXCEPT !.stored = bytes]
  <2> DEFINE row == catalogue[client[c].ops[1].key]
             bytes == Max({0, Current.stored - row.bytes})
  <2>1. acct' = Current \/ acct' = [Current EXCEPT !.stored = bytes]
    BY <1>8 DEF Deleted
  <2> QED BY <2>1
<1>9. ASSUME NEW c \in Clients, NEW i \in DOMAIN client[c].slot, Issue(c, i) \/ Land(c, i) \/ NoEffect(c, i)
      PROVE  acct' = acct
  BY <1>9 DEF Issue, Land, NoEffect
<1> QED BY <1>1, <1>2, <1>3, <1>4, <1>5, <1>6, <1>7, <1>8, <1>9 DEF Next

(* Every step keeps the invariant and every pause of this month.           *)
Holds ==
  acct.paused /\ acct.reason \in Allowances /\ acct'.month = acct.month
    => acct'.paused /\ acct'.used = acct.used

LEMMA PausesPreserved == PauseInv /\ [Next]_vars => PauseInv' /\ Holds
<1> SUFFICES ASSUME PauseInv, [Next]_vars PROVE PauseInv' /\ Holds
  OBVIOUS
<1> DEFINE K == Current
           Good(r) == /\ HasFields(r) /\ r.month = Month(now)
                      /\ ~r.initialized => ~r.paused
                      /\ r.initialized => Noticed(r)
           Frees(r) == acct.paused /\ acct.reason \in Allowances /\ r.month = acct.month
                         => r.paused /\ r.used = acct.used
<1>1. Good(K) /\ Frees(K)
  BY Evaluated DEF PauseInv, Current, Frozen
<1>2. ASSUME NEW r, Good(r), Frees(r), acct' = r PROVE PauseInv' /\ Holds
  BY <1>2 DEF PauseInv, Holds, HasFields, Noticed
<1> HIDE DEF K
<1>3. CASE acct' = acct
  BY <1>3 DEF PauseInv, Holds, HasFields, Noticed
<1>4. CASE acct' = K
  BY <1>4, <1>1, <1>2
<1>5. ASSUME NEW ops, acct' = Reserved(K, ops) PROVE PauseInv' /\ Holds
  <2> DEFINE r == Reserved(K, ops)
  <2>1. Good(r) /\ (K.paused => r = K)
    BY <1>1, ReservedNoticed
  <2>2. acct' = r
    BY <1>5
  <2> HIDE DEF r
  <2>3. Frees(r)
    BY <2>1, <1>1
  <2> QED BY <2>1, <2>2, <2>3, <1>2
<1>6. ASSUME NEW bytes, acct' = [K EXCEPT !.stored = bytes] PROVE PauseInv' /\ Holds
  <2> DEFINE r == [K EXCEPT !.stored = bytes]
  <2>1. Good(r) /\ Frees(r)
    BY <1>1 DEF HasFields, Fields, Noticed
  <2> QED BY <2>1, <1>2, <1>6
<1>7. ASSUME NEW at, acct' = [K EXCEPT !.dispatchAt = at] PROVE PauseInv' /\ Holds
  <2> DEFINE r == [K EXCEPT !.dispatchAt = at]
  <2>1. Good(r) /\ Frees(r)
    BY <1>1 DEF HasFields, Fields, Noticed
  <2> QED BY <2>1, <1>2, <1>7
<1>8. ASSUME NEW n \in K.notes, acct' = Acked(K, n) PROVE PauseInv' /\ Holds
  <2> DEFINE r == Acked(K, n)
             notes == (K.notes \ {n}) \cup {[n EXCEPT !.acked = TRUE]}
  <2>1. /\ HasFields(r) /\ r.month = K.month /\ r.paused = K.paused /\ r.used = K.used
        /\ r.initialized = K.initialized /\ r.notes = notes
    BY <1>1 DEF HasFields, Fields, NoteFields, Acked
  <2>2. ASSUME NEW q \in K.notes, q.kind = "paused", q.month = K.month
        PROVE  \E o \in notes : o.kind = "paused" /\ o.month = K.month
    <3> DEFINE acked == [n EXCEPT !.acked = TRUE]
    <3>1. acked.kind = n.kind /\ acked.month = n.month
      BY <1>1 DEF HasFields, NoteFields
    <3>2. q \in notes \/ q = n
      OBVIOUS
    <3> QED BY <2>2, <3>1, <3>2
  <2>3. Noticed(K) => Noticed(r)
    BY <2>1, <2>2 DEF Noticed
  <2> HIDE DEF r
  <2> QED BY <2>1, <2>3, <1>1, <1>2, <1>8 DEF r
<1>9. ASSUME ~K.initialized, NEW extra \in Baselines, acct' = Evaluate(Baseline(extra), now)
      PROVE  PauseInv' /\ Holds
  <2> DEFINE b == Baseline(extra)
             r == Evaluate(b, now)
  <2>1. HasFields(b) /\ b.initialized
    BY <1>1 DEF Baseline, ChargeDay, HasFields, Fields, K
  <2>2. K.initialized = acct.initialized
    BY Evaluated DEF PauseInv, Current, K
  <2> HIDE DEF b
  <2>3. Good(r)
    BY <2>1, Evaluated
  <2>4. Frees(r)
    BY <2>2, <1>9 DEF PauseInv
  <2> HIDE DEF r
  <2>5. acct' = r
    BY <1>9 DEF r, b
  <2> QED BY <2>3, <2>4, <2>5, <1>2
<1> QED BY <1>3, <1>4, <1>5, <1>6, <1>7, <1>8, <1>9, AccountSteps DEF K

LEMMA PauseInvInitially == Init => PauseInv
BY DEF Init, InitialAccount, PauseInv, HasFields, Fields

LEMMA PauseInvAlways == Spec => []PauseInv
<1>1. PauseInv /\ [Next]_vars => PauseInv'
  BY PausesPreserved
<1> QED BY PauseInvInitially, <1>1, PTL DEF Spec

(* Whenever a bootstrapped account is paused there is a notice of a pause  *)
(* in its month, whichever of evaluation, refusal and rollover paused it   *)
(* (r2-budget.js:84-114, 184).                                             *)
THEOREM PausesAreNotified == Spec => []PauseNotified
<1>1. PauseInv => PauseNotified
  BY DEF PauseInv, Noticed, PauseNotified
<1> QED BY PauseInvAlways, <1>1, PTL

(* A pause for an exhausted monthly allowance lasts for the month, and the *)
(* counters stand still: neither a deletion, a second bootstrap, a refused *)
(* reservation nor an acknowledgement releases it (r2-budget.js:99-105).   *)
THEOREM PausesLast == Spec => PauseHolds
<1>1. PauseInv /\ [Next]_vars => Holds
  BY PausesPreserved
<1>2. PauseInv /\ [Next]_vars =>
        [acct.paused /\ acct.reason \in Allowances /\ acct'.month = acct.month
           => acct'.paused /\ acct'.used = acct.used]_vars
  BY <1>1 DEF Holds
<1> QED BY PauseInvAlways, <1>2, PTL DEF Spec, PauseHolds

-----------------------------------------------------------------------------
(* Batches and days: a grant in use was opened today or earlier, and ends  *)
(* with the day it was charged to.                                         *)

Dated ==
  \A c \in Clients :
    client[c].phase = "open" /\ client[c].batch =>
      /\ client[c].day \in Nat /\ client[c].day <= Day(now)
      /\ client[c].expires <= (client[c].day + 1) * DayTicks

LEMMA TickTypes == DayTicks \in Nat /\ DayTicks > 0 /\ MarginTicks \in Nat /\ BatchTicks \in Nat
BY TimeAssumption

(* A time before the end of a day lies in that day or an earlier one.      *)
LEMMA DayBefore ==
  ASSUME NEW t \in Nat, NEW d \in Nat, t < (d + 1) * DayTicks
  PROVE  Day(t) <= d
<1> DEFINE q == t \div DayTicks
<1>1. q \in Nat /\ q * DayTicks <= t
  BY TickTypes
<1> HIDE DEF q
<1>2. ~(q >= d + 1)
  <2> SUFFICES ASSUME q >= d + 1 PROVE FALSE
    OBVIOUS
  <2>1. q * DayTicks >= (d + 1) * DayTicks
    BY <1>1, TickTypes
  <2>2. q * DayTicks \in Nat /\ (d + 1) * DayTicks \in Nat
    BY <1>1, TickTypes
  <2> QED BY <1>1, <2>1, <2>2
<1> QED BY <1>1, <1>2 DEF Day, q

(* Days are natural numbers and do not go back.                            *)
LEMMA DayGrows ==
  ASSUME NEW t \in Nat, NEW u \in Nat, t <= u
  PROVE  Day(t) \in Nat /\ Day(u) \in Nat /\ Day(t) <= Day(u)
<1>1. Day(t) \in Nat /\ Day(u) \in Nat
  BY TickTypes DEF Day
<1>2. u < (Day(u) + 1) * DayTicks
  BY TickTypes DEF Day
<1>3. t < (Day(u) + 1) * DayTicks
  <2> DEFINE end == (Day(u) + 1) * DayTicks
  <2>1. end \in Nat
    BY <1>1, TickTypes
  <2> HIDE DEF end
  <2>2. u < end
    BY <1>2 DEF end
  <2> QED BY <2>1, <2>2 DEF end
<1> QED BY <1>1, <1>3, DayBefore

(* An expiry does not pass midnight.                                       *)
LEMMA ExpiryToday ==
  ASSUME now \in Nat
  PROVE  Expiry(now) \in Int /\ Expiry(now) <= (Day(now) + 1) * DayTicks
<1> DEFINE a == now + BatchTicks
           b == (Day(now) + 1) * DayTicks - MarginTicks
<1>1. Day(now) \in Nat
  BY DayGrows
<1>2. (Day(now) + 1) * DayTicks \in Nat
  BY <1>1, TickTypes
<1>3. a \in Int /\ b \in Int /\ b <= (Day(now) + 1) * DayTicks
  BY <1>2, TickTypes
<1>4. Min({a, b}) \in {a, b} /\ Min({a, b}) <= b
  <2> HIDE DEF a, b
  <2>1. \E x \in {a, b} : \A y \in {a, b} : x <= y
    BY <1>3
  <2> QED BY <2>1 DEF Min
<1>5. Expiry(now) = Min({a, b})
  BY DEF Expiry
<1> HIDE DEF a, b
<1> QED BY <1>2, <1>3, <1>4, <1>5

LEMMA DatedPreserved ==
  ASSUME IInv, Dated, [Next]_vars
  PROVE  Dated'
<1>1. now \in Nat /\ client \in [Clients -> Invocation] /\ Day(now) \in Nat
  BY DayGrows DEF IInv, Shapes
<1>2. now' \in Nat /\ now <= now' /\ (now' # now => UNCHANGED client)
  <2>1. CASE Tick
    BY <2>1, <1>1 DEF Tick
  <2>2. CASE ~Tick
    <3>1. now' = now
      BY <2>2 DEF Next, vars, BootstrapList, BootstrapCommit, Ack, ClaimDispatch, ReserveSingle,
                  StartBatch, ReserveBatch, Deleted, Leave, Issue, Land, NoEffect
    <3> QED BY <3>1, <1>1
  <2> QED BY <2>1, <2>2
<1>3. CASE UNCHANGED client
  <2>1. Day(now) <= Day(now') /\ Day(now') \in Nat
    BY <1>1, <1>2, DayGrows
  <2> SUFFICES ASSUME NEW c \in Clients, client[c].phase = "open" /\ client[c].batch
               PROVE  /\ client[c].day \in Nat /\ client[c].day <= Day(now')
                      /\ client[c].expires <= (client[c].day + 1) * DayTicks
    BY <1>3 DEF Dated
  <2>2. /\ client[c].day \in Nat /\ client[c].day <= Day(now)
        /\ client[c].expires <= (client[c].day + 1) * DayTicks
    BY DEF Dated
  <2> QED BY <1>1, <2>1, <2>2
<1>4. ASSUME NEW c \in Clients, now' = now,
             \A d \in Clients \ {c} : client'[d] = client[d],
             client'[c].phase = "open" /\ client'[c].batch =>
               /\ client'[c].day \in Nat /\ client'[c].day <= Day(now)
               /\ client'[c].expires <= (client'[c].day + 1) * DayTicks
      PROVE  Dated'
  BY <1>4 DEF Dated
<1>5. ASSUME NEW c \in Clients, NEW ops, NEW expires, now' = now, Open(c, ops, FALSE, expires)
      PROVE  Dated'
  <2>1. client'[c].batch = FALSE /\ \A d \in Clients \ {c} : client'[d] = client[d]
    BY <1>5, <1>1 DEF Open
  <2> QED BY <2>1, <1>4, <1>5
<1>6. ASSUME NEW c \in Clients, now' = now, ReserveBatch(c)
      PROVE  Dated'
  <2> DEFINE e == Min({Expiry(now), client[c].expires})
  <2>1. client[c].expires \in Int /\ Expiry(now) \in Int /\ Expiry(now) <= (Day(now) + 1) * DayTicks
    BY <1>1, ExpiryToday DEF Invocation
  <2>2. e \in Int /\ e <= Expiry(now)
    <3> DEFINE a == Expiry(now)
               b == client[c].expires
    <3>1. a \in Int /\ b \in Int
      BY <2>1
    <3>2. Min({a, b}) \in {a, b} /\ Min({a, b}) <= a
      <4> HIDE DEF a, b
      <4>1. \E x \in {a, b} : \A y \in {a, b} : x <= y
        BY <3>1
      <4> QED BY <4>1 DEF Min
    <3> QED BY <3>1, <3>2
  <2>3. (Day(now) + 1) * DayTicks \in Nat
    BY <1>1, TickTypes
  <2>4. e <= (Day(now) + 1) * DayTicks
    <3> HIDE DEF e
    <3> QED BY <2>1, <2>2, <2>3
  <2>5. CASE Open(c, client[c].ops, TRUE, e)
    <3>1. /\ client'[c].day = Day(now) /\ client'[c].expires = e
          /\ \A d \in Clients \ {c} : client'[d] = client[d]
      BY <2>5, <1>1 DEF Open
    <3> HIDE DEF e
    <3> QED BY <3>1, <2>4, <1>1, <1>4, <1>6
  <2>6. CASE client' = [client EXCEPT ![c] = Idle]
    <3>1. client'[c].phase = "idle" /\ \A d \in Clients \ {c} : client'[d] = client[d]
      BY <2>6, <1>1 DEF Idle
    <3> QED BY <3>1, <1>4, <1>6
  <2> QED BY <1>6, <2>5, <2>6 DEF ReserveBatch
<1>7. ASSUME NEW c \in Clients, now' = now,
             (\E plan \in Plans : StartBatch(c, plan)) \/ Deleted(c) \/ Leave(c)
      PROVE  Dated'
  <2>1. client'[c].phase \in {"calling", "idle"} /\ \A d \in Clients \ {c} : client'[d] = client[d]
    <3>1. /\ Idle.phase = "idle"
          /\ \A plan : [Idle EXCEPT !.phase = "calling", !.ops = plan, !.expires = Expiry(now)].phase = "calling"
      BY DEF Idle
    <3>2. CASE \E plan \in Plans : StartBatch(c, plan)
      BY <3>1, <3>2, <1>1 DEF StartBatch
    <3>3. CASE Deleted(c) \/ Leave(c)
      BY <3>1, <3>3, <1>1 DEF Deleted, Leave
    <3> QED BY <1>7, <3>2, <3>3
  <2> QED BY <2>1, <1>4, <1>7
<1>8. ASSUME NEW c \in Clients, NEW i \in DOMAIN client[c].slot, now' = now,
             Issue(c, i) \/ Land(c, i) \/ NoEffect(c, i)
      PROVE  Dated'
  <2>1. client[c] \in Invocation
    BY <1>1
  <2>2. client[c].phase = "open" /\ \A d \in Clients \ {c} : client'[d] = client[d]
    BY <1>8, <1>1 DEF Issue, Land, NoEffect, SetSlot
  <2>3. /\ client'[c].batch = client[c].batch /\ client'[c].day = client[c].day
        /\ client'[c].expires = client[c].expires
    BY <1>8, <1>1, <2>1 DEF Issue, Land, NoEffect, SetSlot, Invocation
  <2>4. client[c].batch => /\ client[c].day \in Nat /\ client[c].day <= Day(now)
                           /\ client[c].expires <= (client[c].day + 1) * DayTicks
    BY <2>2 DEF Dated
  <2> QED BY <2>2, <2>3, <2>4, <1>4, <1>8
<1>9. CASE Tick \/ BootstrapList \/ BootstrapCommit \/ Ack \/ ClaimDispatch \/ UNCHANGED vars
  <2>1. UNCHANGED client
    BY <1>9 DEF Tick, BootstrapList, BootstrapCommit, Ack, ClaimDispatch, vars
  <2> QED BY <2>1, <1>3
<1>10. ASSUME NEW c \in Clients, NEW op \in Singles, ReserveSingle(c, op), now' = now
       PROVE  Dated'
  <2>1. Open(c, <<op>>, FALSE, now + SingleTicks) \/ UNCHANGED client
    BY <1>10 DEF ReserveSingle
  <2> QED BY <2>1, <1>3, <1>5, <1>10
<1>11. CASE now' # now
  BY <1>11, <1>2, <1>3
<1>12. CASE now' = now
  BY <1>12, <1>6, <1>7, <1>8, <1>9, <1>10 DEF Next
<1> QED BY <1>11, <1>12

(* A batch issues its operations on the day they were charged to: its      *)
(* grant ends before midnight (r2-budget.js:54-64, 325-346).               *)
THEOREM BatchesKeepTheirDay == Spec => IssuedOnChargedDay
<1>1. Init => Dated
  BY DEF Init, Dated, Idle
<1>2. IInv /\ Dated /\ [Next]_vars => Dated'
  BY DatedPreserved
<1>3. ASSUME IInv, Dated, [Next]_vars, NEW c \in Clients,
             client[c].batch, billed' # billed, client'[c].slot # client[c].slot
      PROVE  Day(now) = client[c].day
  <2>1. client \in [Clients -> Invocation] /\ now \in Nat
    BY <1>3 DEF IInv, Shapes
  <2>2. PICK d \in Clients : \E i \in DOMAIN client[d].slot : Issue(d, i)
    BY <1>3 DEF Next, vars, Tick, BootstrapList, BootstrapCommit, Ack, ClaimDispatch, ReserveSingle,
                StartBatch, ReserveBatch, Deleted, Leave, Land, NoEffect
  <2>3. d = c
    BY <1>3, <2>1, <2>2 DEF Issue, SetSlot
  <2>4. client[c].phase = "open" /\ now < client[c].expires
    BY <2>2, <2>3 DEF Issue
  <2>5. /\ client[c].day \in Nat /\ client[c].day <= Day(now)
        /\ client[c].expires <= (client[c].day + 1) * DayTicks
    BY <1>3, <2>4 DEF Dated
  <2>6. now < (client[c].day + 1) * DayTicks
    <3>1. (client[c].day + 1) * DayTicks \in Nat /\ client[c].expires \in Int
      BY <2>1, <2>5, TickTypes DEF Invocation
    <3> QED BY <2>1, <2>4, <2>5, <3>1
  <2>7. Day(now) \in Nat /\ Day(now) <= client[c].day
    BY <2>1, <2>5, <2>6, DayBefore, DayGrows
  <2> QED BY <2>5, <2>7
<1>4. IInv /\ Dated /\ [Next]_vars =>
        [\A c \in Clients : client[c].batch /\ billed' # billed /\ client'[c].slot # client[c].slot
           => Day(now) = client[c].day]_vars
  BY <1>3
<1> QED BY IInvAlways, <1>1, <1>2, <1>4, PTL DEF Spec, IssuedOnChargedDay


-----------------------------------------------------------------------------
(* The bill of a cycle.  Every operation that is billed was charged before *)
(* it was issued, to the day it is issued on or to the day before.         *)

(* The operations charged to the days from d on.                           *)
Since(daily, k, d) == UNION {{x} \X (1 .. daily[x][k]) : x \in {y \in Days : y >= d}}

(* The operations that may still be issued, and those charged from d on.   *)
MayIssue(c, i, k) ==
  /\ client[c].phase = "open" /\ now < client[c].expires
  /\ i \in DOMAIN client[c].slot /\ client[c].slot[i] = "held"
  /\ client[c].ops[i].kind # "delete" /\ Class(client[c].ops[i].kind) = k
Issuable(k) == {p \in Clients \X Nat : MayIssue(p[1], p[2], k)}
IssuableSince(k, d) == {p \in Issuable(k) : client[p[1]].day >= d}

(* The first day of the billing cycle, which may lie before the clock.     *)
CycleStart == Cycle(now) * MonthDays - CycleOffset

(* A bootstrap lists the bucket once in each month, of which a cycle has   *)
(* at most two.                                                            *)
LastMonth == (Cycle(now) * MonthDays + MonthDays - 1 - CycleOffset) \div MonthDays
ListsDue ==
  (IF inventory.month = Month(now) THEN 0 ELSE 1) + (IF Month(now) < LastMonth THEN 1 ELSE 0)

DailyShape == [Days -> [Classes -> Nat]]
NoCharge == [k \in Classes |-> 0]
BillShape ==
  /\ now \in 0 .. MaxTime /\ acct.daily \in DailyShape /\ billed \in [Classes -> Nat]
  /\ \A x \in Days : x > Day(now) => acct.daily[x] = NoCharge
  /\ inventory.month \in Int /\ inventory.month <= Month(now)
  /\ \A k \in Classes : IsFiniteSet(Issuable(k))

(* A reservation is issued on its day or on the next one.                  *)
Lasting ==
  \A c \in Clients : client[c].phase = "open" =>
    /\ client[c].day \in Nat /\ client[c].day <= Day(now)
    /\ client[c].expires <= (client[c].day + 2) * DayTicks

(* What is billed and what may still be is charged, and within the         *)
(* allowance; so is what may still be alone, from yesterday on.            *)
Covered(k) ==
  LET n == Cardinality(Issuable(k)) IN
  /\ billed[k] + n <= Cardinality(Since(acct.daily, k, CycleStart - 1))
  /\ billed[k] + n <= Free[k]
  /\ \A d \in Int : d >= Day(now) - 1 =>
       Cardinality(IssuableSince(k, d)) <= Cardinality(Since(acct.daily, k, d))

Unguarded ==
  /\ \A k \in Classes : Issuable(k) = {}
  /\ billed["class_b"] <= Free["class_b"]
  /\ 2 <= Free["class_a"] /\ billed["class_a"] + ListsDue <= Free["class_a"]

BillInv ==
  /\ BillShape /\ Lasting
  /\ IF acct.initialized THEN \A k \in Classes : Covered(k) ELSE Unguarded

-----------------------------------------------------------------------------
(* The days of the account are finitely many.                              *)
LEMMA DaysFinite == IsFiniteSet(Days) /\ Days \in SUBSET Nat
<1>1. MaxTime \div DayTicks \in Int
  BY TimeAssumption
<1>2. IsFiniteSet(0 .. (MaxTime \div DayTicks))
  BY <1>1, FS_Interval
<1> QED BY <1>1, <1>2 DEF Days

(* What is charged from a day on, operation by operation.                  *)
LEMMA SinceMember ==
  ASSUME NEW daily, NEW k, NEW d, NEW p
  PROVE  p \in Since(daily, k, d) <=>
           \E x \in Days : x >= d /\ \E i \in 1 .. daily[x][k] : p = <<x, i>>
<1>1. p \in Since(daily, k, d) <=> \E x \in {y \in Days : y >= d} : p \in {x} \X (1 .. daily[x][k])
  BY DEF Since
<1> QED BY <1>1

(* What is charged is finite.                                              *)
LEMMA SinceFinite ==
  ASSUME NEW daily \in DailyShape, NEW k \in Classes, NEW d
  PROVE  IsFiniteSet(Since(daily, k, d)) /\ Cardinality(Since(daily, k, d)) \in Nat
<1> DEFINE S == {y \in Days : y >= d}
           T == {{x} \X (1 .. daily[x][k]) : x \in S}
           f == [x \in S |-> {x} \X (1 .. daily[x][k])]
<1>1. IsFiniteSet(S)
  BY DaysFinite, FS_Subset
<1>2. f \in Surjection(S, T)
  BY DEF Surjection
<1>3. IsFiniteSet(T)
  <2> HIDE DEF S, T, f
  <2> QED BY <1>1, <1>2, FS_Surjection
<1>4. \A t \in T : IsFiniteSet(t)
  <2> SUFFICES ASSUME NEW x \in S PROVE IsFiniteSet({x} \X (1 .. daily[x][k]))
    OBVIOUS
  <2>1. daily[x][k] \in Int
    BY DEF DailyShape
  <2>2. IsFiniteSet(1 .. daily[x][k])
    BY <2>1, FS_Interval
  <2> QED BY <2>2, FS_Singleton, FS_Product
<1>5. IsFiniteSet(UNION T)
  <2> HIDE DEF T
  <2> QED BY <1>3, <1>4, FS_UNION
<1> QED BY <1>5, FS_CardinalityType DEF Since

(* Only the days from d on count.                                          *)
LEMMA SinceAgrees ==
  ASSUME NEW daily, NEW other, NEW k, NEW d, \A x \in Days : x >= d => daily[x] = other[x]
  PROVE  Since(daily, k, d) = Since(other, k, d)
<1>1. \A p : p \in Since(daily, k, d) <=> p \in Since(other, k, d)
  BY SinceMember
<1> QED BY <1>1

(* An earlier start counts no less.                                        *)
LEMMA SinceGrows ==
  ASSUME NEW daily \in DailyShape, NEW k \in Classes, NEW d \in Int, NEW e \in Int, d <= e
  PROVE  Cardinality(Since(daily, k, e)) <= Cardinality(Since(daily, k, d))
<1>1. \A x \in Days : x >= e => x >= d
  BY DaysFinite
<1>2. Since(daily, k, e) \in SUBSET Since(daily, k, d)
  BY <1>1, SinceMember
<1> QED BY <1>2, SinceFinite, FS_Subset

(* A charge adds its operations to every range that its day is in.         *)
LEMMA SinceAdds ==
  ASSUME NEW daily \in DailyShape, NEW other \in DailyShape, NEW k \in Classes, NEW d \in Int,
         NEW t \in Days, d <= t, NEW n \in Nat, other[t][k] = daily[t][k] + n,
         \A x \in Days \ {t} : other[x] = daily[x]
  PROVE  Cardinality(Since(other, k, d)) = Cardinality(Since(daily, k, d)) + n
<1> DEFINE a == daily[t][k]
           new == {t} \X ((a + 1) .. (a + n))
           old == Since(daily, k, d)
<1>1. a \in Nat
  BY DEF DailyShape
<1>2. IsFiniteSet(new) /\ Cardinality(new) = n
  <2> DEFINE I == (a + 1) .. (a + n)
  <2>1. IsFiniteSet(I) /\ Cardinality(I) = n
    <3> HIDE DEF a
    <3>1. a + 1 \in Int /\ a + n \in Int
      BY <1>1
    <3>2. IsFiniteSet(I) /\ Cardinality(I) = IF a + 1 > a + n THEN 0 ELSE (a + n) - (a + 1) + 1
      BY <3>1, FS_Interval
    <3> QED BY <1>1, <3>2
  <2> HIDE DEF I, a
  <2>2. IsFiniteSet({t}) /\ Cardinality({t}) = 1
    BY FS_Singleton
  <2>3. IsFiniteSet({t} \X I) /\ Cardinality({t} \X I) = 1 * Cardinality(I)
    BY <2>1, <2>2, FS_Product
  <2> QED BY <2>1, <2>3 DEF I
<1>3. \A p : p \in new <=> \E i \in (a + 1) .. (a + n) : p = <<t, i>>
  OBVIOUS
<1>4. \A p : p \in Since(other, k, d) <=> p \in old \/ p \in new
  <2> SUFFICES ASSUME NEW p PROVE p \in Since(other, k, d) <=> p \in old \/ p \in new
    OBVIOUS
  <2> HIDE DEF new, old
  <2>1. \A i : i \in 1 .. (a + n) <=> i \in 1 .. a \/ i \in (a + 1) .. (a + n)
    BY <1>1
  <2>2. (\E i \in 1 .. other[t][k] : p = <<t, i>>) <=>
          (\E i \in 1 .. daily[t][k] : p = <<t, i>>) \/ p \in new
    BY <1>3, <2>1
  <2>3. t >= d
    BY DaysFinite
  <2>4. p \in old <=> \E x \in Days : x >= d /\ \E i \in 1 .. daily[x][k] : p = <<x, i>>
    BY SinceMember DEF old
  <2>5. p \in Since(other, k, d) <=> \E x \in Days : x >= d /\ \E i \in 1 .. other[x][k] : p = <<x, i>>
    BY SinceMember
  <2>6. \A x \in Days : x # t => other[x] = daily[x]
    OBVIOUS
  <2> HIDE DEF a
  <2> QED BY <2>2, <2>3, <2>4, <2>5, <2>6, Zenon
<1>5. Since(other, k, d) = old \cup new
  BY <1>4
<1>6. old \cap new = {}
  <2> SUFFICES ASSUME NEW p \in old, p \in new PROVE FALSE
    OBVIOUS
  <2>1. PICK x \in Days : x >= d /\ \E i \in 1 .. daily[x][k] : p = <<x, i>>
    BY SinceMember
  <2>2. PICK i \in 1 .. daily[x][k] : p = <<x, i>>
    BY <2>1
  <2>3. x = t /\ i \in (a + 1) .. (a + n)
    BY <2>2, <1>3
  <2> QED BY <1>1, <2>2, <2>3
<1>7. IsFiniteSet(old) /\ Cardinality(old) \in Nat /\ Cardinality({}) = 0
  BY SinceFinite, FS_EmptySet
<1> HIDE DEF old, new
<1>8. Cardinality(old \cup new) = Cardinality(old) + Cardinality(new) - Cardinality(old \cap new)
  BY <1>2, <1>7, FS_Union
<1>9. Cardinality(old \cup new) = Cardinality(old) + n
  <2>1. Cardinality(old \cap new) = 0
    BY <1>6, <1>7, Zenon
  <2> QED BY <1>2, <1>7, <1>8, <2>1
<1> QED BY <1>5, <1>9, Zenon DEF old

(* All of the window is what rolling() sums.                               *)
LEMMA RollingIsSince ==
  ASSUME NEW s, NEW k \in Classes, NEW d \in Int, s.daily \in DailyShape
  PROVE  Cardinality(Since(s.daily, k, d)) <= Rolling(s)[k] /\ Rolling(s)[k] \in Nat
<1>1. Rolling(s)[k] = Cardinality(Charged(s, k))
  BY DEF Rolling
<1>2. Charged(s, k) = Since(s.daily, k, 0)
  <2>0. \A y \in Days : y >= 0
    BY DaysFinite
  <2>1. {y \in Days : y >= 0} = Days
    BY <2>0, Zenon
  <2> QED BY <2>1 DEF Charged, Since
<1>3. Since(s.daily, k, d) \in SUBSET Since(s.daily, k, 0)
  <2>1. \A x \in Days : x >= 0
    BY DaysFinite
  <2> QED BY <2>1, SinceMember
<1> QED BY <1>1, <1>2, <1>3, SinceFinite, FS_Subset

-----------------------------------------------------------------------------
(* Days, months and cycles.                                                *)

(* A quotient and its remainder.                                           *)
LEMMA Quotient ==
  ASSUME NEW a \in Int, NEW b \in Nat, b > 0
  PROVE  /\ a \div b \in Int /\ b * (a \div b) \in Int
         /\ b * (a \div b) <= a /\ a < b * (a \div b) + b
OBVIOUS

(* Multiples of b are b apart.                                             *)
LEMMA Multiples ==
  ASSUME NEW p \in Int, NEW q \in Int, NEW b \in Nat, b > 0, b * p < b * q + b
  PROVE  p <= q
<1>1. CASE p >= q + 1
  <2>1. PICK e \in Nat : p = q + 1 + e
    <3>1. p - q - 1 \in Nat
      BY <1>1
    <3> QED BY <3>1
  <2>2. b * e \in Nat
    OBVIOUS
  <2>3. b * p = b * q + b + b * e
    BY <2>1
  <2>4. b * q \in Int
    OBVIOUS
  <2> QED BY <2>2, <2>3, <2>4
<1> QED BY <1>1

(* The parameters of the calendar are numbers.                             *)
LEMMA Parameters ==
  /\ DayTicks \in Nat /\ DayTicks > 0 /\ MonthDays \in Nat /\ MonthDays > 0
  /\ SafetyDays \in Nat /\ SafetyDays > MonthDays /\ SingleTicks \in Nat /\ SingleTicks <= DayTicks + 1
  /\ CycleOffset \in Nat /\ MaxTime \in Nat
BY TimeAssumption

(* The clock is within the days of the account.                            *)
LEMMA TodayIsADay ==
  ASSUME now \in 0 .. MaxTime
  PROVE  now \in Nat /\ Day(now) \in Nat /\ Day(now) \in Days
<1>1. now \in Nat /\ now <= MaxTime /\ MaxTime \in Nat
  BY Parameters
<1>2. Day(now) \in Nat /\ Day(MaxTime) \in Nat /\ Day(now) <= Day(MaxTime)
  BY <1>1, DayGrows
<1> QED BY <1>1, <1>2 DEF Days, Day

(* The cycle began less than a month ago.                                  *)
LEMMA CycleBegan ==
  ASSUME NEW t \in Nat
  PROVE  LET start == Cycle(t) * MonthDays - CycleOffset IN
         start \in Int /\ start <= Day(t) /\ Day(t) - MonthDays <= start - 1
<1> DEFINE a == Day(t) + CycleOffset
           q == a \div MonthDays
           start == Cycle(t) * MonthDays - CycleOffset
<1>1. a \in Int /\ Day(t) \in Nat
  BY DayGrows, Parameters
<1>2. q \in Int /\ MonthDays * q \in Int /\ MonthDays * q <= a /\ a < MonthDays * q + MonthDays
  <2> HIDE DEF a
  <2> QED BY <1>1, Quotient, Parameters
<1>3. start = q * MonthDays - CycleOffset
  BY DEF Cycle
<1> HIDE DEF q, start
<1>4. q * MonthDays = MonthDays * q
  BY <1>2, Parameters
<1>5. start \in Int /\ start <= Day(t) /\ Day(t) - MonthDays <= start - 1
  BY <1>1, <1>2, <1>3, <1>4, Parameters
<1> QED BY <1>5 DEF start

(* And so for the clock.                                                   *)
LEMMA CycleFacts ==
  ASSUME now \in 0 .. MaxTime
  PROVE  CycleStart \in Int /\ CycleStart <= Day(now) /\ Day(now) - MonthDays <= CycleStart - 1
BY CycleBegan, TodayIsADay DEF CycleStart

-----------------------------------------------------------------------------
(* The days of the account.                                                *)

(* A notice changes no charge.                                             *)
LEMMA NotifyDaily ==
  ASSUME NEW s, NEW kind, HasFields(s)
  PROVE  Notify(s, kind).daily = s.daily
BY DEF Notify, HasFields, Fields

(* Of the days, an evaluation only drops the old ones.                     *)
LEMMA EvaluateDaily ==
  ASSUME NEW s, NEW t, HasFields(s)
  PROVE  Evaluate(s, t).daily = Prune(s, t).daily
<1> DEFINE p == Prune(s, t)
           c == ClearRolling(p)
           r == Rollover(c, t)
           l == Latch(r)
           Same(x) == HasFields(x) /\ x.daily = p.daily
<1>1. Same(p)
  BY DEF Prune, HasFields, Fields
<1> HIDE DEF p
<1>2. Same(c)
  BY <1>1 DEF ClearRolling, Unpause, HasFields, Fields
<1> HIDE DEF c
<1>3. Same(r)
  BY <1>2 DEF Rollover, Unpause, HasFields, Fields
<1> HIDE DEF r
<1>4. Same(l)
  BY <1>3 DEF Latch, Pause, HasFields, Fields
<1> HIDE DEF l
<1>5. Announce(l, s.paused).daily = l.daily
  <2> DEFINE m == IF s.paused /\ ~l.paused THEN Notify(l, "resumed") ELSE l
  <2>1. HasFields(m) /\ m.daily = l.daily
    BY <1>4, NotifyDaily, NotifyKeeps
  <2>2. Announce(l, s.paused) \in {Notify(m, "paused"), Notify(m, "warning"), m}
    BY DEF Announce
  <2> HIDE DEF m
  <2> QED BY <2>1, <2>2, NotifyDaily
<1>6. Evaluate(s, t) = IF r.initialized THEN Announce(l, s.paused) ELSE r
  BY DEF Evaluate, l, r, c, p
<1>7. Evaluate(s, t).daily = p.daily
  BY <1>3, <1>4, <1>5, <1>6
<1> QED BY <1>7 DEF p

(* What stays of the days: those of the last month, which is more than the *)
(* cycle and less than the window.                                         *)
Stays(daily) ==
  /\ daily \in DailyShape
  /\ \A x \in Days : x >= Day(now) - MonthDays => daily[x] = acct.daily[x]

(* What rolling() drops is older than a month.                             *)
LEMMA PruneDaily ==
  ASSUME NEW s, HasFields(s), s.daily \in DailyShape, now \in 0 .. MaxTime,
         \A x \in Days : x > Day(now) => s.daily[x] = NoCharge
  PROVE  /\ Prune(s, now).daily \in DailyShape
         /\ \A x \in Days : x >= Day(now) - MonthDays => Prune(s, now).daily[x] = s.daily[x]
         /\ \A x \in Days : x > Day(now) => Prune(s, now).daily[x] = NoCharge
<1> DEFINE p == [d \in Days |-> IF d \in Window(now) THEN s.daily[d] ELSE [k \in Classes |-> 0]]
<1>1. Prune(s, now).daily = p
  BY DEF Prune, HasFields, Fields
<1>2. p \in DailyShape
  BY DEF DailyShape
<1>3. \A x \in Days : x >= Day(now) - MonthDays /\ x <= Day(now) => x \in Window(now)
  BY DaysFinite, TodayIsADay, Parameters DEF Window
<1>4. \A x \in Days : x > Day(now) => x \notin Window(now)
  BY DaysFinite, TodayIsADay DEF Window
<1>5. \A x \in Days : x <= Day(now) \/ x > Day(now)
  BY DaysFinite, TodayIsADay
<1>6. \A x \in Days : p[x] = IF x \in Window(now) THEN s.daily[x] ELSE NoCharge
  BY DEF NoCharge
<1> HIDE DEF p
<1> QED BY <1>1, <1>2, <1>3, <1>4, <1>5, <1>6

(* So the current account still holds the charges of the last month.       *)
LEMMA CurrentDaily ==
  ASSUME BillShape, PauseInv
  PROVE  /\ HasFields(Current) /\ Current.initialized = acct.initialized
         /\ Stays(Current.daily) /\ \A x \in Days : x > Day(now) => Current.daily[x] = NoCharge
<1>1. HasFields(acct)
  BY DEF PauseInv
<1>2. HasFields(Current) /\ Current.initialized = acct.initialized
  BY <1>1, Evaluated DEF Current
<1>3. Current.daily = Prune(acct, now).daily
  BY <1>1, EvaluateDaily DEF Current
<1> QED BY <1>1, <1>2, <1>3, PruneDaily DEF BillShape, Stays

(* A refused reservation charges nothing.                                  *)
LEMMA RefusedDaily ==
  ASSUME NEW s, NEW ops, HasFields(s), ~Allowed(s, ops)
  PROVE  Reserved(s, ops).daily = s.daily /\ Reserved(s, ops).initialized = s.initialized
<1>1. CASE Closed(s)
  BY <1>1 DEF Reserved
<1>2. CASE ~Closed(s)
  <2> DEFINE stopped == Pause(s, Refusal(s, ops))
  <2>1. Reserved(s, ops) = Notify(stopped, "paused")
    BY <1>2 DEF Reserved, Allowed
  <2>2. HasFields(stopped) /\ stopped.daily = s.daily /\ stopped.initialized = s.initialized
    BY DEF Pause, HasFields, Fields
  <2> HIDE DEF stopped
  <2> QED BY <2>1, <2>2, NotifyDaily, NotifyKeeps
<1> QED BY <1>1, <1>2

(* An allowed one is charged to its day.                                   *)
LEMMA AllowedDaily ==
  ASSUME BillShape, PauseInv, NEW ops, Allowed(Current, ops), Counts(ops) \in [Classes -> Nat]
  PROVE  LET r == Reserved(Current, ops) IN
         /\ r.initialized /\ acct.initialized /\ r.daily \in DailyShape
         /\ \A k \in Classes : r.daily[Day(now)][k] = acct.daily[Day(now)][k] + Counts(ops)[k]
         /\ \A x \in Days : x >= Day(now) - MonthDays /\ x # Day(now) => r.daily[x] = acct.daily[x]
         /\ \A x \in Days : x > Day(now) => r.daily[x] = NoCharge
<1> DEFINE s == Current
           t == Day(now)
           charged == Charge(s, now, Counts(ops), Delta(ops))
           plus == [k \in Classes |-> s.daily[t][k] + Counts(ops)[k]]
<1>1. /\ HasFields(s) /\ s.initialized = acct.initialized
      /\ Stays(s.daily) /\ \A x \in Days : x > t => s.daily[x] = NoCharge
  BY CurrentDaily
<1>2. now \in 0 .. MaxTime /\ t \in Days /\ t \in Nat
  BY TodayIsADay DEF BillShape
<1>3. Reserved(s, ops) = Evaluate(charged, now) /\ s.initialized
  BY DEF Reserved, Allowed, Closed
<1> HIDE DEF s
<1>4. HasFields(charged) /\ charged.initialized = s.initialized /\ charged.daily = [s.daily EXCEPT ![t] = plus]
  BY <1>1 DEF Charge, ChargeDay, HasFields, Fields
<1>5. plus \in [Classes -> Nat]
  BY <1>1, <1>2 DEF Stays, DailyShape
<1> HIDE DEF charged, t
<1>6. /\ charged.daily \in DailyShape /\ charged.daily[t] = plus
      /\ \A x \in Days \ {t} : charged.daily[x] = s.daily[x]
  <2> HIDE DEF plus
  <2> QED BY <1>1, <1>2, <1>4, <1>5 DEF Stays, DailyShape
<1>7. \A x \in Days : x > t => x # t
  BY <1>2, DaysFinite
<1>8. /\ Prune(charged, now).daily \in DailyShape
      /\ \A x \in Days : x >= t - MonthDays => Prune(charged, now).daily[x] = charged.daily[x]
      /\ \A x \in Days : x > t => Prune(charged, now).daily[x] = NoCharge
  BY <1>1, <1>2, <1>4, <1>6, <1>7, PruneDaily DEF t
<1>9. Evaluate(charged, now).daily = Prune(charged, now).daily /\ Evaluate(charged, now).initialized = charged.initialized
  BY <1>4, EvaluateDaily, Evaluated
<1>10. t >= t - MonthDays /\ s.daily[t] = acct.daily[t]
  BY <1>1, <1>2, Parameters DEF Stays, t
<1>11. \A k \in Classes : plus[k] = acct.daily[t][k] + Counts(ops)[k]
  BY <1>10
<1> HIDE DEF plus
<1>12. LET r == Evaluate(charged, now) IN
         /\ r.initialized /\ acct.initialized /\ r.daily \in DailyShape
         /\ \A k \in Classes : r.daily[t][k] = acct.daily[t][k] + Counts(ops)[k]
         /\ \A x \in Days : x >= t - MonthDays /\ x # t => r.daily[x] = acct.daily[x]
         /\ \A x \in Days : x > t => r.daily[x] = NoCharge
  BY <1>1, <1>2, <1>3, <1>4, <1>6, <1>8, <1>9, <1>10, <1>11 DEF Stays, t
<1> QED BY <1>3, <1>12 DEF s, t

(* And it was allowed because it stays below the line.                     *)
LEMMA AllowedBelow ==
  ASSUME NEW s, NEW ops, Allowed(s, ops), NEW k \in Classes
  PROVE  s.initialized /\ ~(Rolling(s)[k] + Counts(ops)[k] >= Stop[k])
<1> DEFINE u == Rolling(s)
           n == Counts(ops)
           calendar == FirstClass(LAMBDA j : s.used[j] + Counts(ops)[j] >= Stop[j])
           window == FirstClass(LAMBDA j : u[j] + Counts(ops)[j] >= Stop[j])
<1>1. s.initialized /\ Refusal(s, ops) = "none"
  BY DEF Allowed, Closed
<1>2. window = "none"
  <2>1. window \in Classes \cup {"none"}
    BY DEF FirstClass, Classes
  <2>2. calendar # "none" \/ window = "none" \/ Refusal(s, ops) = RollingReason[window]
    BY DEF Refusal
  <2>3. calendar # "none" => Refusal(s, ops) = calendar
    BY DEF Refusal
  <2> HIDE DEF window, calendar
  <2>4. \A j \in Classes : RollingReason[j] # "none"
    BY DEF RollingReason
  <2> QED BY <1>1, <2>1, <2>2, <2>3, <2>4
<1> HIDE DEF u, n
<1>3. k = "class_a" \/ k = "class_b"
  BY DEF Classes
<1>4. ~(u["class_a"] + Counts(ops)["class_a"] >= Stop["class_a"])
  BY <1>2 DEF FirstClass
<1>5. ~(u["class_b"] + Counts(ops)["class_b"] >= Stop["class_b"])
  BY <1>2 DEF FirstClass
<1> QED BY <1>1, <1>3, <1>4, <1>5 DEF u

(* What may be issued is finite.                                           *)
LEMMA IssuableCards ==
  ASSUME BillShape, NEW k \in Classes, NEW d
  PROVE  /\ IsFiniteSet(Issuable(k)) /\ Cardinality(Issuable(k)) \in Nat
         /\ IsFiniteSet(IssuableSince(k, d)) /\ Cardinality(IssuableSince(k, d)) \in Nat
<1>1. IsFiniteSet(Issuable(k))
  BY DEF BillShape
<1>2. IssuableSince(k, d) \in SUBSET Issuable(k)
  BY DEF IssuableSince
<1> QED BY <1>1, <1>2, FS_Subset, FS_CardinalityType

(* The allowances are numbers, and the stop line is within them.           *)
LEMMA FreeType == Free \in [Allowances -> Nat] /\ Stop \in [Allowances -> Nat]
                  /\ \A k \in Classes : Free[k] \in Nat /\ Stop[k] \in Nat /\ Stop[k] <= Free[k]
BY AllowanceAssumption DEF Allowances

(* A set within the union of two is no larger than both together.          *)
LEMMA UnionBound ==
  ASSUME NEW S, NEW T, NEW U, IsFiniteSet(T), IsFiniteSet(U), S \in SUBSET (T \cup U)
  PROVE  IsFiniteSet(S) /\ Cardinality(S) \in Nat /\ Cardinality(S) <= Cardinality(T) + Cardinality(U)
<1>1. /\ IsFiniteSet(T \cup U) /\ Cardinality(T \cup U) = Cardinality(T) + Cardinality(U) - Cardinality(T \cap U)
  BY FS_Union
<1>2. IsFiniteSet(T \cap U)
  BY FS_Intersection
<1>3. Cardinality(T) \in Nat /\ Cardinality(U) \in Nat /\ Cardinality(T \cap U) \in Nat
  BY <1>2, FS_CardinalityType
<1>4. IsFiniteSet(S) /\ Cardinality(S) <= Cardinality(T \cup U)
  BY <1>1, FS_Subset
<1>5. Cardinality(S) \in Nat
  BY <1>4, FS_CardinalityType
<1> QED BY <1>1, <1>3, <1>4, <1>5

(* A step that charges and bills nothing, and after which no more may be   *)
(* issued than before.                                                     *)
LEMMA QuietBill ==
  ASSUME BillInv, PauseInv, UNCHANGED <<now, billed, inventory>>, acct'.initialized = acct.initialized,
         Stays(acct'.daily), \A x \in Days : x > Day(now) => acct'.daily[x] = NoCharge, Lasting',
         \A k \in Classes : \A p \in Issuable(k)' : p \in Issuable(k) /\ client'[p[1]].day = client[p[1]].day
  PROVE  BillInv'
<1>1. now \in 0 .. MaxTime /\ acct.daily \in DailyShape /\ billed \in [Classes -> Nat] /\ BillShape
  BY DEF BillInv, BillShape
<1>2. Day(now)' = Day(now) /\ Month(now)' = Month(now) /\ CycleStart' = CycleStart /\ ListsDue' = ListsDue
  BY DEF Day, Month, Cycle, CycleStart, ListsDue, LastMonth
<1>3. \A k \in Classes : Issuable(k)' \in SUBSET Issuable(k)
  OBVIOUS
<1>4. \A k \in Classes : \A d : IssuableSince(k, d)' \in SUBSET IssuableSince(k, d)
  BY DEF IssuableSince
<1>5. ASSUME NEW k \in Classes
      PROVE  /\ IsFiniteSet(Issuable(k)') /\ Cardinality(Issuable(k)') \in Nat
             /\ Cardinality(Issuable(k)') <= Cardinality(Issuable(k)) /\ Cardinality(Issuable(k)) \in Nat
  BY <1>1, <1>3, IssuableCards, FS_Subset, FS_CardinalityType
<1>6. BillShape'
  BY <1>1, <1>2, <1>5 DEF BillShape, Stays
<1>7. CASE acct.initialized
  <2> SUFFICES ASSUME NEW k \in Classes PROVE Covered(k)'
    BY <1>6, <1>7 DEF BillInv
  <2>1. Covered(k)
    BY <1>7 DEF BillInv
  <2>2. /\ CycleStart \in Int /\ Day(now) - MonthDays <= CycleStart - 1 /\ Day(now) \in Nat
        /\ Day(now) - MonthDays <= Day(now) - 1 /\ Day(now) - MonthDays \in Int
    BY <1>1, CycleFacts, TodayIsADay, Parameters
  <2>3. ASSUME NEW d \in Int, d >= Day(now) - MonthDays
        PROVE  Since(acct'.daily, k, d) = Since(acct.daily, k, d)
    <3>1. \A x \in Days : x >= d => x >= Day(now) - MonthDays
      BY <2>2, <2>3, DaysFinite
    <3>2. \A x \in Days : x >= d => acct'.daily[x] = acct.daily[x]
      BY <3>1 DEF Stays
    <3> QED BY <3>2, SinceAgrees
  <2>4. Since(acct'.daily, k, CycleStart - 1) = Since(acct.daily, k, CycleStart - 1)
    BY <2>2, <2>3
  <2>5. Cardinality(Since(acct.daily, k, CycleStart - 1)) \in Nat /\ billed[k] \in Nat /\ Free[k] \in Nat
    BY <1>1, SinceFinite, FreeType
  <2>6. /\ billed[k] + Cardinality(Issuable(k)') <= Cardinality(Since(acct.daily, k, CycleStart - 1))
        /\ billed[k] + Cardinality(Issuable(k)') <= Free[k]
    BY <1>5, <2>1, <2>5 DEF Covered
  <2>7. ASSUME NEW d \in Int, d >= Day(now) - 1
        PROVE  Cardinality(IssuableSince(k, d)') <= Cardinality(Since(acct'.daily, k, d))
    <3>1. Cardinality(IssuableSince(k, d)') <= Cardinality(IssuableSince(k, d))
          /\ Cardinality(IssuableSince(k, d)') \in Nat /\ Cardinality(IssuableSince(k, d)) \in Nat
      BY <1>1, <1>4, IssuableCards, FS_Subset, FS_CardinalityType
    <3>2. Since(acct'.daily, k, d) = Since(acct.daily, k, d)
      BY <2>2, <2>3, <2>7
    <3>3. Cardinality(Since(acct.daily, k, d)) \in Nat
      BY <1>1, SinceFinite
    <3>4. Cardinality(IssuableSince(k, d)) <= Cardinality(Since(acct.daily, k, d))
      BY <2>1, <2>7 DEF Covered
    <3> QED BY <3>1, <3>2, <3>3, <3>4
  <2> QED BY <1>2, <2>4, <2>6, <2>7 DEF Covered
<1>8. CASE ~acct.initialized
  <2>1. Unguarded
    BY <1>8 DEF BillInv
  <2>2. Unguarded'
    BY <1>2, <1>3, <2>1 DEF Unguarded
  <2> QED BY <1>6, <1>8, <2>2 DEF BillInv
<1> QED BY <1>7, <1>8

(* A charge to a day is a charge to every range that the day is in.        *)
LEMMA ChargeAdds ==
  ASSUME NEW daily \in DailyShape, NEW other \in DailyShape, NEW t \in Days, NEW low \in Int,
         NEW n \in [Classes -> Nat], \A k \in Classes : other[t][k] = daily[t][k] + n[k],
         \A x \in Days : x >= low /\ x # t => other[x] = daily[x],
         NEW k \in Classes, NEW d \in Int, d >= low
  PROVE  IF d <= t THEN Cardinality(Since(other, k, d)) = Cardinality(Since(daily, k, d)) + n[k]
         ELSE Since(other, k, d) = Since(daily, k, d)
<1>1. \A x \in Days : x \in Int /\ (x >= d => x >= low)
  BY DaysFinite
<1>2. CASE d <= t
  <2> DEFINE plus == [j \in Classes |-> daily[t][j] + n[j]]
             mid == [daily EXCEPT ![t] = plus]
  <2>1. other[t] = plus
    BY DEF DailyShape
  <2>2. plus \in [Classes -> Nat] /\ plus[k] = daily[t][k] + n[k]
    BY DEF DailyShape
  <2> HIDE DEF plus
  <2>3. mid \in DailyShape /\ mid[t] = plus /\ \A x \in Days \ {t} : mid[x] = daily[x]
    BY <2>2 DEF DailyShape
  <2> HIDE DEF mid
  <2>4. \A x \in Days : x >= d => other[x] = mid[x]
    BY <1>1, <2>1, <2>3
  <2>5. Since(other, k, d) = Since(mid, k, d)
    BY <2>4, SinceAgrees
  <2>6. Cardinality(Since(mid, k, d)) = Cardinality(Since(daily, k, d)) + n[k]
    BY <1>2, <2>2, <2>3, SinceAdds
  <2> QED BY <1>2, <2>5, <2>6
<1>3. CASE ~(d <= t)
  <2>1. \A x \in Days : x >= d => x # t
    BY <1>1, <1>3
  <2>2. \A x \in Days : x >= d => other[x] = daily[x]
    BY <1>1, <2>1
  <2> QED BY <1>3, <2>2, SinceAgrees
<1> QED BY <1>2, <1>3

(* What a reservation counts are its operations of a class.                *)
LEMMA CountsType ==
  ASSUME NEW ops \in Seq(Operation)
  PROVE  /\ Counts(ops) \in [Classes -> Nat]
         /\ \A k \in Classes : /\ IsFiniteSet({i \in DOMAIN ops : Class(ops[i].kind) = k})
                               /\ Counts(ops)[k] = Cardinality({i \in DOMAIN ops : Class(ops[i].kind) = k})
<1>1. IsFiniteSet(DOMAIN ops)
  <2>1. DOMAIN ops = 1 .. Len(ops) /\ Len(ops) \in Int
    OBVIOUS
  <2> QED BY <2>1, FS_Interval
<1>2. ASSUME NEW k \in Classes
      PROVE  /\ IsFiniteSet({i \in DOMAIN ops : Class(ops[i].kind) = k})
             /\ Cardinality({i \in DOMAIN ops : Class(ops[i].kind) = k}) \in Nat
  BY <1>1, FS_Subset, FS_CardinalityType
<1> QED BY <1>2 DEF Counts

(* A reservation that is allowed: what may be issued now was charged with  *)
(* it, and the line is below the allowance.                                *)
LEMMA OpenBill ==
  ASSUME BillInv, PauseInv, Shapes, NEW c \in Clients, client[c].phase # "open",
         NEW ops \in Seq(Operation), \A i \in DOMAIN ops : ops[i].kind # "delete",
         Allowed(Current, ops), acct' = Reserved(Current, ops),
         NEW batch, NEW expires, Open(c, ops, batch, expires),
         UNCHANGED <<now, billed, inventory>>, Lasting'
  PROVE  BillInv'
<1> DEFINE n == Counts(ops)
           t == Day(now)
           low == t - MonthDays
           new(k) == {c} \X {i \in DOMAIN ops : Class(ops[i].kind) = k}
<1>1. BillShape /\ now \in 0 .. MaxTime /\ acct.daily \in DailyShape /\ billed \in [Classes -> Nat]
  BY DEF BillInv, BillShape
<1>2. n \in [Classes -> Nat]
  BY CountsType
<1>3. /\ acct'.initialized /\ acct.initialized /\ acct'.daily \in DailyShape
      /\ \A k \in Classes : acct'.daily[t][k] = acct.daily[t][k] + n[k]
      /\ \A x \in Days : x >= low /\ x # t => acct'.daily[x] = acct.daily[x]
      /\ \A x \in Days : x > t => acct'.daily[x] = NoCharge
  BY <1>1, <1>2, AllowedDaily
<1>4. /\ CycleStart \in Int /\ CycleStart <= t /\ low <= CycleStart - 1 /\ t \in Nat /\ t \in Days
      /\ low \in Int /\ low <= t - 1
  BY <1>1, CycleFacts, TodayIsADay, Parameters
<1> HIDE DEF n, low
<1>12. ASSUME NEW k \in Classes, NEW d \in Int, d >= low
       PROVE  IF d <= t THEN Cardinality(Since(acct'.daily, k, d)) = Cardinality(Since(acct.daily, k, d)) + n[k]
              ELSE Since(acct'.daily, k, d) = Since(acct.daily, k, d)
  <2> DEFINE daily == acct.daily
             other == acct'.daily
  <2>1. daily \in DailyShape /\ other \in DailyShape /\ t \in Days /\ low \in Int
    BY <1>1, <1>3, <1>4
  <2>2. /\ \A j \in Classes : other[t][j] = daily[t][j] + n[j]
        /\ \A x \in Days : x >= low /\ x # t => other[x] = daily[x]
    BY <1>3
  <2> HIDE DEF daily, other, t
  <2>3. IF d <= t THEN Cardinality(Since(other, k, d)) = Cardinality(Since(daily, k, d)) + n[k]
        ELSE Since(other, k, d) = Since(daily, k, d)
    BY <1>2, <1>12, <2>1, <2>2, ChargeAdds
  <2> QED BY <2>3 DEF daily, other
<1>5. Day(now)' = t /\ Month(now)' = Month(now) /\ CycleStart' = CycleStart
  BY DEF Day, Month, Cycle, CycleStart
<1>6. /\ client'[c] = [phase |-> "open", ops |-> ops, slot |-> [i \in DOMAIN ops |-> "held"],
                       batch |-> batch, expires |-> expires, day |-> t]
      /\ \A b \in Clients \ {c} : client'[b] = client[b]
  BY DEF Open, Shapes
<1>7. DOMAIN ops \in SUBSET Nat
  OBVIOUS
<1>8. ASSUME NEW k \in Classes
      PROVE  /\ IsFiniteSet(new(k)) /\ Cardinality(new(k)) = n[k]
             /\ Issuable(k)' \in SUBSET (Issuable(k) \cup new(k))
             /\ \A p \in Issuable(k)' : p \in new(k) => client'[p[1]].day = t
             /\ \A p \in Issuable(k)' : p \notin new(k) => client'[p[1]] = client[p[1]]
  <2> DEFINE I == {i \in DOMAIN ops : Class(ops[i].kind) = k}
  <2>1. IsFiniteSet(I) /\ Cardinality(I) = n[k]
    BY CountsType DEF n
  <2>2. IsFiniteSet({c}) /\ Cardinality({c}) = 1
    BY FS_Singleton
  <2>3. IsFiniteSet({c} \X I) /\ Cardinality({c} \X I) = 1 * n[k]
    <3> HIDE DEF I
    <3> QED BY <2>1, <2>2, FS_Product
  <2>4. IsFiniteSet(new(k)) /\ Cardinality(new(k)) = n[k]
    <3>1. n[k] \in Nat
      BY <1>2
    <3> QED BY <2>3, <3>1
  <2>5. ASSUME NEW b \in Clients, NEW i \in Nat, MayIssue(b, i, k)'
        PROVE  \/ b = c /\ i \in I /\ client'[b].day = t
               \/ b # c /\ MayIssue(b, i, k) /\ client'[b] = client[b]
    <3>1. CASE b = c
      BY <1>6, <2>5, <3>1 DEF MayIssue
    <3>2. CASE b # c
      BY <1>6, <2>5, <3>2 DEF MayIssue
    <3> QED BY <3>1, <3>2
  <2> HIDE DEF I
  <2>6. ASSUME NEW p \in Issuable(k)'
        PROVE  /\ p \in Issuable(k) \/ p \in {c} \X I
               /\ p \in {c} \X I => client'[p[1]].day = t
               /\ p \notin {c} \X I => client'[p[1]] = client[p[1]]
    <3>1. p \in Clients \X Nat /\ MayIssue(p[1], p[2], k)'
      BY DEF Issuable
    <3>2. PICK b \in Clients, i \in Nat : p = <<b, i>>
      BY <3>1
    <3>3. p[1] = b /\ p[2] = i /\ MayIssue(b, i, k)'
      BY <3>1, <3>2
    <3>4. \/ b = c /\ i \in I /\ client'[b].day = t
          \/ b # c /\ MayIssue(b, i, k) /\ client'[b] = client[b]
      BY <2>5, <3>3
    <3> QED BY <3>1, <3>2, <3>3, <3>4 DEF Issuable
  <2>7. new(k) = {c} \X I
    BY DEF I
  <2> HIDE DEF new
  <2> QED BY <2>4, <2>6, <2>7
<1> HIDE DEF new
<1>9. ASSUME NEW k \in Classes
      PROVE  /\ IsFiniteSet(Issuable(k)')
             /\ Cardinality(Issuable(k)') \in Nat /\ Cardinality(Issuable(k)) \in Nat
             /\ Cardinality(Issuable(k)') <= Cardinality(Issuable(k)) + n[k]
  <2>1. IsFiniteSet(new(k)) /\ Cardinality(new(k)) = n[k] /\ Issuable(k)' \in SUBSET (Issuable(k) \cup new(k))
    BY <1>8
  <2>2. IsFiniteSet(Issuable(k)) /\ Cardinality(Issuable(k)) \in Nat
    BY <1>1, IssuableCards
  <2>3. /\ IsFiniteSet(Issuable(k)') /\ Cardinality(Issuable(k)') \in Nat
        /\ Cardinality(Issuable(k)') <= Cardinality(Issuable(k)) + Cardinality(new(k))
    BY <2>1, <2>2, UnionBound
  <2> QED BY <2>1, <2>2, <2>3
<1>10. BillShape'
  BY <1>1, <1>3, <1>5, <1>9 DEF BillShape
<1>11. ASSUME NEW k \in Classes PROVE Covered(k)'
  <2>1. Covered(k)
    BY <1>3 DEF BillInv
  <2>2. Cardinality(Since(acct'.daily, k, CycleStart - 1)) = Cardinality(Since(acct.daily, k, CycleStart - 1)) + n[k]
    <3> DEFINE d == CycleStart - 1
    <3>1. d \in Int /\ d >= low /\ d <= t
      BY <1>4
    <3> HIDE DEF d
    <3>2. Cardinality(Since(acct'.daily, k, d)) = Cardinality(Since(acct.daily, k, d)) + n[k]
      BY <1>12, <3>1
    <3> QED BY <3>2 DEF d
  <2>3. Cardinality(Since(acct.daily, k, CycleStart - 1)) \in Nat /\ billed[k] \in Nat /\ n[k] \in Nat
    BY <1>1, <1>2, SinceFinite
  <2>4. billed[k] + Cardinality(Issuable(k)') <= Cardinality(Since(acct'.daily, k, CycleStart - 1))
    BY <1>9, <2>1, <2>2, <2>3 DEF Covered
  <2>5. billed[k] + Cardinality(Issuable(k)') <= Free[k]
    <3>1. HasFields(Current) /\ Stays(Current.daily)
      BY <1>1, CurrentDaily
    <3>2. \A x \in Days : x >= CycleStart - 1 => Current.daily[x] = acct.daily[x]
      BY <1>4, <3>1, DaysFinite DEF Stays, low
    <3>3. Since(Current.daily, k, CycleStart - 1) = Since(acct.daily, k, CycleStart - 1)
      BY <3>2, SinceAgrees
    <3>4. Cardinality(Since(Current.daily, k, CycleStart - 1)) <= Rolling(Current)[k] /\ Rolling(Current)[k] \in Nat
      BY <1>4, <3>1, RollingIsSince DEF Stays
    <3>5. ~(Rolling(Current)[k] + n[k] >= Stop[k])
      BY AllowedBelow DEF n
    <3>6. Free[k] \in Nat /\ Stop[k] \in Nat /\ Stop[k] <= Free[k]
      BY FreeType
    <3>7. billed[k] + Cardinality(Issuable(k)) <= Cardinality(Since(acct.daily, k, CycleStart - 1))
      BY <2>1 DEF Covered
    <3> QED BY <1>9, <2>3, <3>3, <3>4, <3>5, <3>6, <3>7
  <2>6. ASSUME NEW d \in Int, d >= t - 1
        PROVE  Cardinality(IssuableSince(k, d)') <= Cardinality(Since(acct'.daily, k, d))
    <3>1. Cardinality(IssuableSince(k, d)) <= Cardinality(Since(acct.daily, k, d))
      BY <2>1, <2>6 DEF Covered
    <3>2. IF d <= t THEN Cardinality(Since(acct'.daily, k, d)) = Cardinality(Since(acct.daily, k, d)) + n[k]
          ELSE Since(acct'.daily, k, d) = Since(acct.daily, k, d)
      <4>1. d >= low
        BY <1>4, <2>6
      <4> QED BY <1>12, <4>1
    <3>3. /\ Cardinality(Since(acct.daily, k, d)) \in Nat
          /\ IsFiniteSet(IssuableSince(k, d)) /\ Cardinality(IssuableSince(k, d)) \in Nat
      BY <1>1, SinceFinite, IssuableCards
    <3>4. CASE d <= t
      <4>1. IssuableSince(k, d)' \in SUBSET (IssuableSince(k, d) \cup new(k))
        BY <1>8 DEF IssuableSince
      <4>2. Cardinality(IssuableSince(k, d)') <= Cardinality(IssuableSince(k, d)) + n[k]
            /\ Cardinality(IssuableSince(k, d)') \in Nat
        BY <1>2, <1>8, <3>3, <4>1, UnionBound
      <4> QED BY <2>3, <3>1, <3>2, <3>3, <3>4, <4>2
    <3>5. CASE ~(d <= t)
      <4>1. \A p \in IssuableSince(k, d)' : p \in Issuable(k)' /\ client'[p[1]].day >= d
        BY DEF IssuableSince
      <4>2. \A p \in IssuableSince(k, d)' : p \notin new(k)
        BY <1>4, <1>8, <3>5, <4>1
      <4>3. IssuableSince(k, d)' \in SUBSET IssuableSince(k, d)
        BY <1>8, <4>1, <4>2 DEF IssuableSince
      <4>4. Cardinality(IssuableSince(k, d)') <= Cardinality(IssuableSince(k, d))
            /\ Cardinality(IssuableSince(k, d)') \in Nat
        BY <3>3, <4>3, FS_Subset, FS_CardinalityType
      <4> QED BY <3>1, <3>2, <3>3, <3>5, <4>4
    <3> QED BY <3>4, <3>5
  <2> QED BY <1>5, <2>4, <2>5, <2>6 DEF Covered
<1> QED BY <1>3, <1>10, <1>11 DEF BillInv

(* The calls of an invocation are numbered.                                *)
LEMMA SlotNumbers ==
  ASSUME Shapes, NEW c \in Clients, NEW i \in DOMAIN client[c].slot
  PROVE  i \in Nat
<1>1. client[c].slot \in Seq(SlotStates)
  BY DEF Shapes, Invocation
<1> QED BY <1>1

(* A step that reserves for today, or nothing, keeps every expiry near.    *)
LEMMA LastingKept ==
  ASSUME Lasting, now' = now,
         \A c \in Clients : client'[c].phase = "open" =>
           \/ client[c].phase = "open" /\ client'[c].day = client[c].day /\ client'[c].expires = client[c].expires
           \/ client'[c].day = Day(now) /\ client'[c].expires <= (Day(now) + 2) * DayTicks,
         now \in Nat
  PROVE  Lasting'
<1>1. Day(now)' = Day(now) /\ Day(now) \in Nat
  BY DayGrows DEF Day
<1> QED BY <1>1 DEF Lasting

(* An operation is billed when it is issued, and may not be issued again.  *)
LEMMA IssueBill ==
  ASSUME BillInv, PauseInv, Shapes, NEW c \in Clients, NEW i \in DOMAIN client[c].slot, Issue(c, i)
  PROVE  BillInv'
<1> DEFINE kind == client[c].ops[i].kind
           j == Class(kind)
<1>1. /\ client[c].phase = "open" /\ client[c].slot[i] = "held" /\ now < client[c].expires
      /\ client' = [client EXCEPT ![c].slot[i] = "issued"] /\ UNCHANGED <<now, acct, inventory>>
      /\ billed' = IF kind = "delete" THEN billed ELSE [billed EXCEPT ![j] = @ + 1]
  BY DEF Issue, SetSlot
<1>2. /\ client'[c].slot = [client[c].slot EXCEPT ![i] = "issued"] /\ client'[c].phase = client[c].phase
      /\ client'[c].ops = client[c].ops /\ client'[c].day = client[c].day /\ client'[c].expires = client[c].expires
      /\ \A b \in Clients \ {c} : client'[b] = client[b]
  BY <1>1 DEF Shapes, Invocation
<1>3. /\ BillShape /\ now \in 0 .. MaxTime /\ acct.daily \in DailyShape /\ billed \in [Classes -> Nat]
      /\ now \in Nat /\ Lasting
  BY Parameters DEF BillInv, BillShape
<1>4. Lasting'
  BY <1>1, <1>2, <1>3, LastingKept
<1>5. i \in Nat /\ j \in Classes
  BY SlotNumbers DEF Class, Classes
<1>6. ASSUME NEW k, NEW b \in Clients, NEW n \in Nat, MayIssue(b, n, k)'
      PROVE  MayIssue(b, n, k) /\ <<b, n>> # <<c, i>> /\ client'[b].day = client[b].day
  <2>1. CASE b = c
    <3>1. n \in DOMAIN client[c].slot /\ client'[c].slot[n] = "held"
      BY <1>2, <1>6, <2>1 DEF MayIssue
    <3>2. n # i /\ client'[c].slot[n] = client[c].slot[n]
      BY <1>2, <3>1
    <3> QED BY <1>1, <1>2, <1>6, <2>1, <3>1, <3>2 DEF MayIssue
  <2>2. CASE b # c
    BY <1>1, <1>2, <1>6, <2>2 DEF MayIssue
  <2> QED BY <2>1, <2>2
<1>7. ASSUME NEW k, NEW p \in Issuable(k)'
      PROVE  p \in Issuable(k) /\ p # <<c, i>> /\ client'[p[1]].day = client[p[1]].day
  <2>1. p \in Clients \X Nat /\ MayIssue(p[1], p[2], k)'
    BY <1>7 DEF Issuable
  <2>2. PICK b \in Clients, n \in Nat : p = <<b, n>>
    BY <2>1
  <2>3. MayIssue(b, n, k)'
    BY <2>1, <2>2
  <2> QED BY <1>6, <2>1, <2>2, <2>3 DEF Issuable
<1>8. CASE kind = "delete"
  <2>1. UNCHANGED <<now, billed, inventory>> /\ acct' = acct
    BY <1>1, <1>8
  <2>2. Stays(acct'.daily) /\ \A x \in Days : x > Day(now) => acct'.daily[x] = NoCharge
    BY <1>3, <2>1 DEF Stays, BillShape
  <2> QED BY <1>4, <1>7, <2>1, <2>2, QuietBill
<1>9. CASE kind # "delete"
  <2>1. <<c, i>> \in Issuable(j)
    BY <1>1, <1>5, <1>9 DEF Issuable, MayIssue
  <2>2. billed' = [billed EXCEPT ![j] = @ + 1] /\ billed' \in [Classes -> Nat]
    BY <1>1, <1>3, <1>5, <1>9
  <2> HIDE DEF j, kind
  <2>3. Day(now)' = Day(now) /\ Month(now)' = Month(now) /\ CycleStart' = CycleStart
    BY <1>1 DEF Day, Month, Cycle, CycleStart
  <2>4. ASSUME NEW k \in Classes
        PROVE  /\ IsFiniteSet(Issuable(k)') /\ billed[k] \in Nat /\ billed'[k] \in Nat
               /\ Cardinality(Issuable(k)') \in Nat /\ Cardinality(Issuable(k)) \in Nat
               /\ billed'[k] + Cardinality(Issuable(k)') <= billed[k] + Cardinality(Issuable(k))
    <3>1. IsFiniteSet(Issuable(k)) /\ Cardinality(Issuable(k)) \in Nat
      BY <1>3, IssuableCards
    <3>2. CASE k = j
      <4>1. Issuable(k)' \in SUBSET (Issuable(k) \ {<<c, i>>})
        BY <1>7
      <4>2. /\ IsFiniteSet(Issuable(k) \ {<<c, i>>})
            /\ Cardinality(Issuable(k) \ {<<c, i>>}) = Cardinality(Issuable(k)) - 1
        BY <2>1, <3>1, <3>2, FS_RemoveElement
      <4>3. IsFiniteSet(Issuable(k)') /\ Cardinality(Issuable(k)') <= Cardinality(Issuable(k)) - 1
        BY <4>1, <4>2, FS_Subset
      <4>4. Cardinality(Issuable(k)') \in Nat
        BY <4>3, FS_CardinalityType
      <4>5. billed'[k] = billed[k] + 1 /\ billed[k] \in Nat
        BY <1>3, <2>2, <3>2
      <4> QED BY <3>1, <4>3, <4>4, <4>5
    <3>3. CASE k # j
      <4>1. Issuable(k)' \in SUBSET Issuable(k)
        BY <1>7
      <4>2. IsFiniteSet(Issuable(k)') /\ Cardinality(Issuable(k)') <= Cardinality(Issuable(k))
        BY <3>1, <4>1, FS_Subset
      <4>3. Cardinality(Issuable(k)') \in Nat
        BY <4>2, FS_CardinalityType
      <4>4. billed'[k] = billed[k] /\ billed[k] \in Nat
        BY <1>3, <2>2, <3>3
      <4> QED BY <3>1, <4>2, <4>3, <4>4
    <3> QED BY <3>2, <3>3
  <2>5. BillShape'
    BY <1>1, <1>3, <2>2, <2>3, <2>4 DEF BillShape
  <2>6. acct.initialized
    <3>1. Issuable(j) # {}
      BY <2>1
    <3> QED BY <1>5, <3>1 DEF BillInv, Unguarded, j
  <2>7. ASSUME NEW k \in Classes PROVE Covered(k)'
    <3>1. Covered(k)
      BY <2>6 DEF BillInv
    <3>2. /\ CycleStart - 1 \in Int /\ Cardinality(Since(acct.daily, k, CycleStart - 1)) \in Nat
          /\ Free[k] \in Nat
      BY <1>3, CycleFacts, SinceFinite, FreeType
    <3>3. /\ billed'[k] + Cardinality(Issuable(k)') <= Cardinality(Since(acct.daily, k, CycleStart - 1))
          /\ billed'[k] + Cardinality(Issuable(k)') <= Free[k]
      BY <2>4, <3>1, <3>2 DEF Covered
    <3>4. ASSUME NEW d \in Int, d >= Day(now) - 1
          PROVE  Cardinality(IssuableSince(k, d)') <= Cardinality(Since(acct.daily, k, d))
      <4>1. IssuableSince(k, d)' \in SUBSET IssuableSince(k, d)
        BY <1>7 DEF IssuableSince
      <4>2. IsFiniteSet(IssuableSince(k, d)) /\ Cardinality(IssuableSince(k, d)) \in Nat
        BY <1>3, IssuableCards
      <4>3. Cardinality(IssuableSince(k, d)') <= Cardinality(IssuableSince(k, d)) /\ IsFiniteSet(IssuableSince(k, d)')
        BY <4>1, <4>2, FS_Subset
      <4>4. Cardinality(IssuableSince(k, d)') \in Nat /\ Cardinality(Since(acct.daily, k, d)) \in Nat
        BY <1>3, <4>3, FS_CardinalityType, SinceFinite
      <4>5. Cardinality(IssuableSince(k, d)) <= Cardinality(Since(acct.daily, k, d))
        BY <3>1, <3>4 DEF Covered
      <4> QED BY <4>2, <4>3, <4>4, <4>5
    <3> QED BY <1>1, <2>3, <3>3, <3>4 DEF Covered
  <2> QED BY <1>1, <1>4, <2>5, <2>6, <2>7 DEF BillInv
<1> QED BY <1>8, <1>9

(* Lists that are due are none, one or two, and no more of them are due    *)
(* later in the cycle.                                                     *)
LEMMA ListsLater ==
  ASSUME now \in 0 .. MaxTime, now' \in 0 .. MaxTime, now' = now + 1, inventory' = inventory,
         inventory.month \in Int, inventory.month <= Month(now)
  PROVE  /\ Month(now) \in Int /\ Month(now)' \in Int /\ Month(now) <= Month(now)'
         /\ ListsDue \in 0 .. 2 /\ ListsDue' \in 0 .. 2
         /\ Cycle(now)' = Cycle(now) => ListsDue' <= ListsDue
<1> DEFINE x == Day(now)
           y == Day(now)'
           m == Month(now)
           n == Month(now)'
           M == MonthDays
           e == Cycle(now) * M + M - 1 - CycleOffset
           last == e \div M
           a == x + CycleOffset
           q == a \div M
<1>1. M \in Nat /\ M > 0 /\ CycleOffset \in Nat /\ now \in Nat /\ now' \in Nat /\ now <= now'
  BY Parameters
<1>2. x \in Nat /\ y \in Nat /\ x <= y
  <2>1. Day(now') = y
    BY DEF Day
  <2> QED BY <1>1, <2>1, DayGrows
<1>3. m = x \div M /\ n = y \div M
  BY DEF Month, Day
<1>4. Cycle(now) = q
  BY DEF Cycle
<1> HIDE DEF x, y, m, n, M
<1>5. a \in Int
  BY <1>1, <1>2
<1> HIDE DEF a
<1>6. q \in Int /\ M * q \in Int /\ M * q <= a /\ a < M * q + M
  BY <1>1, <1>5, Quotient
<1> HIDE DEF q
<1>7. e \in Int /\ x <= e /\ e <= x + M - 1
  <2>1. q * M = M * q
    BY <1>1, <1>6
  <2>2. e = M * q + M - 1 - CycleOffset
    BY <1>4, <2>1
  <2> QED BY <1>1, <1>2, <1>6, <2>2 DEF a
<1> HIDE DEF e
<1>8. /\ m \in Int /\ M * m \in Int /\ M * m <= x /\ x < M * m + M
      /\ n \in Int /\ M * n \in Int /\ M * n <= y /\ y < M * n + M
      /\ last \in Int /\ M * last \in Int /\ M * last <= e /\ e < M * last + M
  <2>1. x \in Int /\ y \in Int
    BY <1>2
  <2> QED BY <1>1, <1>3, <1>7, <2>1, Quotient
<1> HIDE DEF last
<1>9. m <= n
  <2>1. M * m < M * n + M
    BY <1>1, <1>2, <1>8
  <2> QED BY <1>1, <1>8, <2>1, Multiples
<1>10. last <= m + 1
  <2>1. M * (m + 1) = M * m + M
    BY <1>1, <1>8
  <2>2. M * last < M * (m + 1) + M
    BY <1>1, <1>2, <1>7, <1>8, <2>1
  <2>3. m + 1 \in Int
    BY <1>8
  <2> HIDE DEF last
  <2> QED BY <1>1, <1>8, <2>2, <2>3, Multiples
<1>11. ListsDue = (IF inventory.month = m THEN 0 ELSE 1) + (IF m < last THEN 1 ELSE 0)
  BY DEF ListsDue, LastMonth, m, last, e, M
<1>12. Cycle(now)' = Cycle(now) =>
         ListsDue' = (IF inventory.month = n THEN 0 ELSE 1) + (IF n < last THEN 1 ELSE 0)
  <2> SUFFICES ASSUME Cycle(now)' = Cycle(now)
               PROVE  ListsDue' = (IF inventory.month = n THEN 0 ELSE 1) + (IF n < last THEN 1 ELSE 0)
    OBVIOUS
  <2>1. LastMonth' = last
    BY DEF LastMonth, last, e, M
  <2> HIDE DEF last
  <2> QED BY <2>1 DEF ListsDue, n
<1>13. ListsDue' \in 0 .. 2
  BY DEF ListsDue
<1>14. m < n \/ m = n
  BY <1>8, <1>9
<1>15. inventory.month \in Int /\ inventory.month <= m
  BY DEF m
<1>18. Cycle(now)' = Cycle(now) => n <= last
  <2> SUFFICES ASSUME Cycle(now)' = Cycle(now) PROVE n <= last
    OBVIOUS
  <2>1. Cycle(now') = Cycle(now) /\ Day(now') = y
    BY DEF Cycle, Day, y
  <2> DEFINE start == Cycle(now') * MonthDays - CycleOffset
  <2>2. start \in Int /\ y - M <= start - 1
    BY <1>1, <2>1, CycleBegan DEF M
  <2>3. e = start + M - 1
    <3>1. Cycle(now') * MonthDays \in Int
      BY <1>4, <1>6, <2>1, Parameters
    <3> QED BY <1>1, <2>1, <3>1 DEF e, M
  <2> HIDE DEF start
  <2>4. y <= e
    BY <1>1, <1>2, <2>2, <2>3
  <2>5. M * n < M * last + M
    BY <1>1, <1>2, <1>7, <1>8, <2>4
  <2> QED BY <1>1, <1>8, <2>5, Multiples
<1>16. Cycle(now)' = Cycle(now) => ListsDue' <= ListsDue
  <2> SUFFICES ASSUME Cycle(now)' = Cycle(now) PROVE ListsDue' <= ListsDue
    OBVIOUS
  <2>1. CASE m = n
    BY <1>11, <1>12, <2>1
  <2>2. CASE m < n
    <3>1. inventory.month # n /\ ~(n < last) /\ m < last
      BY <1>8, <1>10, <1>15, <1>18, <2>2
    <3> QED BY <1>11, <1>12, <3>1
  <2> QED BY <1>14, <2>1, <2>2
<1>17. ListsDue \in 0 .. 2
  BY <1>11
<1> QED BY <1>8, <1>9, <1>13, <1>16, <1>17 DEF m, n

(* Time passes: in a new cycle what may still be issued was charged        *)
(* yesterday or today.                                                     *)
LEMMA TickBill ==
  ASSUME BillInv, PauseInv, Shapes, Tick
  PROVE  BillInv'
<1>1. /\ now < MaxTime /\ now' = now + 1 /\ UNCHANGED <<acct, inventory, client>>
      /\ billed' = IF Cycle(now') = Cycle(now) THEN billed ELSE [k \in Classes |-> 0]
  BY DEF Tick
<1>2. BillShape /\ Lasting /\ now \in 0 .. MaxTime /\ acct.daily \in DailyShape /\ billed \in [Classes -> Nat]
  BY DEF BillInv, BillShape
<1>3. now \in Nat /\ now' \in Nat /\ now' \in 0 .. MaxTime /\ now <= now'
  BY <1>1, <1>2, Parameters
<1>4. Day(now)' = Day(now') /\ Cycle(now)' = Cycle(now')
  BY DEF Day, Cycle
<1>5. Day(now) \in Nat /\ Day(now') \in Nat /\ Day(now) <= Day(now')
  BY <1>3, DayGrows
<1>6. /\ Month(now) \in Int /\ Month(now)' \in Int /\ Month(now) <= Month(now)'
      /\ ListsDue \in 0 .. 2 /\ ListsDue' \in 0 .. 2
      /\ Cycle(now)' = Cycle(now) => ListsDue' <= ListsDue
  BY <1>1, <1>2, <1>3, ListsLater DEF BillShape
<1>7. Lasting'
  BY <1>1, <1>2, <1>4, <1>5 DEF Lasting
<1>8. ASSUME NEW k, NEW p \in Issuable(k)'
      PROVE  p \in Issuable(k) /\ client[p[1]].day >= Day(now') - 1 /\ client'[p[1]] = client[p[1]]
  <2>1. p \in Clients \X Nat /\ MayIssue(p[1], p[2], k)'
    BY <1>8 DEF Issuable
  <2>2. PICK b \in Clients, n \in Nat : p = <<b, n>>
    BY <2>1
  <2>3. MayIssue(b, n, k)'
    BY <2>1, <2>2
  <2>4. client[b].expires \in Int
    BY DEF Shapes, Invocation
  <2>5. MayIssue(b, n, k) /\ client[b].phase = "open" /\ now' < client[b].expires
    BY <1>1, <1>3, <2>3, <2>4 DEF MayIssue
  <2>6. client[b].day \in Nat /\ client[b].expires <= (client[b].day + 2) * DayTicks
    BY <1>2, <2>5 DEF Lasting
  <2>7. Day(now') <= client[b].day + 1
    <3> DEFINE d == client[b].day + 1
               end == (d + 1) * DayTicks
    <3>1. d \in Nat /\ end \in Nat /\ end = (client[b].day + 2) * DayTicks
      BY <2>6, Parameters
    <3> HIDE DEF end
    <3>2. now' < end
      BY <1>3, <2>4, <2>5, <2>6, <3>1
    <3> HIDE DEF d
    <3>3. now' < (d + 1) * DayTicks
      BY <3>2 DEF end
    <3>4. Day(now') <= d
      BY <1>3, <3>1, <3>3, DayBefore
    <3> QED BY <3>4 DEF d
  <2>8. client[b].day >= Day(now') - 1
    BY <1>5, <2>6, <2>7
  <2> QED BY <1>1, <2>1, <2>2, <2>5, <2>8 DEF Issuable
<1>9. ASSUME NEW k \in Classes, NEW d
      PROVE  /\ IsFiniteSet(Issuable(k)') /\ Cardinality(Issuable(k)') \in Nat
             /\ Cardinality(Issuable(k)') <= Cardinality(Issuable(k)) /\ Cardinality(Issuable(k)) \in Nat
             /\ Cardinality(IssuableSince(k, d)') \in Nat /\ Cardinality(IssuableSince(k, d)) \in Nat
             /\ Cardinality(IssuableSince(k, d)') <= Cardinality(IssuableSince(k, d))
  <2>1. Issuable(k)' \in SUBSET Issuable(k) /\ IssuableSince(k, d)' \in SUBSET IssuableSince(k, d)
    BY <1>8 DEF IssuableSince
  <2> QED BY <1>2, <2>1, IssuableCards, FS_Subset, FS_CardinalityType
<1>10. billed' \in [Classes -> Nat] /\ \A k \in Classes : billed'[k] <= billed[k] /\ billed[k] \in Nat
  BY <1>1, <1>2
<1>11. BillShape'
  <2>1. \A x \in Days : x > Day(now') => x > Day(now)
    BY <1>5, DaysFinite
  <2> QED BY <1>1, <1>2, <1>3, <1>4, <1>6, <1>9, <1>10, <2>1 DEF BillShape
<1>12. CASE acct.initialized
  <2> SUFFICES ASSUME NEW k \in Classes PROVE Covered(k)'
    BY <1>1, <1>7, <1>11, <1>12 DEF BillInv
  <2>1. Covered(k)
    BY <1>12 DEF BillInv
  <2>2. Free[k] \in Nat /\ billed[k] \in Nat /\ billed'[k] \in Nat
    BY <1>10, FreeType
  <2>3. billed'[k] + Cardinality(Issuable(k)') <= Free[k]
    <3>1. billed[k] + Cardinality(Issuable(k)) <= Free[k]
      BY <2>1 DEF Covered
    <3>2. /\ Cardinality(Issuable(k)') \in Nat /\ Cardinality(Issuable(k)) \in Nat
          /\ Cardinality(Issuable(k)') <= Cardinality(Issuable(k)) /\ billed'[k] <= billed[k]
      BY <1>9, <1>10
    <3> QED BY <2>2, <3>1, <3>2
  <2>4. ASSUME NEW d \in Int, d >= Day(now') - 1
        PROVE  Cardinality(IssuableSince(k, d)') <= Cardinality(Since(acct.daily, k, d))
    <3>1. d >= Day(now) - 1
      BY <1>5, <2>4
    <3>2. Cardinality(IssuableSince(k, d)) <= Cardinality(Since(acct.daily, k, d))
      BY <2>1, <3>1 DEF Covered
    <3>3. Cardinality(Since(acct.daily, k, d)) \in Nat
      BY <1>2, SinceFinite
    <3> QED BY <1>9, <3>2, <3>3
  <2>5. CycleStart' \in Int /\ CycleStart' <= Day(now')
    <3>1. CycleStart' = Cycle(now') * MonthDays - CycleOffset
      BY <1>4 DEF CycleStart
    <3> QED BY <1>3, <3>1, CycleBegan
  <2>6. billed'[k] + Cardinality(Issuable(k)') <= Cardinality(Since(acct.daily, k, CycleStart' - 1))
    <3>1. CASE Cycle(now)' = Cycle(now)
      <4>1. CycleStart' = CycleStart /\ billed' = billed
        BY <1>1, <1>4, <3>1 DEF CycleStart
      <4>2. Cardinality(Since(acct.daily, k, CycleStart - 1)) \in Nat
        BY <1>2, SinceFinite
      <4>3. billed[k] + Cardinality(Issuable(k)) <= Cardinality(Since(acct.daily, k, CycleStart - 1))
        BY <2>1 DEF Covered
      <4> QED BY <1>9, <2>2, <4>1, <4>2, <4>3
    <3>2. CASE Cycle(now)' # Cycle(now)
      <4>0. PICK d \in Int : d = Day(now') - 1
        BY <1>5
      <4>1. billed'[k] = 0
        BY <1>1, <1>4, <3>2
      <4>2. Issuable(k)' = IssuableSince(k, d)'
        <5>1. \A p \in Issuable(k)' : client'[p[1]].day >= d
          BY <1>8, <4>0
        <5> QED BY <5>1 DEF IssuableSince
      <4>3. d \in Int /\ d >= Day(now') - 1 /\ CycleStart' - 1 \in Int /\ CycleStart' - 1 <= d
        BY <1>5, <2>5, <4>0
      <4>4. Cardinality(IssuableSince(k, d)') <= Cardinality(Since(acct.daily, k, d))
        BY <2>4, <4>3
      <4>5. Cardinality(Since(acct.daily, k, d)) <= Cardinality(Since(acct.daily, k, CycleStart' - 1))
        BY <1>2, <4>3, SinceGrows
      <4>6. /\ Cardinality(Since(acct.daily, k, d)) \in Nat
            /\ Cardinality(Since(acct.daily, k, CycleStart' - 1)) \in Nat
        BY <1>2, SinceFinite
      <4> QED BY <1>9, <4>1, <4>2, <4>4, <4>5, <4>6
    <3> QED BY <3>1, <3>2
  <2> QED BY <1>1, <1>4, <2>3, <2>4, <2>6 DEF Covered
<1>13. CASE ~acct.initialized
  <2>1. Unguarded
    BY <1>13 DEF BillInv
  <2>2. \A k \in Classes : Issuable(k)' = {}
    BY <1>8, <2>1 DEF Unguarded
  <2>3. {"class_a", "class_b"} \in SUBSET Classes /\ Free["class_a"] \in Nat /\ Free["class_b"] \in Nat
    BY FreeType DEF Classes
  <2>4. billed'["class_b"] <= Free["class_b"] /\ billed'["class_a"] + ListsDue' <= Free["class_a"]
    <3>1. CASE Cycle(now)' = Cycle(now)
      <4>1. billed' = billed
        BY <1>1, <1>4, <3>1
      <4> QED BY <1>6, <1>10, <2>1, <2>3, <3>1, <4>1 DEF Unguarded
    <3>2. CASE Cycle(now)' # Cycle(now)
      <4>1. billed'["class_a"] = 0 /\ billed'["class_b"] = 0
        BY <1>1, <1>4, <2>3, <3>2
      <4> QED BY <1>6, <2>1, <2>3, <4>1 DEF Unguarded
    <3> QED BY <3>1, <3>2
  <2>5. Unguarded'
    BY <2>1, <2>2, <2>4 DEF Unguarded
  <2> QED BY <1>1, <1>7, <1>11, <1>13, <2>5 DEF BillInv
<1> QED BY <1>12, <1>13

(* The same clock and invocations leave the same calls to issue.           *)
LEMMA SameIssuable ==
  ASSUME UNCHANGED <<now, client>>, NEW k
  PROVE  Issuable(k)' = Issuable(k)
BY DEF Issuable, MayIssue

(* The listing of a bootstrap is billed before there is a guard.           *)
LEMMA ListBill ==
  ASSUME BillInv, BootstrapList
  PROVE  BillInv'
<1>1. /\ ~acct.initialized /\ inventory.month # Month(now) /\ inventory'.month = Month(now)
      /\ billed' = [billed EXCEPT !["class_a"] = @ + 1] /\ UNCHANGED <<now, acct, catalogue, client, bucket>>
  BY DEF BootstrapList
<1>2. BillShape /\ Lasting /\ Unguarded /\ billed \in [Classes -> Nat] /\ now \in 0 .. MaxTime
  BY <1>1 DEF BillInv, BillShape
<1>3. Day(now)' = Day(now) /\ Month(now)' = Month(now) /\ LastMonth' = LastMonth
  BY <1>1 DEF Day, Month, Cycle, LastMonth
<1>4. Lasting'
  BY <1>1, <1>2, <1>3 DEF Lasting
<1>5. \A k : Issuable(k)' = Issuable(k)
  BY <1>1, SameIssuable
<1>6. {"class_a", "class_b"} \in SUBSET Classes /\ Free["class_a"] \in Nat /\ Free["class_b"] \in Nat
  BY FreeType DEF Classes
<1>7. billed' \in [Classes -> Nat] /\ billed'["class_a"] = billed["class_a"] + 1 /\ billed'["class_b"] = billed["class_b"]
  BY <1>1, <1>2, <1>6
<1>8. Month(now) \in Int
  <2>1. Day(now) \in Int
    BY <1>2, TodayIsADay
  <2> QED BY <2>1, Parameters, Quotient DEF Month
<1>9. BillShape'
  BY <1>1, <1>2, <1>3, <1>5, <1>7, <1>8 DEF BillShape
<1>10. ListsDue = ListsDue' + 1 /\ ListsDue' \in 0 .. 2
  BY <1>1, <1>3 DEF ListsDue
<1>11. Unguarded'
  BY <1>2, <1>5, <1>6, <1>7, <1>10 DEF Unguarded
<1> QED BY <1>1, <1>4, <1>9, <1>11 DEF BillInv

(* A day's charge is in every range that the day is in.                    *)
LEMMA DayIsCharged ==
  ASSUME NEW daily \in DailyShape, NEW t \in Days, NEW k \in Classes, NEW d \in Int, d <= t
  PROVE  daily[t][k] <= Cardinality(Since(daily, k, d))
<1> DEFINE base == [daily EXCEPT ![t] = NoCharge]
<1>1. NoCharge \in [Classes -> Nat] /\ NoCharge[k] = 0
  BY DEF NoCharge
<1>2. base \in DailyShape /\ base[t] = NoCharge /\ \A x \in Days \ {t} : base[x] = daily[x]
  BY <1>1 DEF DailyShape
<1>3. daily[t][k] \in Nat
  BY DEF DailyShape
<1> HIDE DEF base
<1>4. daily[t][k] = base[t][k] + daily[t][k]
  BY <1>1, <1>2, <1>3
<1>5. Cardinality(Since(daily, k, d)) = Cardinality(Since(base, k, d)) + daily[t][k]
  BY <1>2, <1>3, <1>4, SinceAdds
<1>6. Cardinality(Since(base, k, d)) \in Nat
  BY <1>2, SinceFinite
<1> QED BY <1>3, <1>5, <1>6

(* The bootstrap charges what is billed, and what the operator adds, to    *)
(* its day.                                                                *)
LEMMA BootstrapBill ==
  ASSUME BillInv, PauseInv, ~acct.initialized, NEW extra \in Baselines, acct' = Evaluate(Baseline(extra), now),
         UNCHANGED <<now, inventory, client, billed>>
  PROVE  BillInv'
<1> DEFINE s == Current
           b == Baseline(extra)
           t == Day(now)
           plus == [k \in Classes |-> s.daily[t][k] + (billed[k] + extra[k])]
<1>1. BillShape /\ Lasting /\ Unguarded /\ billed \in [Classes -> Nat] /\ now \in 0 .. MaxTime
  BY DEF BillInv, BillShape
<1>2. HasFields(s) /\ s.daily \in DailyShape /\ \A x \in Days : x > t => s.daily[x] = NoCharge
  BY <1>1, CurrentDaily DEF Stays
<1>3. t \in Days /\ t \in Nat
  BY <1>1, TodayIsADay
<1>4. extra \in [Allowances -> Nat] /\ \A k \in Classes : extra[k] \in Nat /\ billed[k] \in Nat
  BY <1>1, StartAssumption DEF Allowances
<1> HIDE DEF s
<1>5. HasFields(b) /\ b.initialized /\ b.daily = [s.daily EXCEPT ![t] = plus]
  <2> DEFINE used == [k \in Classes |-> billed[k] + extra[k]]
  <2>1. \E stored : b = ChargeDay([s EXCEPT !.initialized = TRUE, !.used = used, !.stored = stored], now, used)
    BY DEF Baseline, s
  <2>2. PICK stored : b = ChargeDay([s EXCEPT !.initialized = TRUE, !.used = used, !.stored = stored], now, used)
    BY <2>1
  <2> HIDE DEF b
  <2>3. \A k \in Classes : used[k] = billed[k] + extra[k]
    OBVIOUS
  <2> HIDE DEF used
  <2>4. HasFields(b) /\ b.initialized
        /\ b.daily = [s.daily EXCEPT ![t] = [k \in Classes |-> s.daily[t][k] + used[k]]]
    BY <1>2, <2>2 DEF ChargeDay, HasFields, Fields
  <2>5. [k \in Classes |-> s.daily[t][k] + used[k]] = plus
    BY <2>3
  <2> QED BY <2>4, <2>5
<1>6. plus \in [Classes -> Nat] /\ \A k \in Classes : plus[k] >= billed[k]
  BY <1>2, <1>3, <1>4 DEF DailyShape
<1> HIDE DEF b, plus, t
<1>7. b.daily \in DailyShape /\ b.daily[t] = plus /\ \A x \in Days : x > t => b.daily[x] = NoCharge
  <2>1. \A x \in Days : x > t => x # t
    BY <1>3, DaysFinite
  <2> QED BY <1>2, <1>3, <1>5, <1>6, <2>1 DEF DailyShape
<1>8. /\ Prune(b, now).daily \in DailyShape
      /\ \A x \in Days : x >= t - MonthDays => Prune(b, now).daily[x] = b.daily[x]
      /\ \A x \in Days : x > t => Prune(b, now).daily[x] = NoCharge
  BY <1>1, <1>5, <1>7, PruneDaily DEF t
<1>9. acct'.daily = Prune(b, now).daily /\ acct'.initialized
  BY <1>5, EvaluateDaily, Evaluated DEF b
<1>10. acct'.daily[t] = plus
  BY <1>3, <1>7, <1>8, <1>9, Parameters
<1>11. /\ Day(now)' = t /\ Month(now)' = Month(now) /\ CycleStart' = CycleStart
       /\ CycleStart - 1 \in Int /\ CycleStart - 1 <= t
  <2>1. CycleStart' = CycleStart /\ Month(now)' = Month(now)
    BY DEF Day, Month, Cycle, CycleStart
  <2>2. Day(now)' = t
    BY DEF Day, t
  <2> QED BY <1>1, <2>1, <2>2, CycleFacts, TodayIsADay DEF t
<1>12. \A k \in Classes : Issuable(k)' = {}
  BY <1>1, SameIssuable DEF Unguarded
<1>13. IsFiniteSet({}) /\ Cardinality({}) = 0
  BY FS_EmptySet
<1>14. BillShape'
  BY <1>1, <1>8, <1>9, <1>11, <1>12, <1>13 DEF BillShape
<1>15. Lasting'
  BY <1>1, <1>11 DEF Lasting, t
<1>16. ASSUME NEW k \in Classes PROVE Covered(k)'
  <2> DEFINE daily == acct'.daily
  <2>1. daily \in DailyShape /\ billed[k] <= daily[t][k]
    BY <1>6, <1>8, <1>9, <1>10
  <2> HIDE DEF daily
  <2>2. daily[t][k] <= Cardinality(Since(daily, k, CycleStart - 1)) /\ daily[t][k] \in Nat
        /\ Cardinality(Since(daily, k, CycleStart - 1)) \in Nat
    BY <1>3, <1>11, <2>1, DayIsCharged, SinceFinite DEF DailyShape
  <2>3. billed[k] + 0 <= Cardinality(Since(daily, k, CycleStart - 1))
    BY <1>4, <2>1, <2>2
  <2>4. billed[k] + 0 <= Free[k]
    <3>1. ListsDue \in 0 .. 2
      BY DEF ListsDue
    <3>2. k = "class_a" \/ k = "class_b"
      BY DEF Classes
    <3> QED BY <1>1, <1>4, <3>1, <3>2, FreeType DEF Unguarded
  <2>5. Cardinality(Issuable(k)') = 0 /\ \A d : Cardinality(IssuableSince(k, d)') = 0
    BY <1>12, <1>13 DEF IssuableSince
  <2>6. \A d : Cardinality(Since(daily, k, d)) \in Nat
    BY <2>1, SinceFinite
  <2>7. \A d \in Int : Cardinality(IssuableSince(k, d)') <= Cardinality(Since(daily, k, d))
    BY <2>5, <2>6
  <2> QED BY <1>11, <2>3, <2>4, <2>5, <2>7 DEF Covered, daily
<1> QED BY <1>9, <1>14, <1>15, <1>16 DEF BillInv

(* Nothing may be issued at the start.                                     *)
LEMMA BillInitially == Init => BillInv
<1> SUFFICES ASSUME Init PROVE BillInv
  OBVIOUS
<1>1. /\ now = 0 /\ acct = InitialAccount(0) /\ inventory = NoInventory /\ client = [c \in Clients |-> Idle]
      /\ billed \in StartUsage
  BY DEF Init
<1>2. /\ acct.daily = [d \in Days |-> [k \in Classes |-> 0]] /\ ~acct.initialized
      /\ inventory.month = -1
  BY <1>1 DEF InitialAccount, NoInventory, Never
<1>3. acct.daily \in DailyShape /\ \A x \in Days : acct.daily[x] = NoCharge
  BY <1>2 DEF DailyShape, NoCharge
<1>4. now \in 0 .. MaxTime /\ Month(now) \in Nat
  <2>1. now \in 0 .. MaxTime
    BY <1>1, Parameters
  <2>2. Day(now) \in Nat
    BY <2>1, TodayIsADay
  <2> QED BY <2>1, <2>2, Parameters DEF Month
<1>5. \A k \in Classes : Issuable(k) = {}
  <2> SUFFICES ASSUME NEW k \in Classes, NEW p \in Issuable(k) PROVE FALSE
    OBVIOUS
  <2>1. p \in Clients \X Nat /\ client[p[1]].phase = "open"
    BY DEF Issuable, MayIssue
  <2>2. PICK b \in Clients, n \in Nat : p = <<b, n>>
    BY <2>1
  <2>3. client[b].phase = "open"
    BY <2>1, <2>2
  <2> QED BY <1>1, <2>3 DEF Idle
<1>6. IsFiniteSet({})
  BY FS_EmptySet
<1>7. billed \in [Classes -> Nat] /\ billed["class_a"] + 2 <= Free["class_a"] /\ billed["class_b"] <= Free["class_b"]
  <2> DEFINE Room(usage) ==
               usage["class_a"] + 2 <= Free["class_a"] /\ usage["class_b"] <= Free["class_b"]
  <2>1. StartUsage \subseteq [Classes -> Nat]
    BY StartAssumption
  <2>2. \A usage \in StartUsage : Room(usage)
    BY StartAssumption
  <2>3. billed \in StartUsage
    BY <1>1
  <2>4. billed \in [Classes -> Nat]
    BY <2>1, <2>3
  <2>5. Room(billed)
    <3> HIDE DEF Room
    <3> QED BY <2>2, <2>3
  <2> QED BY <2>4, <2>5
<1>8. BillShape
  <2>1. inventory.month \in Int /\ inventory.month <= Month(now)
    BY <1>2, <1>4
  <2>2. \A k \in Classes : IsFiniteSet(Issuable(k))
    BY <1>5, <1>6
  <2>3. \A x \in Days : x > Day(now) => acct.daily[x] = NoCharge
    BY <1>3
  <2>4. acct.daily \in DailyShape
    BY <1>3
  <2> QED BY <1>4, <1>7, <2>1, <2>2, <2>3, <2>4 DEF BillShape
<1>9. Lasting
  BY <1>1 DEF Lasting, Idle
<1>10. Unguarded
  <2>1. ListsDue \in 0 .. 2
    BY DEF ListsDue
  <2>2. Free["class_a"] \in Nat /\ billed["class_a"] \in Nat
    BY <1>7, FreeType DEF Classes
  <2> QED BY <1>5, <1>7, <2>1, <2>2 DEF Unguarded
<1> QED BY <1>2, <1>8, <1>9, <1>10 DEF BillInv

(* A step that leaves the invocations alone, but for one that is idle, or  *)
(* called, or done, or holds a deletion, and leaves the days alone.        *)
LEMMA SettledBill ==
  ASSUME BillInv, PauseInv, Shapes, UNCHANGED <<now, billed, inventory>>,
         acct'.daily = acct.daily \/ acct'.daily = Current.daily,
         acct'.initialized = acct.initialized,
         \A c \in Clients :
           \/ client'[c] = client[c]
           \/ client'[c].phase # "open"
           \/ /\ client'[c].phase = "open" /\ client[c].phase = "open"
              /\ client'[c].ops = client[c].ops /\ client'[c].day = client[c].day
              /\ client'[c].expires = client[c].expires
              /\ DOMAIN client'[c].slot = DOMAIN client[c].slot
              /\ \A i \in DOMAIN client[c].slot : client'[c].slot[i] = "held" => client[c].slot[i] = "held"
           \/ /\ client'[c].day = Day(now) /\ client'[c].expires <= (Day(now) + 2) * DayTicks
              /\ \A i \in DOMAIN client'[c].slot : client'[c].ops[i].kind = "delete"
  PROVE  BillInv'
<1>1. BillShape /\ Lasting /\ now \in 0 .. MaxTime /\ now \in Nat
  BY Parameters DEF BillInv, BillShape
<1>2. Stays(acct'.daily) /\ \A x \in Days : x > Day(now) => acct'.daily[x] = NoCharge
  <2>1. Stays(acct.daily) /\ \A x \in Days : x > Day(now) => acct.daily[x] = NoCharge
    BY <1>1 DEF Stays, BillShape
  <2>2. Stays(Current.daily) /\ \A x \in Days : x > Day(now) => Current.daily[x] = NoCharge
    BY <1>1, CurrentDaily
  <2>3. CASE acct'.daily = acct.daily
    <3>1. DEFINE other == acct'.daily
    <3>2. other = acct.daily
      BY <2>3
    <3>3. Stays(other) /\ \A x \in Days : x > Day(now) => other[x] = NoCharge
      BY <2>1, <3>2
    <3> QED BY <3>3
  <2>4. CASE acct'.daily = Current.daily
    <3>1. DEFINE other == acct'.daily
    <3>2. other = Current.daily
      BY <2>4
    <3>3. Stays(other) /\ \A x \in Days : x > Day(now) => other[x] = NoCharge
      BY <2>2, <3>2
    <3> QED BY <3>3
  <2> QED BY <2>3, <2>4
<1>3. Lasting'
  <2>1. \A c \in Clients : client'[c].phase = "open" =>
          \/ client[c].phase = "open" /\ client'[c].day = client[c].day /\ client'[c].expires = client[c].expires
          \/ client'[c].day = Day(now) /\ client'[c].expires <= (Day(now) + 2) * DayTicks
    OBVIOUS
  <2> QED BY <1>1, <2>1, LastingKept
<1>4. ASSUME NEW k \in Classes, NEW b \in Clients, NEW n \in Nat, MayIssue(b, n, k)'
      PROVE  MayIssue(b, n, k) /\ client'[b].day = client[b].day
  <2>1. /\ client'[b].phase = "open" /\ n \in DOMAIN client'[b].slot /\ client'[b].slot[n] = "held"
        /\ client'[b].ops[n].kind # "delete" /\ Class(client'[b].ops[n].kind) = k
        /\ now < client'[b].expires
    BY <1>4 DEF MayIssue
  <2>2. CASE client'[b] = client[b]
    BY <2>1, <2>2 DEF MayIssue
  <2>3. CASE /\ client'[b].phase = "open" /\ client[b].phase = "open"
             /\ client'[b].ops = client[b].ops /\ client'[b].day = client[b].day
             /\ client'[b].expires = client[b].expires
             /\ DOMAIN client'[b].slot = DOMAIN client[b].slot
             /\ \A i \in DOMAIN client[b].slot : client'[b].slot[i] = "held" => client[b].slot[i] = "held"
    BY <2>1, <2>3 DEF MayIssue
  <2>4. ~(\A i \in DOMAIN client'[b].slot : client'[b].ops[i].kind = "delete")
    BY <2>1
  <2> QED BY <2>1, <2>2, <2>3, <2>4
<1>5. ASSUME NEW k \in Classes, NEW p \in Issuable(k)'
      PROVE  p \in Issuable(k) /\ client'[p[1]].day = client[p[1]].day
  <2>1. p \in Clients \X Nat /\ MayIssue(p[1], p[2], k)'
    BY <1>5 DEF Issuable
  <2>2. PICK b \in Clients, n \in Nat : p = <<b, n>>
    BY <2>1
  <2>3. MayIssue(b, n, k)'
    BY <2>1, <2>2
  <2>4. MayIssue(b, n, k) /\ client'[b].day = client[b].day
    BY <1>4, <2>3
  <2> QED BY <2>2, <2>4 DEF Issuable
<1> QED BY <1>2, <1>3, <1>5, QuietBill

(* The single operation lasts into the next day at most.                   *)
LEMMA SingleExpiry ==
  ASSUME now \in Nat
  PROVE  now + SingleTicks <= (Day(now) + 2) * DayTicks
<1>1. now < DayTicks * Day(now) + DayTicks /\ DayTicks * Day(now) \in Int /\ Day(now) \in Int
  BY Parameters, Quotient DEF Day
<1> DEFINE d == Day(now)
<1> HIDE DEF d
<1>2. d \in Int /\ DayTicks * d \in Int /\ now < DayTicks * d + DayTicks
  BY <1>1 DEF d
<1>3. (d + 2) * DayTicks = DayTicks * d + DayTicks + DayTicks
  BY <1>2, Parameters
<1>4. now + SingleTicks <= (d + 2) * DayTicks
  BY <1>2, <1>3, Parameters
<1> QED BY <1>4 DEF d

(* A batch ends on its day.                                                *)
LEMMA BatchExpiry ==
  ASSUME Shapes, NEW c \in Clients
  PROVE  LET e == Min({Expiry(now), client[c].expires}) IN
         e <= (Day(now) + 2) * DayTicks
<1>1. now \in Nat /\ client[c].expires \in Int /\ Expiry(now) \in Int /\ Expiry(now) <= (Day(now) + 1) * DayTicks
  BY ExpiryToday DEF Shapes, Invocation
<1> DEFINE a == Expiry(now)
           b == client[c].expires
           d == Day(now)
<1>2. a \in Int /\ b \in Int
  BY <1>1
<1>3. d \in Int
  BY <1>1, Parameters DEF Day
<1>4. Min({a, b}) \in {a, b} /\ Min({a, b}) <= a
  <2> HIDE DEF a, b
  <2>1. \E x \in {a, b} : \A y \in {a, b} : x <= y
    BY <1>2
  <2> QED BY <2>1 DEF Min
<1>5. a <= (d + 1) * DayTicks
  BY <1>1
<1> HIDE DEF a, b, d
<1>6. (d + 1) * DayTicks \in Int /\ (d + 2) * DayTicks = (d + 1) * DayTicks + DayTicks
  BY <1>3, Parameters
<1>7. Min({a, b}) <= (d + 2) * DayTicks
  BY <1>2, <1>4, <1>5, <1>6, Parameters
<1> QED BY <1>7 DEF a, b, d

(* Every step keeps the bill covered.                                      *)
LEMMA BillPreserved == IInv /\ PauseInv /\ BillInv /\ [Next]_vars => BillInv'
<1> SUFFICES ASSUME IInv, PauseInv, BillInv, [Next]_vars PROVE BillInv'
  OBVIOUS
<1>1. Shapes /\ Origin /\ BillShape /\ now \in Nat /\ client \in [Clients -> Invocation]
  BY DEF IInv, Shapes, BillInv
<1>2. HasFields(Current) /\ Current.initialized = acct.initialized /\ HasFields(acct)
  BY <1>1, CurrentDaily DEF PauseInv
<1>3. ASSUME NEW c \in Clients, NEW r, client' = [client EXCEPT ![c] = r]
      PROVE  client'[c] = r /\ \A b \in Clients : b # c => client'[b] = client[b]
  BY <1>1, <1>3
<1>4. CASE Tick
  BY <1>1, <1>4, TickBill
<1>5. CASE BootstrapList
  BY <1>5, ListBill
<1>6. CASE BootstrapCommit
  <2>1. UNCHANGED <<now, inventory, client, billed>>
    BY <1>6 DEF BootstrapCommit
  <2>2. CASE Current.initialized
    <3>1. acct' = Current
      BY <1>6, <2>2 DEF BootstrapCommit
    <3>2. acct'.daily = Current.daily /\ acct'.initialized = acct.initialized
      BY <1>2, <3>1
    <3> QED BY <1>1, <2>1, <3>2, SettledBill
  <2>3. CASE ~Current.initialized
    <3>1. \E extra \in Baselines : acct' = Evaluate(Baseline(extra), now)
      BY <1>6, <2>3 DEF BootstrapCommit
    <3> QED BY <1>2, <2>1, <2>3, <3>1, BootstrapBill
  <2> QED BY <2>2, <2>3
<1>7. CASE Ack \/ ClaimDispatch
  <2>1. UNCHANGED <<now, inventory, client, billed>>
    BY <1>7 DEF Ack, ClaimDispatch
  <2>2. acct'.daily = Current.daily /\ acct'.initialized = Current.initialized
    <3> DEFINE s == Current
    <3>1. HasFields(s)
      BY <1>2
    <3>2. \/ \E notes : acct' = [s EXCEPT !.notes = notes]
          \/ \E at : acct' = [s EXCEPT !.dispatchAt = at]
          \/ acct' = s
      BY <1>7 DEF Ack, ClaimDispatch
    <3> HIDE DEF s
    <3>3. acct'.daily = s.daily /\ acct'.initialized = s.initialized
      BY <3>1, <3>2 DEF HasFields, Fields
    <3> QED BY <3>3 DEF s
  <2> QED BY <1>1, <1>2, <2>1, <2>2, SettledBill
<1>8. ASSUME NEW ops, acct' = Reserved(Current, ops), ~Allowed(Current, ops)
      PROVE  acct'.daily = Current.daily /\ acct'.initialized = acct.initialized
  BY <1>2, <1>8, RefusedDaily
<1>9. ASSUME NEW c \in Clients, NEW op \in Singles, ReserveSingle(c, op)
      PROVE  BillInv'
  <2>1. UNCHANGED <<now, inventory, billed>> /\ client[c].phase = "idle"
    BY <1>9 DEF ReserveSingle
  <2>2. <<op>> \in Seq(Operation) /\ DOMAIN <<op>> = {1} /\ <<op>>[1] = op
    BY OperationAssumption
  <2>3. now + SingleTicks <= (Day(now) + 2) * DayTicks
    BY <1>1, SingleExpiry
  <2> DEFINE r == [phase |-> "open", ops |-> <<op>>, slot |-> [i \in DOMAIN <<op>> |-> "held"],
                   batch |-> FALSE, expires |-> now + SingleTicks, day |-> Day(now)]
  <2>4. r.day = Day(now) /\ r.expires <= (Day(now) + 2) * DayTicks /\ r.ops = <<op>> /\ DOMAIN r.slot = {1}
    BY <2>2, <2>3
  <2>5. Open(c, <<op>>, FALSE, now + SingleTicks) =>
          client'[c] = r /\ \A b \in Clients : b # c => client'[b] = client[b]
    <3>1. Open(c, <<op>>, FALSE, now + SingleTicks) => client' = [client EXCEPT ![c] = r]
      BY DEF Open
    <3> HIDE DEF r
    <3> QED BY <1>3, <3>1
  <2> HIDE DEF r
  <2>6. CASE op.kind = "delete"
    <3>1. acct' = Current /\ Open(c, <<op>>, FALSE, now + SingleTicks)
      BY <1>9, <2>6 DEF ReserveSingle
    <3>2. acct'.daily = Current.daily /\ acct'.initialized = acct.initialized
      BY <1>2, <3>1
    <3>3. \A i \in DOMAIN client'[c].slot : client'[c].ops[i].kind = "delete"
      BY <2>2, <2>4, <2>5, <2>6, <3>1
    <3> QED BY <1>1, <2>1, <2>4, <2>5, <3>1, <3>2, <3>3, SettledBill
  <2>7. CASE op.kind # "delete" /\ Allowed(Current, <<op>>)
    <3>1. acct' = Reserved(Current, <<op>>) /\ Open(c, <<op>>, FALSE, now + SingleTicks)
      BY <1>9, <2>7 DEF ReserveSingle
    <3>2. \A b \in Clients : client'[b].phase = "open" =>
            \/ client[b].phase = "open" /\ client'[b].day = client[b].day /\ client'[b].expires = client[b].expires
            \/ client'[b].day = Day(now) /\ client'[b].expires <= (Day(now) + 2) * DayTicks
      BY <2>4, <2>5, <3>1
    <3>3. Lasting'
      BY <1>1, <2>1, <3>2, LastingKept DEF BillInv
    <3>4. \A i \in DOMAIN <<op>> : <<op>>[i].kind # "delete"
      BY <2>2, <2>7
    <3>5. client[c].phase # "open"
      BY <2>1
    <3> QED BY <1>1, <2>1, <2>2, <2>7, <3>1, <3>3, <3>4, <3>5, OpenBill
  <2>8. CASE op.kind # "delete" /\ ~Allowed(Current, <<op>>)
    <3>1. acct' = Reserved(Current, <<op>>) /\ client' = client
      BY <1>9, <2>8 DEF ReserveSingle
    <3>2. acct'.daily = Current.daily /\ acct'.initialized = acct.initialized
      BY <1>8, <2>8, <3>1
    <3> QED BY <1>1, <2>1, <3>1, <3>2, SettledBill
  <2> QED BY <2>6, <2>7, <2>8
<1>10. ASSUME NEW c \in Clients, ReserveBatch(c)
       PROVE  BillInv'
  <2> DEFINE ops == client[c].ops
             e == Min({Expiry(now), client[c].expires})
  <2>1. /\ UNCHANGED <<now, inventory, billed>> /\ client[c].phase = "calling"
        /\ acct' = Reserved(Current, ops)
    BY <1>10 DEF ReserveBatch
  <2>2. ops \in Seq(Operation) /\ \A i \in DOMAIN ops : ops[i].kind # "delete"
    <3>1. ops \in Plans
      BY <1>1, <2>1 DEF Origin
    <3> HIDE DEF ops
    <3> QED BY <3>1, OperationAssumption
  <2>3. e <= (Day(now) + 2) * DayTicks
    BY <1>1, BatchExpiry
  <2>4. CASE Allowed(Current, ops)
    <3>1. Open(c, ops, TRUE, e)
      BY <1>10, <2>4 DEF ReserveBatch
    <3> DEFINE r == [phase |-> "open", ops |-> ops, slot |-> [i \in DOMAIN ops |-> "held"],
                     batch |-> TRUE, expires |-> e, day |-> Day(now)]
    <3> HIDE DEF ops, e
    <3>2. r.day = Day(now) /\ r.expires <= (Day(now) + 2) * DayTicks
      BY <2>3
    <3>3. client' = [client EXCEPT ![c] = r]
      BY <3>1 DEF Open
    <3> HIDE DEF r
    <3>4. client'[c] = r /\ \A b \in Clients : b # c => client'[b] = client[b]
      BY <1>3, <3>3
    <3>5. \A b \in Clients : client'[b].phase = "open" =>
            \/ client[b].phase = "open" /\ client'[b].day = client[b].day /\ client'[b].expires = client[b].expires
            \/ client'[b].day = Day(now) /\ client'[b].expires <= (Day(now) + 2) * DayTicks
      BY <3>2, <3>4
    <3>6. Lasting'
      BY <1>1, <2>1, <3>5, LastingKept DEF BillInv
    <3>7. client[c].phase # "open"
      BY <2>1
    <3> QED BY <1>1, <2>1, <2>2, <2>4, <3>1, <3>6, <3>7, OpenBill
  <2>5. CASE ~Allowed(Current, ops)
    <3>1. client' = [client EXCEPT ![c] = Idle]
      BY <1>10, <2>5 DEF ReserveBatch
    <3>2. client'[c].phase # "open" /\ \A b \in Clients : b # c => client'[b] = client[b]
      <4>1. client'[c] = Idle
        BY <1>3, <3>1
      <4> QED BY <1>3, <3>1, <4>1 DEF Idle
    <3>3. acct'.daily = Current.daily /\ acct'.initialized = acct.initialized
      BY <1>8, <2>1, <2>5
    <3> QED BY <1>1, <2>1, <3>2, <3>3, SettledBill
  <2> QED BY <2>4, <2>5
<1>11. ASSUME NEW c \in Clients, (\E plan \in Plans : StartBatch(c, plan)) \/ Leave(c)
       PROVE  BillInv'
  <2>1. UNCHANGED <<now, acct, inventory, billed>>
    BY <1>11 DEF StartBatch, Leave
  <2>2. client'[c].phase # "open" /\ \A b \in Clients : b # c => client'[b] = client[b]
    <3>1. /\ Idle.phase = "idle"
          /\ \A plan : [Idle EXCEPT !.phase = "calling", !.ops = plan, !.expires = Expiry(now)].phase = "calling"
      BY DEF Idle
    <3>2. CASE \E plan \in Plans : StartBatch(c, plan)
      BY <1>1, <3>1, <3>2 DEF StartBatch
    <3>3. CASE Leave(c)
      BY <1>1, <3>1, <3>3 DEF Leave
    <3> QED BY <1>11, <3>2, <3>3
  <2>3. acct'.daily = acct.daily /\ acct'.initialized = acct.initialized
    BY <2>1
  <2> QED BY <1>1, <2>1, <2>2, <2>3, SettledBill
<1>12. ASSUME NEW c \in Clients, Deleted(c)
       PROVE  BillInv'
  <2>1. UNCHANGED <<now, inventory, billed>> /\ client' = [client EXCEPT ![c] = Idle]
    BY <1>12 DEF Deleted
  <2>2. client'[c].phase # "open" /\ \A b \in Clients : b # c => client'[b] = client[b]
    <3>1. client'[c] = Idle
      BY <1>3, <2>1
    <3> QED BY <1>3, <2>1, <3>1 DEF Idle
  <2>3. acct'.daily = Current.daily /\ acct'.initialized = Current.initialized
    <3> DEFINE s == Current
    <3>1. (\E bytes : acct' = [s EXCEPT !.stored = bytes]) \/ acct' = s
      BY <1>12 DEF Deleted
    <3>2. HasFields(s)
      BY <1>2
    <3> HIDE DEF s
    <3>3. acct'.daily = s.daily /\ acct'.initialized = s.initialized
      BY <3>1, <3>2 DEF HasFields, Fields
    <3> QED BY <3>3 DEF s
  <2> QED BY <1>1, <1>2, <2>1, <2>2, <2>3, SettledBill
<1>13. ASSUME NEW c \in Clients, NEW i \in DOMAIN client[c].slot, Land(c, i) \/ NoEffect(c, i)
       PROVE  BillInv'
  <2>1. UNCHANGED <<now, acct, inventory, billed>> /\ client[c].phase = "open" /\ client[c] \in Invocation
    BY <1>1, <1>13 DEF Land, NoEffect
  <2>2. \/ client' = [client EXCEPT ![c].slot[i] = "done"]
        \/ client' = [client EXCEPT ![c].slot[i] = "done", ![c].phase = "deleted"]
    BY <1>13 DEF Land, NoEffect, SetSlot
  <2>3. \A b \in Clients : b # c => client'[b] = client[b]
    BY <1>1, <2>2
  <2>4. CASE client' = [client EXCEPT ![c].slot[i] = "done"]
    <3>1. /\ client'[c].phase = client[c].phase /\ client'[c].ops = client[c].ops
          /\ client'[c].day = client[c].day /\ client'[c].expires = client[c].expires
          /\ client'[c].slot = [client[c].slot EXCEPT ![i] = "done"]
      BY <1>1, <2>1, <2>4 DEF Invocation
    <3>2. /\ DOMAIN client'[c].slot = DOMAIN client[c].slot
          /\ \A j \in DOMAIN client[c].slot : client'[c].slot[j] = "held" => client[c].slot[j] = "held"
      BY <3>1
    <3>3. acct'.daily = acct.daily /\ acct'.initialized = acct.initialized
      BY <2>1
    <3> QED BY <1>1, <2>1, <2>3, <3>1, <3>2, <3>3, SettledBill
  <2>5. CASE client' = [client EXCEPT ![c].slot[i] = "done", ![c].phase = "deleted"]
    <3>1. client'[c].phase = "deleted"
      BY <1>1, <2>1, <2>5 DEF Invocation
    <3>2. client'[c].phase # "open"
      BY <3>1
    <3>3. acct'.daily = acct.daily /\ acct'.initialized = acct.initialized
      BY <2>1
    <3> QED BY <1>1, <2>1, <2>3, <3>2, <3>3, SettledBill
  <2> QED BY <2>2, <2>4, <2>5
<1>14. ASSUME NEW c \in Clients, NEW i \in DOMAIN client[c].slot, Issue(c, i)
       PROVE  BillInv'
  BY <1>1, <1>14, IssueBill
<1>15. CASE UNCHANGED vars
  <2>1. UNCHANGED <<now, acct, inventory, client, billed>>
    BY <1>15 DEF vars
  <2>2. acct'.daily = acct.daily /\ acct'.initialized = acct.initialized
    BY <2>1
  <2> QED BY <1>1, <2>1, <2>2, SettledBill
<1> QED BY <1>4, <1>5, <1>6, <1>7, <1>9, <1>10, <1>11, <1>12, <1>13, <1>14, <1>15 DEF Next

(* What R2 bills in a billing cycle stays within the free allowance: each  *)
(* operation was charged, to a day the window still holds, before it was   *)
(* issued (reserve and reserve-batch, r2-budget.js).                       *)
THEOREM BillsStayFree == Spec => []BilledWithinFree
<1>1. BillInv => BilledWithinFree
  <2> SUFFICES ASSUME BillInv, NEW k \in Classes PROVE billed[k] <= Free[k]
    BY DEF BilledWithinFree
  <2>1. BillShape /\ billed[k] \in Nat /\ Free[k] \in Nat
    BY FreeType DEF BillInv, BillShape
  <2>2. CASE acct.initialized
    <3>1. billed[k] + Cardinality(Issuable(k)) <= Free[k]
      BY <2>2 DEF BillInv, Covered
    <3>2. Cardinality(Issuable(k)) \in Nat
      BY <2>1, IssuableCards
    <3> QED BY <2>1, <3>1, <3>2
  <2>3. CASE ~acct.initialized
    <3>1. Unguarded /\ ListsDue \in 0 .. 2
      BY <2>3 DEF BillInv, ListsDue
    <3>2. k = "class_a" \/ k = "class_b"
      BY DEF Classes
    <3> QED BY <2>1, <3>1, <3>2 DEF Unguarded
  <2> QED BY <2>2, <2>3
<1> QED BY IInvAlways, PauseInvAlways, BillInitially, BillPreserved, <1>1, PTL DEF Spec
=============================================================================
