------------------------------ MODULE R2Budget ------------------------------
(***************************************************************************)
(* The R2 spending guard (cloudflare/scan-dispatcher/src/r2-budget.js).    *)
(*                                                                         *)
(* One Durable Object keeps the account: calendar-month counters of Class  *)
(* A and Class B operations, a 33-day window of daily charges, an upper    *)
(* bound of the stored bytes and, per object key, the bytes that bound     *)
(* counts (the catalogue).  Every request to it is one serialized storage  *)
(* transaction, hence one action here.  Invocations reserve first and run  *)
(* the native R2 calls afterwards; between the two anything can happen:    *)
(* other invocations, a month boundary, a deletion of the same key, a      *)
(* crash.                                                                  *)
(*                                                                         *)
(* Time is counted in ticks, DayTicks of them in a UTC day.                *)
(***************************************************************************)
EXTENDS Integers, Sequences, FiniteSets, FiniteSetsExt

CONSTANTS
  Clients,        \* concurrent Worker invocations
  Keys,           \* object keys
  Singles,        \* operations issued one by one through guardR2Env
  Plans,          \* operation lists issued through withR2BudgetBatch
  Stop, Warn,     \* 90% and 80% of each free allowance
  Free,           \* the free allowance itself
  Metadata,       \* METADATA_ALLOWANCE, bytes added to every object
  PutLimit,       \* R2_BATCH_LIMITS.putBytes, the largest object
  Baselines,      \* account-wide totals an operator may pass to /bootstrap
  DayTicks, MonthDays, SafetyDays,
  CycleOffset,    \* days by which R2's billing cycle is shifted from the month
  BatchTicks, MarginTicks, SingleTicks, DispatchTicks,
  StartUsage,     \* what R2 may have billed this month before the guard exists
  StartBucket,    \* and the buckets it may be found with
  MaxTime         \* bound of the clock

Classes == {"class_a", "class_b"}
Allowances == Classes \cup {"storage_bytes"}
Kinds == {"get", "head", "put", "list", "delete"}
NoKey == "no key"
Never == -1

ASSUME TimeAssumption ==
  /\ {DayTicks, MonthDays, SafetyDays, BatchTicks, SingleTicks, DispatchTicks,
      Metadata} \subseteq Nat \ {0}
  /\ {MarginTicks, MaxTime, PutLimit, CycleOffset} \subseteq Nat
  /\ SafetyDays > MonthDays
  /\ SingleTicks <= DayTicks + 1

(* The guard starts with room in the allowance: what was billed before it, *)
(* and one LIST of a bootstrap in each month of a billing cycle.           *)
ASSUME StartAssumption ==
  /\ StartBucket \subseteq [Keys -> Nat] /\ StartUsage \subseteq [Classes -> Nat]
  /\ Baselines \subseteq [Allowances -> Nat]
  /\ \A usage \in StartUsage :
       usage["class_a"] + 2 <= Free["class_a"] /\ usage["class_b"] <= Free["class_b"]

ASSUME AllowanceAssumption ==
  /\ {Stop, Warn, Free} \subseteq [Allowances -> Nat]
  /\ \A k \in Allowances : Warn[k] <= Stop[k] /\ Stop[k] <= Free[k]

Operation == {op \in [kind : Kinds, key : Keys \cup {NoKey}, bytes : 0 .. PutLimit] :
                op.kind # "list" => op.key \in Keys}

ASSUME OperationAssumption ==
  /\ Singles \subseteq Operation
  /\ Plans \subseteq Seq(Operation)
  /\ \A plan \in Plans : \A i \in DOMAIN plan : plan[i].kind # "delete"

(***************************************************************************)
(* The runtime archive alone deletes objects, and it writes its objects    *)
(* through batches only (runtime-archive.js): no key is both put by a      *)
(* single operation and deleted.                                           *)
(***************************************************************************)
ASSUME DeleteAssumption ==
  \A put \in Singles, delete \in Singles :
    put.kind = "put" /\ delete.kind = "delete" => put.key # delete.key

VARIABLES
  now,        \* the clock
  acct,       \* the guard's durable account record ("budget:v1")
  catalogue,  \* its object:<key> rows: bytes counted, and the tombstone mark
  inventory,  \* the bucket listing of a bootstrap in progress
  client,     \* each invocation's reservation and the state of its calls
  bucket,     \* R2 itself: the size of each stored object, 0 when absent
  billed      \* operations R2 counted in its current billing cycle

vars == <<now, acct, catalogue, inventory, client, bucket, billed>>

-----------------------------------------------------------------------------
(* The account and its evaluation.                                         *)

Days == 0 .. (MaxTime \div DayTicks)
Day(t) == t \div DayTicks
Month(t) == Day(t) \div MonthDays
Cycle(t) == (Day(t) + CycleOffset) \div MonthDays
Reasons == {"none"} \cup Allowances \cup {"rolling_class_a", "rolling_class_b"}
RollingReason == [k \in Classes |-> IF k = "class_a" THEN "rolling_class_a" ELSE "rolling_class_b"]

Class(kind) == IF kind \in {"put", "list"} THEN "class_a" ELSE "class_b"

InitialAccount(t) ==
  [month |-> Month(t), initialized |-> FALSE, used |-> [k \in Classes |-> 0],
   stored |-> 0, paused |-> FALSE, reason |-> "none", notes |-> {},
   dispatchAt |-> Never, daily |-> [d \in Days |-> [k \in Classes |-> 0]]]

(* Variant: the window is the calendar month.                              *)
WindowOfMonth(t) == {d \in Days : d \div MonthDays = Month(t) /\ d <= Day(t)}
(* rolling(): drops the days outside the window of SafetyDays days.        *)
Window(t) == {d \in Days : d >= Day(t) - (SafetyDays - 1) /\ d <= Day(t)}
Prune(s, t) ==
  [s EXCEPT !.daily = [d \in Days |-> IF d \in Window(t) THEN @[d] ELSE [k \in Classes |-> 0]]]
(* The operations of a class that are charged, by day and number in it.    *)
Charged(s, k) == UNION {{d} \X (1 .. s.daily[d][k]) : d \in Days}
Rolling(s) == [k \in Classes |-> Cardinality(Charged(s, k))]

(* The first class, in the code's order, that satisfies P.                 *)
FirstClass(P(_)) ==
  CASE P("class_a") -> "class_a" [] P("class_b") -> "class_b" [] OTHER -> "none"

RollingReached(s) ==
  LET usage == Rolling(s) IN
  FirstClass(LAMBDA k : usage[k] > s.used[k] /\ usage[k] + 1 >= Stop[k])

Reached(s) ==
  LET class == FirstClass(LAMBDA k : s.used[k] >= Stop[k]) IN
  IF class # "none" THEN class
  ELSE IF s.stored >= Stop["storage_bytes"] THEN "storage_bytes" ELSE "none"

(* notify(): one notification per month and kind.                          *)
Notify(s, kind) ==
  IF \E n \in s.notes : n.month = s.month /\ n.kind = kind THEN s
  ELSE [s EXCEPT !.notes = @ \cup {[month |-> s.month, kind |-> kind, acked |-> FALSE]}]

Pause(s, reason) == [s EXCEPT !.paused = TRUE, !.reason = reason]
Unpause(s) == [s EXCEPT !.paused = FALSE, !.reason = "none"]

(* Variant: any pause is cleared once the window has room.                 *)
ClearAnyPause(s) == IF s.paused /\ RollingReached(s) = "none" THEN Unpause(s) ELSE s

ClearRolling(s) ==
  IF s.paused /\ s.reason \in {RollingReason[k] : k \in Classes} /\ RollingReached(s) = "none"
  THEN Unpause(s) ELSE s

Rollover(s, t) ==
  IF s.month = Month(t) THEN s
  ELSE [Unpause(s) EXCEPT !.month = Month(t), !.used = [k \in Classes |-> 0], !.dispatchAt = Never,
          !.notes = {n \in @ : ~n.acked \/ n.month >= Month(t)}]

Latch(s) ==
  IF ~s.paused /\ Reached(s) # "none" THEN Pause(s, Reached(s))
  ELSE LET class == RollingReached(s) IN
       IF ~s.paused /\ class # "none" THEN Pause(s, RollingReason[class]) ELSE s

Announce(s, wasPaused) ==
  LET resumed == IF wasPaused /\ ~s.paused THEN Notify(s, "resumed") ELSE s
      usage == Rolling(s) IN
  IF s.paused THEN Notify(resumed, "paused")
  ELSE IF \/ s.stored >= Warn["storage_bytes"]
          \/ \E k \in Classes : s.used[k] >= Warn[k] \/ usage[k] >= Warn[k]
       THEN Notify(resumed, "warning")
       ELSE resumed

Evaluate(s, t) ==
  LET rolled == Rollover(ClearRolling(Prune(s, t)), t) IN
  IF rolled.initialized THEN Announce(Latch(rolled), s.paused) ELSE rolled

Current == Evaluate(acct, now)

ChargeDay(s, t, counts) == [s EXCEPT !.daily[Day(t)] = [k \in Classes |-> @[k] + counts[k]]]
Charge(s, t, counts, delta) ==
  ChargeDay([s EXCEPT !.used = [k \in Classes |-> @[k] + counts[k]], !.stored = @ + delta], t, counts)

-----------------------------------------------------------------------------
(* Reservations.                                                           *)

(* What a list of operations costs: its operations per class, and for each *)
(* key it writes the largest object it may leave there.                    *)
Counts(ops) == [k \in Classes |-> Cardinality({i \in DOMAIN ops : Class(ops[i].kind) = k})]
PutBytes(ops, key) ==
  LET sizes == {ops[i].bytes + Metadata : i \in {j \in DOMAIN ops : ops[j].kind = "put" /\ ops[j].key = key}}
  IN  IF sizes = {} THEN 0 ELSE Max(sizes)
Delta(ops) ==
  MapThenSumSet(LAMBDA key : Max({0, PutBytes(ops, key) - catalogue[key].bytes}), Keys)

(* The allowance the reservation would bring to its stop line, or "none".  *)
(* (A class the list does not use is below its line already: at the line   *)
(* the account is paused.)                                                 *)
Refusal(s, ops) ==
  LET usage == Rolling(s)
      calendar == FirstClass(LAMBDA k : s.used[k] + Counts(ops)[k] >= Stop[k])
      window == FirstClass(LAMBDA k : usage[k] + Counts(ops)[k] >= Stop[k])
  IN  IF calendar # "none" THEN calendar
      ELSE IF window # "none" THEN RollingReason[window]
      ELSE IF s.stored + Delta(ops) >= Stop["storage_bytes"] THEN "storage_bytes"
      ELSE "none"

(* The account after a paid reservation of ops, whether it was allowed or  *)
(* not; an account that is not initialized or paused refuses at once.      *)
Closed(s) == ~s.initialized \/ s.paused
Allowed(s, ops) == ~Closed(s) /\ Refusal(s, ops) = "none"
Reserved(s, ops) ==
  IF Closed(s) THEN s
  ELSE LET refusal == Refusal(s, ops) IN
       IF refusal # "none" THEN Notify(Pause(s, refusal), "paused")
       ELSE Evaluate(Charge(s, now, Counts(ops), Delta(ops)), now)

(* An admitted PUT raises its key's row to the larger bound; a batch also  *)
(* leaves the tombstone mark that no later DELETE can remove.              *)
(* Variant: a batch leaves no tombstone mark.                              *)
RaiseWithoutMark(ops, retain) ==
  [key \in Keys |->
    IF PutBytes(ops, key) = 0 THEN catalogue[key]
    ELSE [catalogue[key] EXCEPT !.bytes = Max({@, PutBytes(ops, key)})]]
Raise(ops, retain) ==
  [key \in Keys |->
    IF PutBytes(ops, key) = 0 THEN catalogue[key]
    ELSE [bytes |-> Max({catalogue[key].bytes, PutBytes(ops, key)}),
          retained |-> retain \/ catalogue[key].retained]]

-----------------------------------------------------------------------------
(* The invocations.                                                        *)

Phases == {"idle", "calling", "open", "deleted"}
SlotStates == {"held", "issued", "done"}
Idle == [phase |-> "idle", ops |-> <<>>, slot |-> <<>>, batch |-> FALSE, expires |-> Never, day |-> Never]

NoInventory == [month |-> Never, sizes |-> [key \in Keys |-> 0]]
NoRow == [bytes |-> 0, retained |-> FALSE]

(* batchExpiry(): a grant must not outlive its UTC day.                    *)
Expiry(t) == Min({t + BatchTicks, (Day(t) + 1) * DayTicks - MarginTicks})

Open(c, ops, batch, expires) ==
  client' = [client EXCEPT ![c] =
    [phase |-> "open", ops |-> ops, slot |-> [i \in DOMAIN ops |-> "held"],
     batch |-> batch, expires |-> expires, day |-> Day(now)]]

SetSlot(c, i, to) == client' = [client EXCEPT ![c].slot[i] = to]

Init ==
  /\ now = 0
  /\ acct = InitialAccount(0)
  /\ catalogue = [key \in Keys |-> NoRow]
  /\ inventory = NoInventory
  /\ client = [c \in Clients |-> Idle]
  /\ bucket \in StartBucket
  /\ billed \in StartUsage

(* The operator's bootstrap (index.js:1467-1489): an unguarded listing of  *)
(* the bucket, one billed LIST, and then the request to the guard.         *)
BootstrapList ==
  /\ ~acct.initialized
  /\ inventory.month # Month(now)
  /\ inventory' = [month |-> Month(now), sizes |-> bucket]
  /\ billed' = [billed EXCEPT !["class_a"] = @ + 1]
  /\ UNCHANGED <<now, acct, catalogue, client, bucket>>

Baseline(extra) ==
  LET used == [k \in Classes |-> billed[k] + extra[k]]
      stored == MapThenSumSet(LAMBDA key : IF inventory.sizes[key] = 0 THEN 0
                                           ELSE inventory.sizes[key] + Metadata, Keys)
  IN  ChargeDay([Current EXCEPT !.initialized = TRUE, !.used = used,
                                !.stored = Max({stored, extra["storage_bytes"]})], now, used)

(* /bootstrap: the first one in its month sets the account, and a repeated *)
(* one changes nothing.                                                    *)
BootstrapCommit ==
  /\ inventory # NoInventory
  /\ IF Current.initialized
     THEN acct' = Current /\ UNCHANGED catalogue
     ELSE /\ inventory.month = Current.month
          /\ \E extra \in Baselines : acct' = Evaluate(Baseline(extra), now)
          /\ catalogue' = [key \in Keys |->
               IF inventory.sizes[key] = 0 THEN catalogue[key]
               ELSE [bytes |-> inventory.sizes[key] + Metadata, retained |-> FALSE]]
  /\ UNCHANGED <<now, inventory, client, bucket, billed>>

(* /reserve: one operation of guardR2Env.  DELETE is free and never refused. *)
ReserveSingle(c, op) ==
  /\ client[c].phase = "idle"
  /\ IF op.kind = "delete"
     THEN /\ acct' = Current
          /\ Open(c, <<op>>, FALSE, now + SingleTicks)
          /\ UNCHANGED catalogue
     ELSE /\ acct' = Reserved(Current, <<op>>)
          /\ IF Allowed(Current, <<op>>)
             THEN Open(c, <<op>>, FALSE, now + SingleTicks) /\ catalogue' = Raise(<<op>>, FALSE)
             ELSE UNCHANGED <<client, catalogue>>
  /\ UNCHANGED <<now, inventory, bucket, billed>>

(* withR2BudgetBatch fixes its deadline before it calls the guard.         *)
StartBatch(c, plan) ==
  /\ client[c].phase = "idle"
  /\ Expiry(now) > now
  /\ client' = [client EXCEPT ![c] = [Idle EXCEPT !.phase = "calling", !.ops = plan, !.expires = Expiry(now)]]
  /\ UNCHANGED <<now, acct, catalogue, inventory, bucket, billed>>

(* /reserve-batch: the guard refuses a deadline that has passed.           *)
ReserveBatch(c) ==
  LET ops == client[c].ops IN
  /\ client[c].phase = "calling"
  /\ client[c].expires > now
  /\ Expiry(now) > now
  /\ acct' = Reserved(Current, ops)
  /\ IF Allowed(Current, ops)
     THEN Open(c, ops, TRUE, Min({Expiry(now), client[c].expires})) /\ catalogue' = Raise(ops, TRUE)
     ELSE client' = [client EXCEPT ![c] = Idle] /\ UNCHANGED catalogue
  /\ UNCHANGED <<now, inventory, bucket, billed>>

(* The native call of one reserved operation.  A slot is consumed before   *)
(* the call; R2 bills it whatever its outcome.                             *)
Issue(c, i) ==
  LET kind == client[c].ops[i].kind IN
  /\ client[c].phase = "open"
  /\ client[c].slot[i] = "held"
  /\ now < client[c].expires
  /\ SetSlot(c, i, "issued")
  /\ billed' = IF kind = "delete" THEN billed ELSE [billed EXCEPT ![Class(kind)] = @ + 1]
  /\ UNCHANGED <<now, acct, catalogue, inventory, bucket>>

(* R2 applies an issued call, at any later time.  A PUT leaves at most the *)
(* reserved bytes; a DELETE is then reported to the guard.                 *)
Land(c, i) ==
  LET op == client[c].ops[i] IN
  /\ client[c].phase = "open"
  /\ client[c].slot[i] = "issued"
  /\ \/ /\ op.kind = "put"
        /\ \E size \in 1 .. op.bytes : bucket' = [bucket EXCEPT ![op.key] = size]
        /\ SetSlot(c, i, "done")
     \/ /\ op.kind = "delete"
        /\ bucket' = [bucket EXCEPT ![op.key] = 0]
        /\ client' = [client EXCEPT ![c].slot[i] = "done", ![c].phase = "deleted"]
  /\ UNCHANGED <<now, acct, catalogue, inventory, billed>>

(* An issued call that changes nothing: a read, or a failed write.         *)
NoEffect(c, i) ==
  /\ client[c].phase = "open"
  /\ client[c].slot[i] = "issued"
  /\ SetSlot(c, i, "done")
  /\ UNCHANGED <<now, acct, catalogue, inventory, bucket, billed>>

(* /deleted: gives the row's bytes back unless a batch has marked it.      *)
Deleted(c) ==
  LET key == client[c].ops[1].key
      row == catalogue[key] IN
  /\ client[c].phase = "deleted"
  /\ IF row.bytes > 0 /\ ~row.retained
     THEN /\ acct' = [Current EXCEPT !.stored = Max({0, @ - row.bytes})]
          /\ catalogue' = [catalogue EXCEPT ![key] = NoRow]
     ELSE acct' = Current /\ UNCHANGED catalogue
  /\ client' = [client EXCEPT ![c] = Idle]
  /\ UNCHANGED <<now, inventory, bucket, billed>>

(* The invocation ends, throws, times out or is lost: what it holds is     *)
(* given up without a refund; a call R2 already has stays in flight.       *)
Leave(c) ==
  /\ client[c].phase # "idle"
  /\ \A i \in DOMAIN client[c].slot : client[c].slot[i] # "issued"
  /\ client' = [client EXCEPT ![c] = Idle]
  /\ UNCHANGED <<now, acct, catalogue, inventory, bucket, billed>>

(* /ack and /claim-dispatch: the alert reaches the operator.               *)
Ack ==
  /\ \E n \in Current.notes :
       acct' = [Current EXCEPT !.notes = (@ \ {n}) \cup {[n EXCEPT !.acked = TRUE]}]
  /\ UNCHANGED <<now, catalogue, inventory, client, bucket, billed>>

ClaimDispatch ==
  LET due == Current.dispatchAt = Never \/ now - Current.dispatchAt >= DispatchTicks IN
  /\ acct' = IF due /\ \E n \in Current.notes : ~n.acked
             THEN [Current EXCEPT !.dispatchAt = now] ELSE Current
  /\ UNCHANGED <<now, catalogue, inventory, client, bucket, billed>>

Tick ==
  /\ now < MaxTime
  /\ now' = now + 1
  /\ billed' = IF Cycle(now') = Cycle(now) THEN billed ELSE [k \in Classes |-> 0]
  /\ UNCHANGED <<acct, catalogue, inventory, client, bucket>>

Next ==
  \/ Tick \/ BootstrapList \/ BootstrapCommit \/ Ack \/ ClaimDispatch
  \/ \E c \in Clients :
       \/ \E op \in Singles : ReserveSingle(c, op)
       \/ \E plan \in Plans : StartBatch(c, plan)
       \/ ReserveBatch(c) \/ Deleted(c) \/ Leave(c)
       \/ \E i \in DOMAIN client[c].slot : Issue(c, i) \/ Land(c, i) \/ NoEffect(c, i)

Spec == Init /\ [][Next]_vars

-----------------------------------------------------------------------------
(* Properties.                                                             *)

Account ==
  [month : Nat, initialized : BOOLEAN, used : [Classes -> Nat], stored : Nat,
   paused : BOOLEAN, reason : Reasons,
   notes : SUBSET [month : Nat, kind : {"paused", "resumed", "warning"}, acked : BOOLEAN],
   dispatchAt : Nat \cup {Never}, daily : [Days -> [Classes -> Nat]]]

Row == [bytes : Nat, retained : BOOLEAN]

Invocation ==
  [phase : Phases, ops : Seq(Operation), slot : Seq(SlotStates), batch : BOOLEAN,
   expires : Int, day : Int]

(* Every variable keeps its shape; the account's fields are those of       *)
(* initial() in r2-budget.js.                                              *)
TypeOK ==
  /\ now \in 0 .. MaxTime
  /\ acct \in Account
  /\ catalogue \in [Keys -> Row]
  /\ inventory \in [month : Nat \cup {Never}, sizes : [Keys -> Nat]]
  /\ client \in [Clients -> Invocation]
  /\ \A c \in Clients : client[c].slot # <<>> => DOMAIN client[c].slot = DOMAIN client[c].ops
  /\ bucket \in [Keys -> Nat]
  /\ billed \in [Classes -> Nat]

(* The catalogue row of a stored object is never smaller than the object   *)
(* with its metadata, however its writes, its deletions and the reports of *)
(* the deletions interleave (the tombstone of r2-budget.js:213).           *)
CatalogueCovers ==
  acct.initialized =>
    \A key \in Keys : bucket[key] > 0 => bucket[key] + Metadata <= catalogue[key].bytes

(* What R2 bills in one of its billing cycles stays within the free        *)
(* allowance, over bootstrap, concurrent reservations, calls issued after  *)
(* midnight, lost invocations and the month boundary inside the cycle,     *)
(* where the calendar counters restart from zero.                          *)
BilledWithinFree == \A k \in Classes : billed[k] <= Free[k]

(* A pause for an exhausted allowance lasts for the rest of the month: no  *)
(* deletion, repeated bootstrap or acknowledgement releases it.            *)
PauseHolds ==
  [][acct.paused /\ acct.reason \in Allowances /\ acct'.month = acct.month
       => acct'.paused /\ acct'.used = acct.used]_vars

(* Whenever the account is paused its operator has, or has had, a notice   *)
(* of a pause in this month.                                               *)
PauseNotified ==
  acct.initialized /\ acct.paused =>
    \E n \in acct.notes : n.kind = "paused" /\ n.month = acct.month

(* A batch issues its operations on the UTC day they were charged to, so a *)
(* grant never moves usage over a day or month boundary.                   *)
IssuedOnChargedDay ==
  [][\A c \in Clients : client[c].batch /\ billed' # billed /\ client'[c].slot # client[c].slot
       => Day(now) = client[c].day]_vars
=============================================================================
