--------------------------- MODULE HistoryDelivery --------------------------
(***************************************************************************)
(* What the history queue promises its producers: an accepted event stays  *)
(* accepted until its work has been applied to the last step, the steps    *)
(* are applied in order, and only a receipt, or an event of a retired      *)
(* token, may be forgotten.  Producers read it as accepted, delivered or   *)
(* unknown (receipts() of history-sql-queue.js).                           *)
(***************************************************************************)
EXTENDS Integers

CONSTANTS
  Events,
  Steps         \* the number of steps of each event's work

VARIABLES
  receipt,      \* what the queue answers: "absent", "pending" or "delivered"
  applied,      \* the steps applied so far
  withdrawn     \* events of retired tokens

vars == <<receipt, applied, withdrawn>>

Init ==
  /\ receipt = [e \in Events |-> "absent"]
  /\ applied = [e \in Events |-> 0]
  /\ withdrawn = {}

(* A receipt or a withdrawn event may be forgotten, to make room.          *)
Forgotten(e) == receipt[e] = "delivered" \/ e \in withdrawn

Accept(e) ==
  /\ receipt[e] = "absent" /\ e \notin withdrawn
  /\ \E gone \in SUBSET {f \in Events : Forgotten(f)} :
       receipt' = [f \in Events |-> IF f = e THEN "pending" ELSE IF f \in gone THEN "absent" ELSE receipt[f]]
  /\ UNCHANGED <<applied, withdrawn>>

Apply(e) ==
  /\ receipt[e] = "pending" \/ e \in withdrawn
  /\ applied[e] < Steps[e]
  /\ applied' = [applied EXCEPT ![e] = @ + 1]
  /\ UNCHANGED <<receipt, withdrawn>>

Deliver(e) ==
  /\ receipt[e] = "pending"
  /\ applied[e] = Steps[e] \/ e \in withdrawn
  /\ receipt' = [receipt EXCEPT ![e] = "delivered"]
  /\ UNCHANGED <<applied, withdrawn>>

Withdraw ==
  /\ \E more \in SUBSET Events : withdrawn' = withdrawn \cup more
  /\ UNCHANGED <<receipt, applied>>

Forget ==
  /\ \E gone \in SUBSET withdrawn :
       receipt' = [e \in Events |-> IF e \in gone THEN "absent" ELSE receipt[e]]
  /\ UNCHANGED <<applied, withdrawn>>

Next == Withdraw \/ Forget \/ \E e \in Events : Accept(e) \/ Apply(e) \/ Deliver(e)

Spec == Init /\ [][Next]_vars
=============================================================================
