----------------------------- MODULE MCR2Budget -----------------------------
(* Small instances of R2Budget for TLC. *)
EXTENDS R2Budget, TLC

CONSTANTS c1, c2, k1

Op(kind, key, bytes) == [kind |-> kind, key |-> key, bytes |-> bytes]
Put(key, bytes) == Op("put", key, bytes)
Get(key) == Op("get", key, 0)
Delete(key) == Op("delete", key, 0)

AllowanceLimits(a, b, s) == [k \in Allowances |-> CASE k = "class_a" -> a [] k = "class_b" -> b [] OTHER -> s]

MCClients == {c1, c2}
ClientSymmetry == Permutations({c1, c2})

(* One object that is written by batches and deleted by single operations, *)
(* as those of the runtime archive, and two classes near their stop lines  *)
(* over a month boundary inside a billing cycle; the second baseline finds *)
(* the storage allowance exhausted.                                        *)
GuardKeys == {k1}
GuardSingles == {Get(k1), Delete(k1)}
GuardPlans == {<<Put(k1, 1)>>}
GuardStop == AllowanceLimits(3, 2, 9)
GuardWarn == AllowanceLimits(3, 2, 9)
GuardFree == AllowanceLimits(3, 2, 10)
GuardBaselines == {AllowanceLimits(0, 0, 0), AllowanceLimits(0, 0, 9)}
GuardUsage == {[k \in Classes |-> 0]}
GuardBuckets == {[key \in GuardKeys |-> 3]}
=============================================================================
