--------------------------- MODULE MCHistoryQueue ---------------------------
(* Small instances of HistoryQueue for TLC. *)
EXTENDS HistoryQueue, TLC

CONSTANTS a1, a2, b1, A, B, f1, f2

(* Two events of one episode, or of two; a2 is the newer one.              *)
PairEvents == {a1, a2}
PairRank == [e \in PairEvents |-> IF e = a1 THEN 1 ELSE 2]
OneEpisode == [e \in PairEvents |-> A]
TwoEpisodes == [e \in PairEvents |-> IF e = a1 THEN A ELSE B]
AllCold == [e \in PairEvents |-> -9]
(* a1 is cold: its source time is before the live window.                  *)
ColdFirst == [e \in PairEvents |-> IF e = a1 THEN -9 ELSE 0]

PlainPhases == [e \in PairEvents |-> <<"plain", "plain">>]
LockPhases == [e \in PairEvents |-> <<"locked", "unlock">>]
MixedPhases == [e \in PairEvents |-> IF e = a1 THEN <<"locked", "unlock">> ELSE <<"plain">>]
UnitCost == [k \in Kinds |-> 1]

FlusherSymmetry == Permutations({f1, f2})
=============================================================================
