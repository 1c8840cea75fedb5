------------------------ MODULE MCRuntimeDocuments ------------------------
(* Small instances of RuntimeDocuments for TLC. *)
EXTENDS RuntimeDocuments, TLC

CONSTANTS p1, p2, w1

TwoParts == {p1, p2}

PartSymmetry == Permutations(TwoParts)
=============================================================================
