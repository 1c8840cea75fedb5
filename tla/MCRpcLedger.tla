---------------------------- MODULE MCRpcLedger ----------------------------
(* Small instances of RpcLedger for TLC. *)
EXTENDS RpcLedger, TLC

CONSTANTS s1, s2

TwoScans == {s1, s2}
ScanSymmetry == Permutations(TwoScans)
=============================================================================
