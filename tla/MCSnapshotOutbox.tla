--------------------------- MODULE MCSnapshotOutbox ---------------------------
(* Delivery: three snapshots of one row (a batch of up to 25 events); the    *)
(* first is too large for the archive, the third has an invalid row.          *)
(* Replay: one snapshot of two rows whose second is a recent episode, so that *)
(* the order of the rows matters.                                             *)
EXTENDS SnapshotOutbox

MCPriority == <<1>>
MCInvalid == {<<3, 1>>}
RecentSecond == <<2, 1>>
===============================================================================
