SPECIFICATION Spec
CONSTANTS
  p1 = p1  p2 = p2  w1 = w1
  Parts <- TwoParts
  Publishers = {w1}
  Readers = {"r"}
  Kind = "checkpoint"
  Revisions = {0}
  Retirement = FALSE
  Grace = 2
  Latency = 1
  MaxRevision = 9
  MaxTime = 4
SYMMETRY PartSymmetry
CHECK_DEADLOCK FALSE
INVARIANTS TypeOK ManifestComplete RestoreComplete Published

