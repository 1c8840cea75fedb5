SPECIFICATION Spec
CONSTANTS
  p1 = p1  p2 = p2  w1 = w1
  Parts <- TwoParts
  Publishers = {w1}
  Readers = {}
  Kind = "dashboard"
  Revisions = {0}
  Retirement = TRUE
  Grace = 1
  Latency = 0
  MaxRevision = 6
  MaxTime = 3
SYMMETRY PartSymmetry
CHECK_DEADLOCK FALSE
PROPERTIES NeverBack
