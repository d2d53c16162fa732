CONSTANTS
  Submits = {s1, s2}
  Confirms = {c1, c2}
  Trips = {t1}
  Paths = {p1, p2}
  Stats = {st}
  Ids = {id1, id2}
  PageSize = 1
  MaxEdits = 1
SPECIFICATION Spec
SYMMETRY MCSymmetry
CHECK_DEADLOCK FALSE
INVARIANTS
  JobFindsItsSource
  OneIngestOfAnInventory
