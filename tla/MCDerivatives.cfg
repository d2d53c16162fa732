CONSTANTS
  Runners = {g1, g2}
  Items <- MCVideo
  Contents = {c1, c2}
  Gone = Gone
  Damaged = Damaged
  NoRow = NoRow
  MaxRuns = 3
  MaxChanges = 1
SPECIFICATION DerivativesSpec
SYMMETRY MCSymmetry
CHECK_DEADLOCK FALSE
INVARIANT ReadyHasAFile
PROPERTY CalmRunPutsRight
