CONSTANTS
  i1 = i1
  i2 = i2
  c1 = c1
  c2 = c2
  None = None
  Ingests <- MCIngests
  Cards <- MCCards
  CardOf <- MCCardOf
  ItemCount = 2
  FirstData <- MCFirstData
  Blocks = {0, 1}
  NewBlocks = {1}
  MaxEdits = 1
  MaxCrashes = 2
SPECIFICATION Spec
CHECK_DEADLOCK FALSE
INVARIANTS
  PublishedIsWhole
  VerifiedIsSafe
PROPERTIES
  NeverReplaced
  PartialsAreKept
  StopsAreSurvived
