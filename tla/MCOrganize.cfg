CONSTANTS
  r1 = r1
  c1 = c1
  poi1 = poi1
  poi2 = poi2
  NoPoi = NoPoi
  FirstManifests <- MCFirstManifests
  Runs = {r1, r2}
  Cards = {c1}
  CardOf <- MCCardOf
  SlotCount = 2
  PrimaryOf <- MCPrimaryOf
  FirstData <- MCFirstData
  NewBlocks = {1}
  Folders = {poi1, poi2}
  PoiOf <- MCPoiOf
  Default = poi1
  MaxEdits = 1
SPECIFICATION Spec
INVARIANTS
  ListedIsVerified
PROPERTIES
  ListingsAreKept
  PartialsAreKept
  AppliedIsListed
