CONSTANTS
  Importers = {i1, i2}
  Manifests <- MCManifests
  a1 = a1
  a2 = a2
  right = right
  wrong = wrong
  said = said
  edited = edited
  Contents = {right, wrong}
  Gone = Gone
  NoTrip = NoTrip
  NoAsset = NoAsset
  Words = {edited}
  MaxRuns = 3
  MaxChanges = 1
SPECIFICATION Spec
SYMMETRY MCSymmetry
CHECK_DEADLOCK FALSE
INVARIANTS
  CatalogIsImported
PROPERTIES
  WordsArePeoples
  CalmImportTellsTheShare
