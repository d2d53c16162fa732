CONSTANTS
  Candidates = {1, 2}
  AssetOf <- MCTwoTakes
  Cuts = {Whole, c}
  Whole = Whole
  Requests = {r1, r2}
  NoJob = NoJob
  MaxDecisions = 3
  MaxFaults = 2
SPECIFICATION Spec
CHECK_DEADLOCK FALSE
INVARIANTS
  FolderIsAsDecided
  OneFolderPerJob
PROPERTY ExportsEnd
