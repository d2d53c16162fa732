CONSTANTS
  w1 = w1
  w2 = w2
  NoWorker = NoWorker
  NoRequest = NoRequest
  NoError = NoError
  Workers <- MCWorkers
  Jobs = {1}
  IngestJobs = {1}
  EmptyJobs = {}
  CapableOf <- MCCapableOf
  LeaseSeconds = {1}
  Errors = {"source_unavailable"}
  Units = 1
  Reconciles = TRUE
  MaxClock = 1
  MaxRevision = 6
  MaxBeats = 3
  MaxFaults = 2
  MaxLate = 1
SPECIFICATION SessionSpec
INVARIANTS
  CompleteMeansVerified
  HolderIsInStep
PROPERTIES
  TableSpec
  PendingIsTaken
