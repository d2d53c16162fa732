CONSTANTS
  w1 = w1
  w2 = w2
  NoWorker = NoWorker
  Workers <- MCWorkers
  Jobs = {1, 2}
  IngestJobs = {1}
  CapableOf <- MCCapableOf
  LeaseSeconds = {1, 2}
  Errors = {"source_unavailable", "destination_conflict"}
  Units = 1
  MaxClock = 2
  MaxRevision = 5
  MaxBeats = 1
SPECIFICATION Spec
INVARIANTS
  OneLeasePerWorker
  IngestMirrorsJob
PROPERTIES
  SpentTokensStaySpent
  LiveLeaseIsKept
  WorkSpec
