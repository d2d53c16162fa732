SPECIFICATION FairScores
CONSTANTS
  None = None
  Requests = {r1, r2}
  Profiles = {"instagram"}
  Weights = {"few", "many"}
  Videos = {"v"}
  Contents = {"a", "b"}
  First <- MCFirst
  Words = {"YES", "NO"}
  MaxChanges = 2
  MaxTroubles = 1
  MaxStops = 1
INVARIANTS FreshIsCurrent OneActiveScoreJob
PROPERTIES JobsEnd
CHECK_DEADLOCK FALSE
