CONSTANTS
  None = None
  Ids = {r1, r2}
  Pages = {"p", "q"}
  Wants <- MixedWants
  Headers = {TRUE, FALSE}
  Results = {"failed", "new", "same"}
  Faults = {"none", "mkpath", "fork"}
  MayDie = FALSE
  MaxNow = 2
  FetchTime = 1
  Retry = 0
  PurgeInterval = 1
  PurgeUnused = 1
  PurgeUncacheable = 1
SPECIFICATION FairSpec
PROPERTIES
  RequestsAnswered
CHECK_DEADLOCK FALSE
