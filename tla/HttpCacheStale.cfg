CONSTANTS
  None = None
  Ids = {r1, r2, r3}
  Pages = {"p"}
  Wants <- PageWants
  Headers = {TRUE, FALSE}
  Results = {"failed", "new", "same"}
  Faults = {"none"}
  MayDie = FALSE
  MaxNow = 3
  FetchTime = 1
  Retry = 0
  PurgeInterval = 1
  PurgeUnused = 1
  PurgeUncacheable = 1
SPECIFICATION Spec
SYMMETRY IdSymmetry
INVARIANTS
  CopiedFromValid
CHECK_DEADLOCK FALSE
