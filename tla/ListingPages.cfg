CONSTANTS
  NULL = NULL
  Ids = {1, 2, 3}
  Limits = {1, 2}
  MaxTime = 1
  Resolution = 2
  CoarseLists = {"jobs", "blockedJobs"}
SPECIFICATION Spec
INVARIANT StayersListedOnce
