CONSTANTS
  NULL = NULL
  JobIds = {a, b, c}
  Workers = {s1, s2}
  Keys = {}
  Operations = {"work"}
  MaxAttempts = 1
  MaxBlockers = 2
SPECIFICATION Spec
SYMMETRY Symmetry
INVARIANT BlockedJobsWait
CHECK_DEADLOCK FALSE
