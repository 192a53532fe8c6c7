CONSTANTS
  NULL = NULL
  JobIds = {j1, j2, j3}
  Types = {t1, t2}
  Keys = {}
  Delays = {0, 1}
  MaxNow = 1
  MaxEntries = 0
  MaxSavepoints = 0
  MaxBlockers = 0
SPECIFICATION Spec
SYMMETRY Symmetry
INVARIANTS AcquisitionFindsTheEarliest ReaperFindsTheOldest
CHECK_DEADLOCK FALSE
