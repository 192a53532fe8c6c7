CONSTANTS
  NULL = NULL
  JobIds = {j1, j2}
  Types = {t1}
  Keys = {k}
  Delays = {0}
  MaxNow = 0
  MaxEntries = 3
  MaxSavepoints = 1
  MaxBlockers = 1
SPECIFICATION Spec
SYMMETRY Symmetry
INVARIANTS IndicesAgree OneOpenRootPerKey
PROPERTIES OrderIsStable ImplementsTable
CHECK_DEADLOCK FALSE
