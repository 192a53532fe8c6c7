CONSTANTS
  NULL = NULL
  JobIds = {a, b, c}
  Workers = {s1, s2}
  Keys = {}
  Operations = {"continue", "delete", "complete", "work"}
  MaxAttempts = 2
  MaxBlockers = 1
SPECIFICATION Spec
SYMMETRY Symmetry
INVARIANTS ChainsInOrder ReferencesExist SingleBlockerUnblocks ChainsDeletedWhole
PROPERTY CompletedChainsStay
CHECK_DEADLOCK FALSE
