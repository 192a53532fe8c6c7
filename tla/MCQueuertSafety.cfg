CONSTANTS
  NULL = NULL
  w1 = w1
  w2 = w2
  s1 = s1
  s2 = s2
  JobIds = {j1, j2, j3}
  Workers = {w1, w2}
  Keys = {k}
  k = k
  Slots = {s1, s2}
  Owner <- OneSlotEach
  MaxAttempts = 2
  MaxBlockers = 2
  ContinuationBlockers = TRUE
  StaleBlockers = FALSE
  EscapingErrors = TRUE
SPECIFICATION Spec
SYMMETRY FullSymmetry
VIEW WhatIsRead
INVARIANTS TypeOK ChainShape BlockedWhileWaiting OnlyCurrentAttemptWrites NoDanglingBlockers SqliteAgrees SqliteCascades
CHECK_DEADLOCK FALSE
