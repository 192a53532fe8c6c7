CONSTANTS
  NULL = NULL
  w1 = w1
  w2 = w2
  s1 = s1
  s2 = s2
  JobIds = {j1, j2}
  Workers = {w1, w2}
  Keys = {k}
  k = k
  Slots = {s1, s2}
  Owner <- OneSlotEach
  MaxAttempts = 2
  MaxBlockers = 1
  ContinuationBlockers = FALSE
  StaleBlockers = FALSE
  EscapingErrors = FALSE
SPECIFICATION FairSpec


INVARIANT RunningIsRecoverable
PROPERTIES CompletionIsFinal ChainsSettle ExpiredLeasesResolve
CHECK_DEADLOCK FALSE
