CONSTANTS
  NULL = NULL
  w1 = w1
  w2 = w2
  Workers = {w1, w2}
  Jobs = {j1}
  Concurrency <- OneSlotEach
  MaxAttempts = 2
  Faults = {"publish", "listen", "database", "crash", "stop"}
SPECIFICATION FairSpec
INVARIANTS StopAbandonsNothing NoJobIsForgotten
PROPERTIES DueJobsAreTaken ExpiredLeasesEnd
CHECK_DEADLOCK FALSE
