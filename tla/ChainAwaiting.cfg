CONSTANTS
  NULL = NULL
  Waiters = {w1, w2}
  Others = {o1}
  Faults = {"connect", "query", "publish", "disconnect"}
SPECIFICATION FairSpec
INVARIANTS NoCompletionMissed RunningIsHeard ConnectionReturned
PROPERTY AwaitEnds
CHECK_DEADLOCK FALSE
