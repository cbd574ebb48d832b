SPECIFICATION FairSpec
CONSTANTS
  k1 = k1
  Keys = {k1}
  Queries = {q1, q2}
  KeyOf <- SameKey
  MaxSessionsPerKey = 2
  Warm <- TwoIdle
  MaxSessions = 4
  MaxRestarts = 1
  Closable = TRUE
INVARIANTS
  PoolIsExact
  RunsAtMostOnce
  SessionsOwned
PROPERTY QueriesEnd
CHECK_DEADLOCK FALSE
