SPECIFICATION Spec
CONSTANTS
  k1 = k1
  k2 = k2
  Keys = {k1, k2}
  Queries = {q1, q2}
  KeyOf <- SameKey
  PreferInline = {q1}
  Warm <- OneIdleElsewhere
  MaxSessionsPerKey = 1
  MaxSessions = 4
  MaxStatements = 3
  RetryAttempts = 2
  CanRefresh = FALSE
INVARIANTS
  CommitsOnce
  NothingRunsForNobody
  SessionsAccounted
CHECK_DEADLOCK FALSE
