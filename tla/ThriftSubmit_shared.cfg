SPECIFICATION Spec
CONSTANTS
  k1 = k1
  Keys = {k1}
  Queries = {q1, q2}
  KeyOf <- SameKey
  MaxSessionsPerKey = 1
  Warm <- Cold
  MaxSessions = 2
  MaxRestarts = 0
  Closable = FALSE
INVARIANT SessionOutlivesFetch
CHECK_DEADLOCK FALSE
