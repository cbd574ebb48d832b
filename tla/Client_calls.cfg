SPECIFICATION FairSpec
CONSTANTS
  here = here
  there = there
  outer = outer
  inner = inner
  Calls = {outer, inner}
  Loops = {here, there}
  LoopOf <- OwnLoops
  Spawned = {inner}
  RetryAttempts = 2
  MaxTroubles = 1
INVARIANTS
  CallersLoop
  ErrorsAreEarned
  FileAnswersHold
PROPERTY QueriesGetThrough
CHECK_DEADLOCK FALSE
