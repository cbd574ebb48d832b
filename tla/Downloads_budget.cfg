SPECIFICATION FairSpec
CONSTANTS
  a = a
  b = b
  c = c
  Batches <- OneAndTwo
  Slots = 5
  MaxSplitParts = 5
  PartSize = 2
  Sizes = {2, 11}
  RetryAttempts = 2
INVARIANTS
  BudgetIsKept
  AssembledIsFile
PROPERTY DownloadsEnd
CHECK_DEADLOCK FALSE
