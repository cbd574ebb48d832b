SPECIFICATION Spec
CONSTANTS
  Plain = {p}
  Streamed = {s}
  Wants = {1}
  Results <- TwoChunks
  Everything = 9
  MaxChunksPerFetchBatch = 32
INVARIANT LostRowsAreLoud
CHECK_DEADLOCK FALSE
