SPECIFICATION FairSpec
CONSTANTS
  Indexes = {0, 1}
  LinkCount <- TwoThenOne
  Manifest <- TwoChunks
  Embedded <- NoneEmbedded
  ChunkFetchConcurrency = 2
PROPERTY DeliversInOrder
CHECK_DEADLOCK FALSE
