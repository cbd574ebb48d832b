SPECIFICATION FairSpec
CONSTANTS
  Indexes <- GappedIndexes
  LinkCount <- GappedLinks
  Manifest <- GappedManifest
  Embedded <- SomeLinks
  ChunkFetchConcurrency = 3
INVARIANTS
  TypeOK
  NoSilentTruncation
PROPERTIES
  DeliversInOrder
  AbandonedPoolEnds
  PatientReaderIsAnswered
CHECK_DEADLOCK FALSE
