SPECIFICATION FairThriftSpec
CONSTANTS
  Indexes <- Numbered
  LinkCount <- OneEach
  Results <- SmallResults
  ChunkFetchConcurrency = 2
  Submissions <- ThriftSubmissions
  Fetches <- ThriftFetches
  Damages <- ThriftDamages
  MaxSkipDepth = 4
  Extras <- SomeExtras
  Cuts <- SomeCuts
INVARIANTS
  CompressionIsKnown
  FailuresAreReal
PROPERTIES
  DeliversInOrder
  AbandonedFetchEnds
  PatientReaderIsAnswered
CHECK_DEADLOCK FALSE
