SPECIFICATION FairSpec
CONSTANTS
  Plain = {p, q}
  Streamed = {s}
  Wants = {1, 2}
  Results <- UnevenOrEmpty
  Everything = 9
  MaxChunksPerFetchBatch = 2
INVARIANTS
  AnswersAreRuns
  ShortAnswerMeansEnd
  ReportTellsPoison
PROPERTIES
  CallsEnd
CHECK_DEADLOCK FALSE
