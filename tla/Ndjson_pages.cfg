SPECIFICATION FairSpec
CONSTANTS
  Keys <- ThreeKeys
  Floats <- FloatColumns
  Rows <- FourRows
  PageRows = 2
  Cuts = {9, 26, 40}
  Results <- Chunked
  MaxCancels = 2
INVARIANTS
  LinesAreRows
  ReportAgrees
  TimeoutLeavesNothing
PROPERTIES
  AbandonedStreamLetsGo
  PatientCallerEnds
CHECK_DEADLOCK FALSE
