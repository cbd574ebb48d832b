SPECIFICATION FairSpec
CONSTANTS
  Results <- Previews
  MaxRows = 3
  MaxBytes = 256
  MaxCellChars = 8
  Decimal <- DecimalDigits
  Batch = 2
  Messages <- Diagnostics
INVARIANTS
  TypeOK
  WithinBudget
  ErrorFits
  SaysWhatItShows
  OutcomeAgrees
  StatementNotLeft
PROPERTIES
  QueryEnds
CHECK_DEADLOCK FALSE
