------------------------------ MODULE AgentRender ------------------------------
(***************************************************************************)
(* AgentRenderer and EscapedWriter (agent/render.rs): rows as text within a *)
(* number of rows, of bytes and of characters per cell.                     *)
(*                                                                         *)
(* Text is counted, not kept: the bytes of the output, of the row being     *)
(* written (scratch) and of the budget of its cell.  A character is its     *)
(* class, which decides the pieces its escape is written in.  One step is   *)
(* one character, so that AgentQuery can interrupt between two of them.     *)
(***************************************************************************)
EXTENDS Integers, Sequences

CONSTANTS
  Results,      \* what a statement may yield
  MaxRows,      \* max_rows
  MaxBytes,     \* max_bytes
  MaxCellChars, \* max_cell_chars
  Decimal       \* the digits of a number of rows in decimal notation

\* Mutant: the reserve forgets the two remarks that may end the footer.
ReserveWithoutRemarks == 94

FOOTER_RESERVE == 160
CLIPPED == 14
NoColumns == 22  \* "Result has no columns."
SchemaExceeds == 53

Formats == {"tsv", "markdown"}
Chars == {"plain", "wide", "entity", "mark", "backslash", "line", "control"}
Kinds == {"null", "string", "other", "broken"}
Cells == [kind : Kinds, text : Seq(Chars)]

\* Every row has a cell per column; header is what the line of names and types
\* takes when escaped, zero only if there are no columns.
ResultsAssumption ==
  Results \subseteq [header : Nat, columns : Nat, rows : Seq(Seq(Cells))]
ShapeAssumption ==
  \A res \in Results :
    /\ \A r \in DOMAIN res.rows : Len(res.rows[r]) = res.columns
    /\ res.columns = 0 <=> res.header = 0

\* AgentOptions::validate; a count below isize::MAX has at most 19 digits.
BudgetAssumption ==
  /\ MaxRows \in Nat \ {0}
  /\ MaxBytes \in Nat /\ MaxBytes >= 256
  /\ MaxCellChars \in Nat \ {0}
  /\ Decimal \in [0..MaxRows -> 1..19]

ASSUME ResultsAssumption
ASSUME ShapeAssumption
ASSUME BudgetAssumption

VARIABLES
  result,         \* the result of the statement
  format,         \* OutputFormat
  phase,          \* where push_batch is, or that there is no renderer yet
  left,           \* rows of the batch that are not written
  output,         \* bytes of AgentRenderer.output
  rows,           \* AgentRenderer.rows
  full,           \* AgentRenderer.full
  omittedRows,    \* AgentRenderer.omitted_rows
  cellsTruncated, \* AgentRenderer.cells_truncated
  scratch,        \* bytes of the row being written
  column,         \* its cell
  at,             \* the next character of the cell
  budget,         \* EscapedWriter.bytes
  rowClipped,     \* a cell of the row is clipped
  lacks,          \* history: a character of the row is not shown
  lost            \* history: a character of a row in the output is not shown

rowVars == <<scratch, column, at, budget, rowClipped, lacks>>
outVars == <<output, rows, cellsTruncated, lost>>
renderVars == <<result, format, phase, left, full, omittedRows, outVars, rowVars>>

\* none, between two batches, between two rows, before a cell, in a cell, or with
\* `Ok(false)', or an error, returned.
Phases == {"none", "idle", "row", "column", "cell", "stopped", "failed"}

NumbersOK ==
  /\ result \in Results /\ format \in Formats /\ phase \in Phases
  /\ left \in Nat
  /\ output \in Nat /\ rows \in 0..MaxRows
  /\ scratch \in Nat /\ column \in Nat /\ at \in Nat /\ budget \in Nat

FlagsOK ==
  /\ full \in BOOLEAN /\ omittedRows \in BOOLEAN
  /\ cellsTruncated \in BOOLEAN /\ lost \in BOOLEAN
  /\ rowClipped \in BOOLEAN /\ lacks \in BOOLEAN

RenderInit ==
  /\ result \in Results /\ format \in Formats
  /\ phase = "none" /\ left = 0
  /\ output = 0 /\ rows = 0
  /\ full = FALSE /\ omittedRows = FALSE /\ cellsTruncated = FALSE
  /\ scratch = 0 /\ column = 1 /\ at = 1 /\ budget = 0
  /\ rowClipped = FALSE /\ lacks = FALSE /\ lost = FALSE

Tsv == format = "tsv"
Available == MaxBytes - FOOTER_RESERVE - output
Cell == result.rows[rows + 1][column]

-----------------------------------------------------------------------------
(* EscapedWriter                                                            *)

\* The first piece of an escape and the one behind it.  A wide character has up
\* to four bytes; a control character is \u and four digits.
Pieces(char) ==
  CASE char = "plain" -> <<1, 0>>
    [] char = "wide" -> <<4, 0>>
    [] char = "entity" -> IF Tsv THEN <<1, 0>> ELSE <<5, 0>>
    [] char = "mark" -> IF Tsv THEN <<1, 0>> ELSE <<1, 1>>
    [] char = "backslash" -> <<1, 1>>
    [] char = "line" -> <<2, 0>>
    [] OTHER -> <<6, 0>>

\* raw twice: the bytes that are written before one does not fit.
Written(char) ==
  LET p == Pieces(char)
  IN  IF p[1] > budget THEN 0 ELSE IF p[1] + p[2] > budget THEN p[1] ELSE p[1] + p[2]

Fits(char) == Pieces(char)[1] + Pieces(char)[2] <= budget

-----------------------------------------------------------------------------
(* AgentRenderer::new and push_batch                                        *)

\* The header, or what is said in its place if it does not fit.
NewRenderer ==
  LET exceeds == result.header > MaxBytes - FOOTER_RESERVE
  IN  /\ phase = "none"
      /\ phase' = "idle"
      /\ output' = IF result.columns = 0 THEN NoColumns
                   ELSE IF exceeds THEN SchemaExceeds ELSE result.header
      /\ full' = exceeds /\ omittedRows' = exceeds
      /\ UNCHANGED <<result, format, left, rows, cellsTruncated, lost, rowVars>>

\* push_batch of a batch of n rows.
StartBatch(n) ==
  /\ phase = "idle"
  /\ left' = n
  /\ phase' = IF full THEN "stopped" ELSE "row"
  /\ omittedRows' = (omittedRows \/ (full /\ n # 0))
  /\ UNCHANGED <<result, format, full, outVars, rowVars>>

\* Ok(!self.is_full())
EndBatch ==
  /\ phase = "row"
  /\ left = 0
  /\ phase' = IF full \/ rows = MaxRows THEN "stopped" ELSE "idle"
  /\ UNCHANGED <<result, format, left, full, omittedRows, outVars, rowVars>>

\* A row that is not shown ends the output.
Refuse(because) ==
  /\ phase' = "stopped"
  /\ omittedRows' = TRUE
  /\ full' = (full \/ because = "bytes")
  /\ UNCHANGED <<result, format, left, outVars>>

StartRow ==
  /\ phase = "row"
  /\ left > 0
  /\ \/ rows = MaxRows /\ Refuse("rows") /\ UNCHANGED rowVars
     \/ /\ rows < MaxRows /\ result.columns = 0
        /\ rows' = rows + 1 /\ left' = left - 1
        /\ UNCHANGED <<result, format, phase, full, omittedRows, output, cellsTruncated, lost, rowVars>>
     \/ /\ rows < MaxRows /\ result.columns > 0
        /\ phase' = "column"
        /\ scratch' = IF Tsv THEN 0 ELSE 1
        /\ column' = 1 /\ rowClipped' = FALSE /\ lacks' = FALSE
        /\ UNCHANGED <<result, format, left, full, omittedRows, outVars, at, budget>>

\* The closing quote, the clipping marker and the delimiter have room before a
\* cell is begun.
Reserve == CLIPPED + 5

Quote == IF ~Tsv /\ Cell.kind = "string" THEN 1 ELSE 0
Pipe == IF Tsv THEN 0 ELSE 1
Opening == IF Tsv THEN (IF column > 1 THEN 1 ELSE 0) ELSE Quote

\* Mutant: the room is only looked at when the row is complete.
StartCellUnreserved ==
  /\ phase = "column"
  /\ column <= result.columns
  /\ scratch' = scratch + Opening
  /\ budget' = Available - scratch - Opening - Reserve
  /\ at' = 1
  /\ phase' = "cell"
  /\ UNCHANGED <<result, format, left, full, omittedRows, outVars, column, rowClipped, lacks>>

\* The tabulator or the quote; a NULL is written at once, whatever is left.
StartCell ==
  /\ phase = "column"
  /\ column <= result.columns
  /\ \/ scratch + Reserve + 2 > Available /\ Refuse("bytes") /\ UNCHANGED rowVars
     \/ /\ scratch + Reserve + 2 <= Available
        /\ Cell.kind = "null"
        /\ scratch' = scratch + Opening + (IF Tsv THEN 2 ELSE 4) + Pipe
        /\ column' = column + 1
        /\ UNCHANGED <<result, format, phase, left, full, omittedRows, outVars, at, budget, rowClipped, lacks>>
     \/ /\ scratch + Reserve + 2 <= Available
        /\ Cell.kind # "null"
        /\ scratch' = scratch + Opening
        /\ budget' = Available - scratch - Opening - Reserve
        /\ at' = 1
        /\ phase' = "cell"
        /\ UNCHANGED <<result, format, left, full, omittedRows, outVars, column, rowClipped, lacks>>

InCell == UNCHANGED <<result, format, left, full, omittedRows, outVars>>

\* write_str: the next character, whole.
WriteChar ==
  /\ phase = "cell"
  /\ at <= Len(Cell.text)
  /\ at <= MaxCellChars
  /\ Fits(Cell.text[at])
  /\ scratch' = scratch + Written(Cell.text[at])
  /\ budget' = budget - Written(Cell.text[at])
  /\ at' = at + 1
  /\ UNCHANGED <<phase, column, rowClipped, lacks>>
  /\ InCell

\* ... or not, or not whole: the cell is clipped there.
ClipCell ==
  /\ phase = "cell"
  /\ at <= Len(Cell.text)
  /\ \/ at > MaxCellChars /\ scratch' = scratch + CLIPPED + Quote + Pipe
     \/ /\ at <= MaxCellChars /\ ~Fits(Cell.text[at])
        /\ scratch' = scratch + Written(Cell.text[at]) + CLIPPED + Quote + Pipe
  /\ rowClipped' = TRUE
  /\ lacks' = TRUE
  /\ phase' = "column"
  /\ column' = column + 1
  /\ UNCHANGED <<at, budget>>
  /\ InCell

\* All of it is written; a formatter may still fail.
EndCell ==
  /\ phase = "cell"
  /\ at > Len(Cell.text)
  /\ IF Cell.kind = "broken"
     THEN phase' = "failed" /\ UNCHANGED <<scratch, column>>
     ELSE phase' = "column" /\ column' = column + 1 /\ scratch' = scratch + Quote + Pipe
  /\ UNCHANGED <<at, budget, rowClipped, lacks>>
  /\ InCell

EndRow ==
  /\ phase = "column"
  /\ column > result.columns
  /\ \/ scratch + 1 > Available /\ Refuse("bytes") /\ UNCHANGED rowVars
     \/ /\ scratch + 1 <= Available
        /\ output' = output + scratch + 1
        /\ cellsTruncated' = (cellsTruncated \/ rowClipped)
        /\ lost' = (lost \/ lacks)
        /\ rows' = rows + 1 /\ left' = left - 1
        /\ phase' = "row"
        /\ UNCHANGED <<result, format, full, omittedRows, rowVars>>

\* Between two batches nothing happens without the caller of push_batch.
RenderStep == EndBatch \/ StartRow \/ StartCell \/ WriteChar \/ ClipCell \/ EndCell \/ EndRow

\* The interrupt is looked at before a renderer, a row and every 256 characters.
CheckDue ==
  \/ phase = "none"
  \/ phase = "row" /\ left > 0
  \/ phase = "cell" /\ at <= Len(Cell.text) /\ at % 256 = 1

-----------------------------------------------------------------------------
(* AgentRenderer::finish                                                    *)

Exact(exhausted) == exhausted /\ ~omittedRows
Complete(exhausted) == Exact(exhausted) /\ ~cellsTruncated

\* rows_shown, complete, total_rows with `=' or `>=', and the two remarks.
Footer(exhausted) ==
  12 + Decimal[rows]
  + 11 + (IF Complete(exhausted) THEN 4 ELSE 5)
  + 12 + (IF Exact(exhausted) THEN 1 ELSE 2) + Decimal[rows]
  + (IF cellsTruncated THEN 22 ELSE 0)
  + (IF Complete(exhausted) THEN 0 ELSE 44)
=============================================================================
