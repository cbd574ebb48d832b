----------------------------- MODULE NdjsonEncode -----------------------------
(***************************************************************************)
(* What pipeline/ndjson.rs does to the bytes and batches of a page: the     *)
(* page is cut from the decoded batches of a chunk, arrow-json writes its   *)
(* rows in pieces that may end anywhere, the pieces become lines again, and *)
(* the `null' that stands for a NaN or an infinity is found by counting the *)
(* colons of the line.                                                     *)
(*                                                                         *)
(* A byte is its class: all the scanner can tell apart.  `null', four bytes *)
(* in the code, is one here.  A JSON value is its parts: the marks outside   *)
(* its strings, and the strings, whatever their characters are.  Rows are   *)
(* numbered from 1 through the result, and a record batch is a run of them. *)
(***************************************************************************)
EXTENDS Integers, Sequences, SequencesExt

CONSTANTS
  Keys,     \* the column names, in schema order
  Floats,   \* the numbers of the Float32 and Float64 columns, ascending
  Rows,     \* of each row, its cells in schema order
  PageRows, \* NDJSON_PAGE_ROWS
  Cuts      \* after how many bytes of a page arrow-json may end a write

Bytes == {"quote", "backslash", "open", "close", "colon", "comma", "null", "other"}

\* A character of a string is any byte, a newline as well.
Chars == Bytes \cup {"newline"}

Mark(b) == [kind |-> "mark", chars |-> <<b>>]
Parts ==
  {Mark(b) : b \in Bytes \ {"quote", "backslash"}} \cup [kind : {"text"}, chars : Seq(Chars)]

\* How many brackets are open after each part.
Nesting(value) ==
  LET depth[n \in 0..Len(value)] ==
        IF n = 0 THEN 0
        ELSE depth[n - 1] + (CASE value[n] = Mark("open")  -> 1
                               [] value[n] = Mark("close") -> -1
                               [] OTHER                    -> 0)
  IN  depth

\* The parts of a JSON value: its brackets match, a key is always inside one.
IsValue(value) ==
  /\ value \in Seq(Parts)
  /\ Nesting(value)[Len(value)] = 0
  /\ \A n \in DOMAIN value : value[n] = Mark("colon") => Nesting(value)[n] > 0

\* A cell is the value arrow-json writes for it and, when it is not finite, the
\* name of what it is instead: only a float has one, and it is written as null.
ASSUME EncodeAssumption ==
  /\ PageRows \in Nat \ {0}
  /\ Cuts \subseteq Nat
  /\ Keys \in Seq(Seq(Chars))
  /\ Floats \in Seq(DOMAIN Keys)
  /\ \A i, j \in DOMAIN Floats : i < j => Floats[i] < Floats[j]
  /\ Rows \in Seq([DOMAIN Keys -> [json : Seq(Parts), token : Seq(Chars)]])
  /\ \A r \in DOMAIN Rows, k \in DOMAIN Keys :
       /\ IsValue(Rows[r][k].json)
       /\ Rows[r][k].token # <<>> =>
            Rows[r][k].json = <<Mark("null")>> /\ \E n \in DOMAIN Floats : Floats[n] = k

-----------------------------------------------------------------------------
(* Mutants                                                                  *)

\* A quote ends a string, escaped or not.
InStringUnescaped(s, b) == [s EXCEPT !.inString = b # "quote"]

\* The remainder of the straddling batch is not put back.
CutDropping(p, b) ==
  [p EXCEPT !.page = Append(@, [b EXCEPT !.rows = PageRows - p.rows]), !.rows = PageRows, !.full = TRUE]

-----------------------------------------------------------------------------
(* take_page                                                                *)

\* RecordBatch::slice
SliceOf(b, offset, rows) == [first |-> b.first + offset, rows |-> rows]

\* A batch with more rows than there is room: its rest is the next page's.
CutBatch(p, b) ==
  LET room == PageRows - p.rows
  IN  [page |-> Append(p.page, SliceOf(b, 0, room)),
       rest |-> Append(p.rest, SliceOf(b, room, b.rows - room)),
       rows |-> PageRows,
       full |-> TRUE]

\* A batch joins the page, one without rows as well, unless the page is full.
WholeBatch(p, b) ==
  [p EXCEPT !.page = Append(@, b), !.rows = @ + b.rows, !.full = p.rows + b.rows >= PageRows]

TakeBatch(p, b) ==
  IF p.full THEN [p EXCEPT !.rest = Append(@, b)]
  ELSE IF b.rows > PageRows - p.rows THEN CutBatch(p, b)
  ELSE WholeBatch(p, b)

TakePage(pending) ==
  LET taken[n \in 0..Len(pending)] ==
        IF n = 0 THEN [page |-> <<>>, rest |-> <<>>, rows |-> 0, full |-> FALSE]
        ELSE TakeBatch(taken[n - 1], pending[n])
  IN  taken[Len(pending)]

-----------------------------------------------------------------------------
(* LineCollector                                                            *)

\* A newline ends the line that `pending' has begun, perhaps in an earlier write.
CollectByte(c, b) ==
  IF b = "newline"
  THEN [lines |-> Append(c.lines, c.pending), pending |-> <<>>]
  ELSE [c EXCEPT !.pending = Append(@, b)]

\* Mutant: what an earlier write left of a row is not put in front.
WriteForgetting(c, bytes) ==
  LET collected[n \in 0..Len(bytes)] ==
        IF n = 0 THEN [c EXCEPT !.pending = <<>>] ELSE CollectByte(collected[n - 1], bytes[n])
  IN  collected[Len(bytes)]

\* What follows the last newline waits for a later write.
Write(c, bytes) ==
  LET collected[n \in 0..Len(bytes)] ==
        IF n = 0 THEN c ELSE CollectByte(collected[n - 1], bytes[n])
  IN  collected[Len(bytes)]

-----------------------------------------------------------------------------
(* arrow-json                                                               *)

Escaped(c) ==
  CASE c \in {"quote", "backslash"} -> <<"backslash", c>>
    [] c = "newline" -> <<"backslash", "other">>
    [] OTHER -> <<c>>

\* A JSON string.
Text(chars) == <<"quote">> \o FlattenSeq([n \in DOMAIN chars |-> Escaped(chars[n])]) \o <<"quote">>

Encoded(part) == IF part.kind = "text" THEN Text(part.chars) ELSE part.chars
Json(value) == FlattenSeq([n \in DOMAIN value |-> Encoded(value[n])])

\* A cell with its key, and the comma before it.
Cell(k, json) == (IF k = 1 THEN <<>> ELSE <<"comma">>) \o Text(Keys[k]) \o <<"colon">> \o json

Line(cells) == <<"open">> \o FlattenSeq(cells) \o <<"close">>

\* What arrow-json writes for a row: an object, its keys in field order.
WrittenRow(r) == Line([k \in DOMAIN Keys |-> Cell(k, Json(Rows[r][k].json))]) \o <<"newline">>

RunOf(b) == [n \in 1..b.rows |-> b.first + n - 1]
RowsOfPage(batches) == FlattenSeq([n \in DOMAIN batches |-> RunOf(batches[n])])

Written(batches) ==
  LET rows == RowsOfPage(batches) IN FlattenSeq([n \in DOMAIN rows |-> WrittenRow(rows[n])])

-----------------------------------------------------------------------------
(* replace_nth_top_level_null                                               *)

InString(s, b) ==
  IF s.escape THEN [s EXCEPT !.escape = FALSE]
  ELSE [s EXCEPT !.escape = b = "backslash", !.inString = b # "quote"]

\* The colon of a key at the top level: the n-th is looked for.
AtColon(s, i, n) ==
  IF s.depth # 1 THEN s
  ELSE IF s.field = n THEN [s EXCEPT !.value = i + 1]
  ELSE [s EXCEPT !.field = @ + 1]

ScanByte(s, b, i, n) ==
  CASE s.value # 0 -> s
    [] s.value = 0 /\ s.inString -> InString(s, b)
    [] s.value = 0 /\ ~s.inString ->
         CASE b = "quote" -> [s EXCEPT !.inString = TRUE]
           [] b = "open"  -> [s EXCEPT !.depth = @ + 1]
           [] b = "close" -> [s EXCEPT !.depth = @ - 1]
           [] b = "colon" -> AtColon(s, i, n)
           [] OTHER -> s

\* Where the value of the n-th top-level key starts, 0 if there is none.
ValueStart(line, n) ==
  LET scan[i \in 0..Len(line)] ==
        IF i = 0
        THEN [inString |-> FALSE, escape |-> FALSE, depth |-> 0, field |-> 1, value |-> 0]
        ELSE ScanByte(scan[i - 1], line[i], i, n)
  IN  scan[Len(line)].value

ReplaceNthTopLevelNull(line, n, token) ==
  LET at == ValueStart(line, n)
  IN  IF at = 0 THEN line
      ELSE SubSeq(line, 1, at - 1) \o token \o SubSeq(line, at + 1, Len(line))

\* patch_non_finite_floats, for one line: column by column, in place.
PatchedCell(line, r, k) ==
  IF Rows[r][k].token = <<>> THEN line
  ELSE ReplaceNthTopLevelNull(line, k, Text(Rows[r][k].token))

PatchedLine(line, r) ==
  LET patched[n \in 0..Len(Floats)] ==
        IF n = 0 THEN line ELSE PatchedCell(patched[n - 1], r, Floats[n])
  IN  patched[Len(Floats)]

\* The n-th line belongs to the n-th row of the batches together.
PatchNonFiniteFloats(batches, lines) ==
  [n \in DOMAIN lines |-> PatchedLine(lines[n], RowsOfPage(batches)[n])]

-----------------------------------------------------------------------------
\* encode_ndjson_lines, when arrow-json writes the page in two pieces, the first
\* of `cut' bytes.
Collected(batches, cut) ==
  LET bytes == Written(batches)
      end == IF cut < Len(bytes) THEN cut ELSE Len(bytes)
      first == Write([lines |-> <<>>, pending |-> <<>>], SubSeq(bytes, 1, end))
  IN  Write(first, SubSeq(bytes, end + 1, Len(bytes)))

EncodeNdjsonLines(batches, cut, nonFiniteAsString) ==
  LET lines == Collected(batches, cut).lines
  IN  IF nonFiniteAsString THEN PatchNonFiniteFloats(batches, lines) ELSE lines

\* The line a row should have: each cell in its place, a value that is not
\* finite as its token when that is asked for.
LineOf(r, nonFiniteAsString) ==
  Line([k \in DOMAIN Keys |->
          Cell(k, IF nonFiniteAsString /\ Rows[r][k].token # <<>>
                  THEN Text(Rows[r][k].token) ELSE Json(Rows[r][k].json))])
=============================================================================
