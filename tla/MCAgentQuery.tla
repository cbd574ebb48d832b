----------------------------- MODULE MCAgentQuery -----------------------------
(***************************************************************************)
(* Small instances of AgentQuery for model checking.                       *)
(***************************************************************************)
EXTENDS AgentQuery, TLC

DecimalDigits == [n \in 0..MaxRows |-> Len(ToString(n))]

Of(char, n) == [i \in 1..n |-> char]
Cell1(kind, text) == [kind |-> kind, text |-> text]
Null == Cell1("null", <<>>)
String(text) == Cell1("string", text)
Other(text) == Cell1("other", text)
Result(header, columns, table) == [header |-> header, columns |-> columns, rows |-> table]

\* With MaxBytes = 256 there are 96 bytes for header and rows.
Previews == {
  \* one row more than max_rows, one of them with a cell of one character too many
  Result(9, 1, <<<<String(Of("plain", 8))>>, <<Null>>, <<String(Of("plain", 9))>>, <<Null>>>>),
  \* exactly max_rows, with a NULL in little room
  Result(70, 2, <<<<Null, Null>>, <<Null, Null>>, <<Null, Null>>>>),
  \* escapes that end at and beyond the last byte of a cell
  Result(70, 1, <<<<String(<<"plain", "mark", "backslash", "line", "entity", "wide">>)>>>>),
  Result(71, 1, <<<<Other(<<"plain", "wide", "mark", "backslash", "line">>)>>>>),
  Result(72, 2, <<<<Other(<<"backslash", "mark">>), String(<<"entity">>)>>>>),
  \* rows that fill the output, all of them with a clipped cell
  Result(70, 1, [r \in 1..4 |-> <<String(Of("wide", 2) \o Of("plain", 7))>>]),
  \* a row that does not fit, and one behind it that would
  Result(40, 2, <<<<String(Of("control", 6)), String(Of("plain", 8))>>, <<Null, Null>>>>),
  \* no room for a cell, none for the header
  Result(76, 1, <<<<Null>>>>),
  Result(97, 1, <<<<Null>>, <<Null>>>>),
  Result(97, 1, <<>>),
  \* no rows, no columns, a cell that cannot be formatted
  Result(12, 1, <<>>),
  Result(0, 0, <<<<>>, <<>>>>),
  Result(12, 1, <<<<Other(<<"plain">>)>>, <<Cell1("broken", <<"plain">>)>>>>) }

Message(text, fixed, class) == [text |-> text, fixed |-> fixed, class |-> class]
Run(char, times) == [char |-> char, times |-> times]
Diagnostics == {
  Message(<<Run("plain", 10)>>, 120, 19),
  Message(<<Run("plain", 96)>>, 130, 40),
  Message(<<Run("plain", 30), Run("quote", 20), Run("wide", 80)>>, 130, 19),
  Message(<<Run("wide", 2), Run("control", 60)>>, 130, 100) }
=============================================================================
