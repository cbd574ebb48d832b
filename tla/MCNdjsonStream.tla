---------------------------- MODULE MCNdjsonStream ----------------------------
(***************************************************************************)
(* Small instances of NdjsonStream for model checking.                     *)
(***************************************************************************)
EXTENDS NdjsonStream

String(chars) == [kind |-> "text", chars |-> chars]
Plain(json) == [json |-> json, token |-> <<>>]
NotFinite == [json |-> <<Mark("null")>>, token |-> <<"other">>]
Number == Plain(<<Mark("other")>>)
NoValue == Plain(<<Mark("null")>>)

\* A float, a column whose name has a quote and a colon, another float.
ThreeKeys == <<<<"other">>, <<"quote", "colon">>, <<"other">>>>

\* Not finite at both ends, around a text with a newline that ends in a
\* backslash; a struct with a key and a null of its own; a NULL beside the value
\* to be replaced.
FourRows == <<
  <<NotFinite, Plain(<<String(<<"open", "newline", "backslash">>)>>), NotFinite>>,
  <<Number, Plain(<<Mark("open"), String(<<>>), Mark("colon"), Mark("null"), Mark("close")>>), NotFinite>>,
  <<NotFinite, NoValue, Number>>,
  <<NoValue, Plain(<<Mark("open"), Mark("null"), Mark("comma"), Mark("null"), Mark("close")>>), NotFinite>> >>

FloatColumns == <<1, 3>>

\* A chunk whose second batch straddles the page, then one without rows, one
\* without batches; or no chunk at all.
Chunked == {<<<<1, 2>>, <<0>>, <<1>>>>, <<<<>>>>, <<>>}
=============================================================================
