---------------------------- MODULE MCThriftFetch ----------------------------
(***************************************************************************)
(* Results of one or two responses: inline batches and links in turn, with  *)
(* the compression confirmed at once, late or never; one that overfills the *)
(* link queue; one that is empty.                                           *)
(***************************************************************************)
EXTENDS ThriftFetch, ThriftConversation

Says(batches, count, meta) == [inline |-> batches, links |-> count, metadata |-> meta]

SmallResults ==
  { <<Says(FALSE, 0, FALSE)>>,
    <<Says(FALSE, 5, TRUE)>>,
    <<Says(FALSE, 3, FALSE)>>,
    <<Says(FALSE, 2, FALSE), Says(FALSE, 1, TRUE)>>,
    <<Says(TRUE, 1, TRUE), Says(TRUE, 1, FALSE)>>,
    <<Says(FALSE, 2, FALSE), Says(TRUE, 0, TRUE)>>,
    <<Says(TRUE, 0, FALSE), Says(FALSE, 0, FALSE), Says(TRUE, 1, FALSE)>> }

\* A server of the client's own version, and one that knows a struct with a
\* set, a list and a map more, and a field whose type has changed.
SomeExtras ==
  LET Listed == WriteList(I64, <<<<Word("i64", 0)>>, <<Word("i64", 0)>>>>)
      Inside == WriteStruct(<<WriteField(SET, 1, Listed), WriteField(MAP, 2, WriteMap(<<3, 4, 5, 6>>))>>)
  IN  {<<>>, <<WriteField(STRUCT, 77, Inside), WriteField(LIST, 1283, Listed)>>}

SomeCuts == {0, 2, 4, 9, 12, 16, 24, 30}

Numbered == 0..4
OneEach  == [i \in Numbered |-> 1]
=============================================================================
