---------------------------- MODULE MCResultStream ----------------------------
(***************************************************************************)
(* Small instances of ResultStream for model checking.                     *)
(***************************************************************************)
EXTENDS ResultStream

Chunk(rows, estimate) == [rows |-> rows, estimate |-> estimate]

\* One chunk the manifest understates, one that is empty and has no estimate,
\* one it overstates.
Uneven == <<Chunk(3, 2), Chunk(0, 0), Chunk(1, 2)>>

UnevenOrEmpty == {Uneven, <<>>}

TwoChunks == {<<Chunk(1, 1), Chunk(1, 1)>>}
=============================================================================
