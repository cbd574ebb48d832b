---------------------------- MODULE MCChunkFetch ----------------------------
(***************************************************************************)
(* Small instances of ChunkFetch for model checking.                       *)
(***************************************************************************)
EXTENDS ChunkFetch

\* Index 3 is missing from the manifest, which lists 1 before 0 and 4 before 2;
\* chunk 2 has no link and the last chunk two.
GappedIndexes  == {0, 1, 2, 4}
GappedManifest == <<1, 0, 4, 2>>
GappedLinks    == [i \in GappedIndexes |-> CASE i = 2 -> 0 [] i = 4 -> 2 [] OTHER -> 1]

\* Chunk 1 and the links of chunk 4 came with the statement, and an empty link
\* of chunk 0; chunk 7 is not in the manifest.
SomeLinks ==
  <<[index |-> 4, link |-> 1], [index |-> 1, link |-> 1], [index |-> 0, link |-> NoLink],
    [index |-> 4, link |-> 2], [index |-> 7, link |-> 1]>>

\* Chunk 0 carries two links, chunk 1 one.
TwoThenOne  == [i \in {0, 1} |-> IF i = 0 THEN 2 ELSE 1]
TwoChunks   == <<0, 1>>
NoneEmbedded == <<>>
=============================================================================
