--------------------------- MODULE OrderedDelivery ---------------------------
(***************************************************************************)
(* What a result stream promises its reader: the blobs of the result in    *)
(* their logical order, each once; the end only after the last of them; a  *)
(* failure at any point before the end, after which nothing is delivered.  *)
(***************************************************************************)
EXTENDS Integers, Sequences

VARIABLES
  blobs,       \* the result: records with the fields index and link
  delivered,   \* what the reader has been given
  reader       \* what it has last been told

vars == <<blobs, delivered, reader>>

Precedes(a, b) == a.index < b.index \/ (a.index = b.index /\ a.link < b.link)

Given == {delivered[n] : n \in DOMAIN delivered}

Init == delivered = <<>> /\ reader = "reading"

\* The next blob is the one all of whose predecessors have been delivered.
Deliver(b) ==
  /\ reader = "reading"
  /\ b \notin Given
  /\ \A a \in blobs : Precedes(a, b) => a \in Given
  /\ delivered' = Append(delivered, b)
  /\ UNCHANGED <<blobs, reader>>

End ==
  /\ reader = "reading"
  /\ blobs \subseteq Given
  /\ reader' = "done"
  /\ UNCHANGED <<blobs, delivered>>

Fail ==
  /\ reader = "reading"
  /\ reader' = "failed"
  /\ UNCHANGED <<blobs, delivered>>

Abandon ==
  /\ reader # "dropped"
  /\ reader' = "dropped"
  /\ UNCHANGED <<blobs, delivered>>

Next == (\E b \in blobs : Deliver(b)) \/ End \/ Fail \/ Abandon

Spec == Init /\ [][Next]_vars
=============================================================================
