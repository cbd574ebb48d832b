----------------------------- MODULE MCSeaStatement -----------------------------
(***************************************************************************)
(* Two queries on one key, and a session that waits on another.             *)
(***************************************************************************)
EXTENDS SeaStatement

CONSTANTS k1, k2

SameKey == [q \in Queries |-> k1]

OneIdleElsewhere == [k \in Keys |-> IF k = k2 THEN <<1>> ELSE <<>>]
=============================================================================
