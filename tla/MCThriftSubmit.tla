---------------------------- MODULE MCThriftSubmit ----------------------------
(***************************************************************************)
(* Two queries on one key.                                                  *)
(***************************************************************************)
EXTENDS ThriftSubmit

CONSTANTS k1

SameKey == [q \in Queries |-> k1]

Cold == [k \in Keys |-> <<>>]
TwoIdle == [k \in Keys |-> <<1, 2>>]
=============================================================================
