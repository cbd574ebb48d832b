----------------------------- MODULE MCClientCalls -----------------------------
(***************************************************************************)
(* Two calls from two loops, one of them making its requests in a spawned   *)
(* task.                                                                    *)
(***************************************************************************)
EXTENDS ClientCalls

CONSTANTS here, there, outer, inner

OwnLoops == [c \in Calls |-> IF c = outer THEN here ELSE there]
=============================================================================
