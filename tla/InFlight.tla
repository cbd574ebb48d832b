-------------------------------- MODULE InFlight --------------------------------
(***************************************************************************)
(* The statement of one submission, and who may still ask for its end:      *)
(* QueryStatsAccumulator.in_flight, CancelInFlightOnDrop (pipeline/stats.rs) *)
(* and AbandonedSubmitCancel (pipeline/thrift_exec.rs).                      *)
(*                                                                         *)
(* The client can cancel only what it has a handle of: SEA's POST may wait   *)
(* up to wait_timeout before it returns one ("a query abandoned inside that *)
(* window can't be cancelled", docs/usage.md, Cancellation), and Thrift's    *)
(* ExecuteStatement goes on in a task of its own when nobody waits for it.   *)
(***************************************************************************)

VARIABLES
  statement, \* of the server: none, running, finished or cancelled
  cleanup    \* a cancellation on its way, or why there will be none

inFlightVars == <<statement, cleanup>>

\* handle: the reply with the handle is awaited; request: the request is out;
\* unheard: the handle will never be known; failed: so has the request.
Cleanups == {"none", "handle", "request", "unheard", "failed"}

InFlightTypeOK ==
  /\ statement \in {"none", "running", "finished", "cancelled"}
  /\ cleanup \in Cleanups

InFlightInit == statement = "none" /\ cleanup = "none"

\* The handle arrives, of a statement that was accepted: set_in_flight.
Heard ==
  /\ statement' = "running"
  /\ UNCHANGED cleanup

\* The submission fails without a handle, or is given up: nothing was accepted,
\* or what was is never heard of.
Unheard ==
  \/ UNCHANGED inFlightVars
  \/ statement' = "running" /\ cleanup' = "unheard"

\* Dropped before the handle is known; a Thrift client goes on waiting for it.
AbandonPost == Unheard \/ (statement' = "running" /\ cleanup' = "handle")

\* Mutant: a dropped future cancels nothing.
CancelNothing == UNCHANGED inFlightVars

\* CancelInFlightOnDrop: the request is spawned, the caller does not wait for it.
CancelInFlight ==
  /\ cleanup' = "request"
  /\ UNCHANGED statement

\* A terminal state, known at the next poll.
StatementEnds ==
  /\ statement = "running"
  /\ statement' = "finished"
  /\ UNCHANGED cleanup

HandleArrives ==
  /\ cleanup = "handle"
  /\ cleanup' \in {"request", "unheard"}
  /\ UNCHANGED statement

\* cancel_statement: "fire-and-forget", after bounded retries.
CancelEnds ==
  /\ cleanup = "request"
  /\ \/ cleanup' = "none" /\ statement' = IF statement = "running" THEN "cancelled" ELSE statement
     \/ cleanup' = "failed" /\ UNCHANGED statement

CleanupStep == HandleArrives \/ CancelEnds

\* A statement that runs for nobody is being cancelled, or cannot be: its handle
\* has not reached the client, or the request has failed.
LetGo == statement = "running" => cleanup # "none"

\* ... and nothing more will be tried.
LetGoForGood == statement = "running" => cleanup \in {"unheard", "failed"}
=============================================================================
