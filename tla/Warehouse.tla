------------------------------- MODULE Warehouse -------------------------------
(***************************************************************************)
(* ensure_warehouse_running and the cache behind it (client.rs), for the    *)
(* queries of one client, while the warehouse stops by itself, is started   *)
(* by others or is deleted.  A query that gets past it is "ready" to submit *)
(* its statement.                                                           *)
(***************************************************************************)
EXTENDS Requests

VARIABLES
  warehouse,    \* server: the state GET /warehouses/{id} reports
  confirmed     \* warehouse_confirmed_running_at is younger than the TTL

warehouseVars == <<warehouse, confirmed>>

States  == {"running", "stopping", "stopped", "starting", "deleted"}
Waiting == {"checking", "starting", "waiting"}

WarehouseInit ==
  /\ warehouse \in States
  /\ confirmed = FALSE

-----------------------------------------------------------------------------
(* Mutants                                                                  *)

\* Only the first look starts a stopped warehouse.
StartsStoppedAtFirst(q) == phase[q] = "checking"

-----------------------------------------------------------------------------
\* The TTL check.
Ensure(q) ==
  /\ phase[q] = "new"
  /\ MoveTo(q, IF confirmed THEN "ready" ELSE "checking")
  /\ UNCHANGED <<worldVars, loopVars, request, warehouseVars>>

\* note_warehouse_running, here and after every statement that succeeded.
NoteRunning == confirmed' = TRUE

\* "STOPPED" is acted on in every round of the loop.
StartsStopped(q) == TRUE

EnsureToken(q) ==
  /\ phase[q] \in Waiting
  /\ GetToken(q, TRUE) \/ CoroutineEnds(q, TRUE)
  /\ UNCHANGED warehouseVars

\* The GET is answered, and what the loop makes of it.
Look(q) ==
  /\ phase[q] \in {"checking", "waiting"}
  /\ AtStage(q, "sent") /\ Accepted(q)
  /\ IF warehouse = "running" THEN NoteRunning ELSE UNCHANGED confirmed
  /\ MoveTo(q, CASE warehouse = "running" -> "ready"
                 [] warehouse = "stopped" /\ StartsStopped(q) -> "starting"
                 [] warehouse = "deleted" -> "ArrowbricksError"
                 [] OTHER -> "waiting")
  /\ IF warehouse = "deleted" THEN Report(q) ELSE UNCHANGED <<eventLoop, sinkKnown>>
  /\ Fresh(q)
  /\ UNCHANGED <<worldVars, open, lastKnown, warehouse>>

StartRequest == warehouse' = IF warehouse = "stopped" THEN "starting" ELSE warehouse

\* POST /start: it does nothing to a warehouse that is no longer stopped.
StartWarehouse(q) ==
  /\ phase[q] = "starting"
  /\ AtStage(q, "sent") /\ Accepted(q)
  /\ StartRequest
  /\ MoveTo(q, "waiting")
  /\ Fresh(q)
  /\ UNCHANGED <<worldVars, loopVars, confirmed>>

\* An attempt of the GET or of the POST fails, and the query if it was the last.
EnsureFails(q) ==
  /\ phase[q] \in Waiting
  /\ AtStage(q, "sent")
  /\ \E failure \in MayFail(q) :
       /\ AttemptFails(q, failure, phase[q] # "starting", TRUE)
       /\ \/ phase[q] = "starting" /\ failure \in R!Ambiguous /\ StartRequest
          \/ UNCHANGED warehouse
  /\ UNCHANGED <<worldVars, open, lastKnown, confirmed>>

\* The future of the query is dropped.
EnsureDropped(q) ==
  /\ phase[q] \in Waiting
  /\ MoveTo(q, "cancelled")
  /\ Fresh(q)
  /\ \/ phase[q] = "starting" /\ AtStage(q, "sent") /\ Accepted(q) /\ StartRequest
     \/ UNCHANGED warehouse
  /\ UNCHANGED <<worldVars, loopVars, confirmed>>

\* warehouse_start_timeout, looked at before the next sleep: the submission may
\* find out what is wrong.
GiveUpWaiting(q) ==
  /\ phase[q] = "waiting"
  /\ request[q] = FreshRequest
  /\ MoveTo(q, "ready")
  /\ UNCHANGED <<worldVars, loopVars, request, warehouseVars>>

\* The statement that follows: one that succeeds has seen the warehouse run.
StatementEnds(q) ==
  /\ phase[q] = "ready"
  /\ \/ warehouse = "running" /\ NoteRunning /\ MoveTo(q, "succeeded")
     \/ MoveTo(q, "ArrowbricksError") /\ UNCHANGED confirmed
  /\ Report(q)
  /\ UNCHANGED <<worldVars, open, lastKnown, request, warehouse>>

-----------------------------------------------------------------------------
(* The warehouse, and the time                                              *)

Stop ==
  /\ Trouble
  /\ warehouse = "running"
  /\ warehouse' = "stopping"
  /\ UNCHANGED confirmed

\* Stopping comes to an end, and starting.
Settle ==
  /\ warehouse \in {"stopping", "starting"}
  /\ warehouse' = IF warehouse = "stopping" THEN "stopped" ELSE "running"
  /\ UNCHANGED confirmed

OtherStart ==
  /\ warehouse = "stopped"
  /\ warehouse' = "starting"
  /\ UNCHANGED confirmed

Delete ==
  /\ warehouse \in {"stopped", "running"}
  /\ Trouble
  /\ warehouse' = "deleted"
  /\ UNCHANGED confirmed

Expire ==
  /\ confirmed
  /\ confirmed' = FALSE
  /\ UNCHANGED warehouse

EnsureStep(q) == Ensure(q) \/ EnsureToken(q) \/ Look(q) \/ StartWarehouse(q) \/ EnsureFails(q)
=============================================================================
