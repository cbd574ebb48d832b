------------------------------ MODULE ClientCalls ------------------------------
(***************************************************************************)
(* The calls that share one client: queries on their way through            *)
(* ensure_warehouse_running and operations on volume files, made from       *)
(* several event loops.                                                     *)
(***************************************************************************)
EXTENDS Warehouse, VolumeFiles

vars == <<requestVars, warehouseVars, volumeVars>>

Init == RequestsInit /\ WarehouseInit /\ VolumeInit

QueryMoves(c) == EnsureStep(c) \/ EnsureDropped(c) \/ GiveUpWaiting(c) \/ StatementEnds(c)

Next ==
  \/ \E c \in Calls : QueryMoves(c) /\ UNCHANGED volumeVars
  \/ \E c \in Calls : (StartVolume(c) \/ VolumeStep(c) \/ VolumeDropped(c)) /\ UNCHANGED warehouseVars
  \/ (Settle \/ OtherStart \/ Expire) /\ UNCHANGED <<requestVars, volumeVars>>
  \/ (Stop \/ Delete) /\ UNCHANGED <<provider, valid, loopVars, phase, request, volumeVars>>
  \/ OtherWrites /\ UNCHANGED <<requestVars, warehouseVars>>
  \/ Rotate /\ UNCHANGED <<warehouseVars, volumeVars>>
  \/ \E l \in Loops : CloseLoop(l) /\ UNCHANGED <<warehouseVars, volumeVars>>

Spec == Init /\ [][Next]_vars

\* Requests end and tasks are polled, coroutines on an open loop run, and a
\* stopping or a starting warehouse settles.  The deadline is not fair: nobody
\* is made to give up waiting.
FairSpec ==
  /\ Spec
  /\ WF_vars(Settle /\ UNCHANGED <<requestVars, volumeVars>>)
  /\ \A c \in Calls : WF_vars(EnsureStep(c) /\ UNCHANGED volumeVars)

\* Every query gets past ensure_warehouse_running without giving up: a warehouse
\* it finds stopped, or that stops while it is waited for, is started, and one
\* that is deleted is an error at once.  Nothing is promised to a coroutine whose
\* loop is closed.
QueriesGetThrough ==
  \A c \in Calls :
    phase[c] \in Waiting ~> phase[c] \notin Waiting \/ (provider = "async" /\ open # Loops)

-----------------------------------------------------------------------------
(* The inductive invariant behind CallersLoop, ErrorsAreEarned and          *)
(* FileAnswersHold.                                                         *)

Phases == {"new", "ready"} \cup Waiting \cup OnFiles \cup Ended

\* What is sent was asked for no earlier than the attempt it belongs to began.
TokensInv ==
  \A c \in Calls :
    /\ request[c].asked <= valid
    /\ AtStage(c, "sent") /\ provider # "static" => request[c].asked <= request[c].token

\* Of the attempts of every call.
RequestsInv ==
  /\ RequestsTypeOK /\ phase \in [Calls -> Phases]
  /\ TokensInv /\ CallersLoop /\ ErrorsAreEarned

\* A call about a file never becomes a query, nor a query one about a file.
KindsInv ==
  \A c \in Calls :
    /\ wants[c] # "nothing" => phase[c] \in OnFiles \cup Ended
    /\ phase[c] \in OnFiles => wants[c] # "nothing"

\* Of the calls about files.
FilesInv ==
  /\ wants \in [Calls -> {"nothing", "file", "no file"}]
  /\ place \in Places
  /\ took \subseteq Calls
  /\ told \in [Calls -> {"nothing", "done", "not found", "refused"}]
  /\ KindsInv /\ FileAnswersHold

CallsInv == RequestsInv /\ FilesInv
=============================================================================
