-------------------------------- MODULE Requests --------------------------------
(***************************************************************************)
(* The requests of the calls made on one client: each attempt asks the      *)
(* token provider, then the server; a failed one is repeated as Retry says. *)
(* An async provider's coroutine runs on an asyncio loop that LoopResolver  *)
(* (lib.rs) finds; a call carries its loop into the tasks spawned for it    *)
(* (client/call_context.rs).  A sync provider needs no loop.                *)
(*                                                                         *)
(* A token is the number of rotations the server had made when it was       *)
(* given out: the server takes the latest only.                             *)
(***************************************************************************)
EXTENDS Integers

CONSTANTS
  Calls,
  Loops,          \* asyncio event loops
  LoopOf,         \* the loop on which each call was made
  Spawned,        \* calls whose requests are made in a task spawned for them
  RetryAttempts,
  MaxTroubles     \* bound: how often a token is rotated, a loop closed or the
                  \* warehouse stopped or deleted, in all

NoLoop == "no loop"

ASSUME CallsAssumption ==
  /\ LoopOf \in [Calls -> Loops]
  /\ Spawned \subseteq Calls
  /\ RetryAttempts \in Nat \ {0} /\ MaxTroubles \in Nat
  /\ NoLoop \notin Loops

VARIABLES
  provider,   \* a static token, or a callable: sync or async
  troubles,   \* history: how many there were, up to MaxTroubles
  valid,      \* server: the token it takes
  open,       \* the loops that are not closed
  lastKnown,  \* LoopResolver.last_known of the token provider
  sinkKnown,  \* ... and of the event sink, an async callable
  phase,      \* where each call stands
  request,    \* the request it is waiting for, or its last
  eventLoop   \* the loop its on_event runs on, once it is due

loopVars == <<open, lastKnown, sinkKnown, eventLoop>>
requestVars == <<troubles, provider, valid, loopVars, phase, request>>
worldVars == <<troubles, provider, valid>>

R == INSTANCE Retry WITH CanRefresh <- provider # "static"

NotDue == "not due"

Errors == {"AuthError", "TransientError", "ArrowbricksError"}
Ended  == Errors \cup {"succeeded", "cancelled"}

\* loop and token are those of the attempt, asked the token that was valid when
\* it began (of a repeated one), and from is where its error came from.
FreshRequest ==
  [stage |-> "token", loop |-> NoLoop, token |-> 0, attempt |-> 1, asked |-> 0, from |-> "none"]

RequestsInit ==
  /\ provider \in {"static", "sync", "async"}
  /\ troubles = 0
  /\ valid = 0
  /\ open = Loops
  /\ lastKnown = NoLoop /\ sinkKnown = NoLoop
  /\ phase = [c \in Calls |-> "new"]
  /\ request = [c \in Calls |-> FreshRequest]
  /\ eventLoop = [c \in Calls |-> NotDue]

MoveTo(c, p) == phase' = [phase EXCEPT ![c] = p]
Fresh(c) == request' = [request EXCEPT ![c] = FreshRequest]
AtStage(c, stage) == request[c].stage = stage

-----------------------------------------------------------------------------
(* LoopResolver                                                             *)

\* Mutant: a spawned task does not have the context of its call.
CarriedNowhere(c) == IF c \in Spawned THEN NoLoop ELSE LoopOf[c]

\* with_call_context, and in_call_context around every spawn.
CallContext(c) == LoopOf[c]

\* get_current_locals: only in the outer task of a call, and closed or not.
CurrentLocals(c) == IF c \in Spawned THEN NoLoop ELSE LoopOf[c]

Found(c) == IF CallContext(c) \in open THEN CallContext(c) ELSE CurrentLocals(c)

Resolved(c, known) ==
  IF Found(c) # NoLoop THEN Found(c) ELSE IF known \in open THEN known ELSE NoLoop

Learnt(c, known) == IF Found(c) # NoLoop THEN Found(c) ELSE known

-----------------------------------------------------------------------------
(* One attempt                                                              *)

\* PyEventSink::on_event
Report(c) ==
  /\ eventLoop' = [eventLoop EXCEPT ![c] = Resolved(c, sinkKnown)]
  /\ sinkKnown' = Learnt(c, sinkKnown)

\* api_error_to_pyerr
ErrorOf(failure, idempotent) ==
  IF failure \in {"auth", "provider"} THEN "AuthError"
  ELSE IF R!Transient(failure, idempotent) THEN "TransientError"
  ELSE "ArrowbricksError"

\* from_status and from_reqwest
Source(failure) ==
  CASE failure = "provider" -> "provider"
    [] failure \in {"auth", "throttled", "server_error", "refused"} -> "status"
    [] OTHER -> "transport"

\* The request ends with an error; only queries are reported.
Fail(c, failure, idempotent, isQuery) ==
  /\ MoveTo(c, ErrorOf(failure, idempotent))
  /\ request' = [request EXCEPT ![c] =
       [(IF failure = "auth" THEN @ ELSE [FreshRequest EXCEPT !.attempt = request[c].attempt])
          EXCEPT !.from = Source(failure)]]
  /\ IF isQuery THEN Report(c) ELSE UNCHANGED <<eventLoop, sinkKnown>>

Send(c, token) == request' = [request EXCEPT ![c].stage = "sent", ![c].loop = NoLoop, ![c].token = token]

\* PyTokenProvider::get_token, or StaticToken's.  What a callable raises is an
\* error at once, and so is a coroutine for which there is no loop.
GetToken(c, isQuery) ==
  /\ AtStage(c, "token")
  /\ \/ /\ provider # "async"
        /\ Send(c, IF provider = "static" THEN 0 ELSE valid)
        /\ UNCHANGED <<phase, lastKnown, sinkKnown, eventLoop>>
     \/ /\ provider = "sync"
        /\ Fail(c, "provider", FALSE, isQuery)
        /\ UNCHANGED lastKnown
     \/ /\ provider = "async"
        /\ lastKnown' = Learnt(c, lastKnown)
        /\ IF Resolved(c, lastKnown) = NoLoop
           THEN Fail(c, "provider", FALSE, isQuery)
           ELSE /\ request' = [request EXCEPT ![c].stage = "awaiting", ![c].loop = Resolved(c, lastKnown)]
                /\ UNCHANGED <<phase, sinkKnown, eventLoop>>
  /\ UNCHANGED <<worldVars, open>>

\* The coroutine ends; on a loop that has been closed it never runs or fails.
CoroutineEnds(c, isQuery) ==
  /\ AtStage(c, "awaiting")
  /\ \/ /\ request[c].loop \in open
        /\ Send(c, valid)
        /\ UNCHANGED <<phase, sinkKnown, eventLoop>>
     \/ Fail(c, "provider", FALSE, isQuery)
  /\ UNCHANGED <<worldVars, open, lastKnown>>

\* Mutant: the token is asked for once, before the first attempt.
KeepToken(c) == request' = [request EXCEPT ![c].attempt = @ + 1, ![c].asked = valid]

NextAttempt(c) ==
  request' = [request EXCEPT ![c] = [FreshRequest EXCEPT !.attempt = request[c].attempt + 1, !.asked = valid]]

\* What the server may do with the request that is sent.
Accepted(c) == request[c].token = valid
MayFail(c) == IF Accepted(c) THEN R!Failures \ {"auth"} ELSE R!Failures \ R!Ambiguous

\* retry_call_tracked: an attempt fails.
AttemptFails(c, failure, idempotent, isQuery) ==
  IF R!Retries(failure, idempotent, request[c].attempt)
  THEN NextAttempt(c) /\ UNCHANGED <<phase, sinkKnown, eventLoop>>
  ELSE Fail(c, failure, idempotent, isQuery)

-----------------------------------------------------------------------------
(* Around the client                                                        *)

Trouble ==
  /\ troubles < MaxTroubles
  /\ troubles' = troubles + 1

CloseLoop(l) ==
  /\ Trouble
  /\ l \in open
  /\ open' = open \ {l}
  /\ UNCHANGED <<provider, valid, lastKnown, sinkKnown, phase, request, eventLoop>>

Rotate ==
  /\ Trouble
  /\ valid' = valid + 1
  /\ UNCHANGED <<provider, loopVars, phase, request>>

-----------------------------------------------------------------------------
(* Properties                                                               *)

RequestStates ==
  [stage : {"token", "awaiting", "sent"}, loop : Loops \cup {NoLoop}, token : 0..MaxTroubles,
   attempt : 1..RetryAttempts, asked : 0..MaxTroubles,
   from : {"none", "provider", "status", "transport"}]

RequestsTypeOK ==
  /\ provider \in {"static", "sync", "async"}
  /\ troubles \in 0..MaxTroubles /\ valid \in 0..troubles
  /\ open \subseteq Loops
  /\ {lastKnown, sinkKnown} \subseteq Loops \cup {NoLoop}
  /\ eventLoop \in [Calls -> Loops \cup {NoLoop, NotDue}]
  /\ request \in [Calls -> RequestStates]

\* "one loop per thread at the same time" (docs/usage.md, Auth): what runs for
\* a call in Python, its token provider and its on_event, runs on the loop of
\* its caller, from a spawned task too, unless that loop is closed.
CallersLoop ==
  /\ RequestsTypeOK
  /\ \A c \in Calls :
       LoopOf[c] \in open =>
         /\ request[c].loop \in {NoLoop, LoopOf[c]}
         /\ eventLoop[c] \in {NotDue, LoopOf[c]}

\* What an exception says of the retries (lib.rs, the error taxonomy): a
\* TransientError has survived all of them, and so has an AuthError that is not
\* the provider's own unless the token is static: what was refused at last is a
\* token that was asked for after the attempt before had failed.
ErrorsAreEarned ==
  \A c \in Calls :
    /\ phase[c] = "TransientError" => request[c].attempt = RetryAttempts
    /\ phase[c] = "AuthError" /\ request[c].from = "status" =>
         \/ provider = "static"
         \/ request[c].attempt = RetryAttempts /\ request[c].token >= request[c].asked
=============================================================================
