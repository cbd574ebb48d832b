------------------------------ MODULE SeaStatement ------------------------------
(***************************************************************************)
(* A SEA statement from execute() to its result: submit_and_poll of         *)
(* client/sea.rs with its pooled session, the retries of the submission,    *)
(* prefer_inline with its fallback, the guards that cancel and close what a *)
(* dropped future leaves behind, and what execute_lazy of pipeline/sea.rs   *)
(* and its prefer_inline variant give to the caller and to the event sink.  *)
(* What ensure_warehouse_running does before is in Warehouse: here a query  *)
(* gets past it or not.                                                     *)
(*                                                                         *)
(* The server is modelled from how the code speaks of it: a submission that *)
(* was rejected (401, 403, 408, 429) has run nothing, a statement that      *)
(* FAILED has committed nothing.                                            *)
(***************************************************************************)
EXTENDS SessionPool

CONSTANTS
  Queries,
  KeyOf,           \* the (catalog, schema) of each query
  PreferInline,    \* the queries executed with prefer_inline=True
  Warm,            \* the idle sessions earlier queries have left
  MaxSessions,     \* bound: sessions the server ever creates
  MaxStatements,   \* bound: statements the server ever accepts
  RetryAttempts, CanRefresh

ASSUME StatementAssumption ==
  /\ IsFiniteSet(Queries)
  /\ KeyOf \in [Queries -> Keys]
  /\ PreferInline \subseteq Queries
  /\ MaxSessions \in Nat /\ MaxStatements \in Nat
  /\ RetryAttempts \in Nat \ {0} /\ CanRefresh \in BOOLEAN

R == INSTANCE Retry

Sessions == 1..MaxSessions
None == 0

ASSUME WarmAssumption ==
  /\ Warm \in [Keys -> Seq(Sessions)]
  /\ \A k \in Keys : IsInjective(Warm[k]) /\ Len(Warm[k]) <= MaxSessionsPerKey
  /\ \A k, l \in Keys : k # l => Range(Warm[k]) \cap Range(Warm[l]) = {}
  /\ SessionsIn(Warm) = 1..Cardinality(SessionsIn(Warm))

VARIABLES
  phase,       \* where each query stands
  inline,      \* whether the submission asks for disposition INLINE
  attempt,     \* of retry_call for the POST
  session,     \* SessionCheckin.session_id
  inFlight,    \* QueryStatsAccumulator.in_flight, as a position in statements
  stream,      \* ResultStream.statement_id of what execute() returned
  reports,     \* the errors on_event has heard of each query: the id they name
  statements,  \* server: what it has accepted, in that order
  sessions,    \* server: how many sessions it has created
  cancels,     \* statements with a cancel request on its way
  deleted,     \* sessions whose deletion has been requested
  closer,      \* close_all_sessions: idle, drained, deleting or cancelled
  closeList,   \* what it has drained and not yet discounted
  toDelete,    \* what it has discounted and not yet deleted
  strays       \* history: sessions and statements nobody was told of, and
               \* what is left to the server's own cleanup

toldVars   == <<stream, reports>>
queryVars  == <<inline, attempt, session, inFlight>>
serverVars == <<statements, sessions>>
closeVars  == <<closer, closeList, toDelete>>
cleanVars  == <<cancels, deleted, closeVars, strays>>
vars == <<phase, toldVars, poolVars, queryVars, serverVars, cleanVars>>

\* SUCCEEDED and CLOSED are one state to the code, FAILED and CANCELED another;
\* over_limit is FAILED with "Inline byte limit exceeded".
Terminal == {"succeeded", "failed", "over_limit"}
Ended     == {"answered", "failed", "cancelled"}

Statement == [query : Queries, session : Sessions \cup {None}, inline : BOOLEAN,
              state : {"running"} \cup Terminal]

TypeOK ==
  /\ phase \in [Queries -> {"new", "checkout", "creating", "submitting", "polling"} \cup Ended]
  /\ idle \in [Keys -> Seq(Sessions)]
  /\ total \in [Keys -> 0..MaxSessionsPerKey]
  /\ inline \in [Queries -> BOOLEAN]
  /\ attempt \in [Queries -> 1..RetryAttempts]
  /\ session \in [Queries -> Sessions \cup {None}]
  /\ statements \in Seq(Statement)
  /\ inFlight \in [Queries -> {None} \cup DOMAIN statements]
  /\ stream \in [Queries -> {None} \cup DOMAIN statements]
  /\ reports \in [Queries -> Seq({None} \cup DOMAIN statements)]
  /\ sessions \in 0..MaxSessions
  /\ cancels \subseteq DOMAIN statements
  /\ deleted \subseteq Sessions
  /\ closer \in {"idle", "drained", "deleting", "cancelled"}
  /\ closeList \in [Keys -> Seq(Sessions)]
  /\ toDelete \subseteq Sessions
  /\ strays \subseteq [kind : {"session", "undeleted"}, of : Sessions]
                     \cup [kind : {"statement"}, of : DOMAIN statements]

Init ==
  /\ phase = [q \in Queries |-> "new"]
  /\ idle = Warm
  /\ total = [k \in Keys |-> Len(Warm[k])]
  /\ inline = [q \in Queries |-> q \in PreferInline]
  /\ attempt = [q \in Queries |-> 1]
  /\ session = [q \in Queries |-> None]
  /\ inFlight = [q \in Queries |-> None]
  /\ stream = [q \in Queries |-> None]
  /\ reports = [q \in Queries |-> <<>>]
  /\ statements = <<>>
  /\ sessions = Cardinality(SessionsIn(Warm))
  /\ cancels = {} /\ deleted = {}
  /\ closer = "idle" /\ closeList = NothingDrained /\ toDelete = {}
  /\ strays = {}

MoveTo(q, p) == phase' = [phase EXCEPT ![q] = p]

Stray(kind, of) == strays' = strays \cup {[kind |-> kind, of |-> of]}

\* on_event hears "error", with the id of statement i or an empty one.
Report(q, i) == reports' = [reports EXCEPT ![q] = Append(@, i)]

\* report_submit_error: an error of the submission, and not its abandonment.
ReportSubmitError(q, how) ==
  IF how = "failed" THEN Report(q, None) ELSE UNCHANGED reports

-----------------------------------------------------------------------------
(* ensure_warehouse_running and checkout_session                            *)

Ensure(q) ==
  /\ phase[q] = "new"
  /\ \E next \in {"checkout", "failed", "cancelled"} :
       MoveTo(q, next) /\ ReportSubmitError(q, next)
  /\ UNCHANGED <<stream, poolVars, queryVars, serverVars, cleanVars>>

Hold(q, s) == session' = [session EXCEPT ![q] = s]

TakeIdle(q) ==
  /\ phase[q] = "checkout"
  /\ HasIdle(KeyOf[q])
  /\ Take(KeyOf[q])
  /\ Hold(q, TopIdle(KeyOf[q]))
  /\ MoveTo(q, "submitting")
  /\ UNCHANGED <<toldVars, total, inline, attempt, inFlight, serverVars, cleanVars>>

\* A full pool never blocks: the statement names its catalog and schema itself.
ReserveSlot(q) ==
  /\ phase[q] = "checkout"
  /\ ~HasIdle(KeyOf[q])
  /\ IF HasRoom(KeyOf[q])
     THEN Reserve(KeyOf[q]) /\ MoveTo(q, "creating")
     ELSE MoveTo(q, "submitting") /\ UNCHANGED total
  /\ UNCHANGED <<toldVars, idle, queryVars, serverVars, cleanVars>>

CreateSession(q) ==
  /\ phase[q] = "creating"
  /\ sessions < MaxSessions
  /\ sessions' = sessions + 1
  /\ Hold(q, sessions')
  /\ MoveTo(q, "submitting")
  /\ UNCHANGED <<toldVars, poolVars, inline, attempt, inFlight, statements, cleanVars>>

\* The server may have created a session whose id never arrives.
MayStraySession ==
  \/ UNCHANGED <<sessions, strays>>
  \/ /\ sessions < MaxSessions
     /\ sessions' = sessions + 1
     /\ Stray("session", sessions')

\* Mutant: the reservation is defused before the session exists.
DropReservationDefused(q) == UNCHANGED total

\* Reservation::drop
DropReservation(q) == Release(KeyOf[q])

\* create_session(..).await.ok()?, or the future is dropped in it.
CreateFails(q) ==
  /\ phase[q] = "creating"
  /\ MayStraySession
  /\ DropReservation(q)
  /\ \E next \in {"submitting", "cancelled"} : MoveTo(q, next)
  /\ UNCHANGED <<toldVars, idle, queryVars, statements, cancels, deleted, closeVars>>

-----------------------------------------------------------------------------
(* Mutants                                                                  *)

\* A session that came back with an error is still good.
GivesBackAlways(q, ok) ==
  /\ session' = [session EXCEPT ![q] = None]
  /\ UNCHANGED deleted
  /\ IF session[q] = None THEN UNCHANGED poolVars ELSE Checkin(KeyOf[q], session[q], TRUE)

\* A dropped future cancels nothing on the server.
CancelNothing(q) == UNCHANGED cancels

\* An INLINE result that cannot be converted is fetched by running the
\* statement again.
FallsBackOnConversion(q, s) == inline[q] /\ s.state \in {"over_limit", "succeeded"}

\* The conversion fails like any other step: the caller is told, on_event not.
ReportUnusableNot(q) == UNCHANGED reports

-----------------------------------------------------------------------------
(* submit_and_poll                                                          *)

\* SessionCheckin::finish
GiveBack(q, ok) ==
  /\ session' = [session EXCEPT ![q] = None]
  /\ IF session[q] = None
     THEN UNCHANGED <<poolVars, deleted>>
     ELSE /\ Checkin(KeyOf[q], session[q], ok)
          /\ deleted' = IF ok THEN deleted ELSE deleted \cup {session[q]}

\* CancelInFlightOnDrop
CancelInFlight(q) == cancels' = cancels \cup ({inFlight[q]} \ {None})

\* submit_and_poll returns an error or is dropped, and execute() with it.
Leave(q, how) ==
  /\ GiveBack(q, FALSE)
  /\ CancelInFlight(q)
  /\ inFlight' = [inFlight EXCEPT ![q] = None]
  /\ MoveTo(q, how)
  /\ ReportSubmitError(q, how)
  /\ UNCHANGED stream

Accept(q) ==
  /\ Len(statements) < MaxStatements
  /\ statements' = Append(statements,
       [query |-> q, session |-> session[q], inline |-> inline[q], state |-> "running"])

Submit(q) ==
  /\ phase[q] = "submitting"
  /\ Accept(q)
  /\ inFlight' = [inFlight EXCEPT ![q] = Len(statements')]
  /\ MoveTo(q, "polling")
  /\ UNCHANGED <<toldVars, poolVars, inline, attempt, session, sessions, cleanVars>>

\* A statement accepted without its id coming back.
Unheard(q) == Accept(q) /\ Stray("statement", Len(statements'))

\* The POST is never repeated when it may have run: idempotent is false.
SubmitFails(q) ==
  /\ phase[q] = "submitting"
  /\ \E failure \in R!Failures :
       /\ \/ failure \in R!Ambiguous /\ Unheard(q)
          \/ UNCHANGED <<statements, strays>>
       /\ IF R!Retries(failure, FALSE, attempt[q])
          THEN /\ attempt' = [attempt EXCEPT ![q] = @ + 1]
               /\ UNCHANGED <<phase, toldVars, poolVars, session, inFlight, cancels, deleted>>
          ELSE Leave(q, "failed") /\ UNCHANGED attempt
  /\ UNCHANGED <<inline, sessions, closeVars>>

Polled(q) == statements[inFlight[q]]

\* on_event hears of the conversion error, with the id of the statement.
ReportUnusable(q) == Report(q, inFlight[q])

\* "Inline byte limit exceeded"
FallsBack(q, s) == inline[q] /\ s.state = "over_limit"

\* A terminal state arrives: submit_and_poll ends.
Terminates(q) ==
  /\ phase[q] = "polling"
  /\ Polled(q).state \in Terminal
  /\ GiveBack(q, Polled(q).state = "succeeded")
  /\ inFlight' = [inFlight EXCEPT ![q] = None]
  /\ UNCHANGED <<serverVars, cancels, closeVars, strays>>

\* A fresh EXTERNAL_LINKS submission in the same execute(), of which nobody hears.
FallBack(q) ==
  /\ Terminates(q)
  /\ FallsBack(q, Polled(q))
  /\ MoveTo(q, "new")
  /\ inline' = [inline EXCEPT ![q] = FALSE]
  /\ attempt' = [attempt EXCEPT ![q] = 1]
  /\ UNCHANGED toldVars

StatementFailed(q) ==
  /\ Terminates(q)
  /\ Polled(q).state # "succeeded" /\ ~FallsBack(q, Polled(q))
  /\ MoveTo(q, "failed")
  /\ Report(q, None)
  /\ UNCHANGED <<stream, inline, attempt>>

\* The caller holds the statement's result; the stream reports from now on.
HandOver(q) ==
  /\ Polled(q).state = "succeeded" /\ ~FallsBack(q, Polled(q))
  /\ MoveTo(q, "answered")
  /\ stream' = [stream EXCEPT ![q] = inFlight[q]]
  /\ UNCHANGED <<reports, inline, attempt>>

\* result_stream_from_submitted: the chunks are fetched from here on.
AnswerExternal(q) == Terminates(q) /\ ~inline[q] /\ HandOver(q)

\* The rows of an INLINE answer are converted, and the stream is exhausted.
AnswerInline(q) == Terminates(q) /\ inline[q] /\ HandOver(q)

\* The INLINE answer has no data_array, or it cannot be converted: "refusing to
\* automatically re-run the query".
InlineUnusable(q) ==
  /\ Terminates(q)
  /\ inline[q] /\ Polled(q).state = "succeeded" /\ ~FallsBack(q, Polled(q))
  /\ MoveTo(q, "failed")
  /\ ReportSubmitError(q, "failed") \/ ReportUnusable(q)
  /\ UNCHANGED <<stream, inline, attempt>>

PollFails(q) ==
  /\ phase[q] = "polling"
  /\ Leave(q, "failed")
  /\ UNCHANGED <<inline, attempt, serverVars, closeVars, strays>>

\* The future is dropped: total_timeout_s, task.cancel(), asyncio.wait_for.
Abandon(q) ==
  /\ phase[q] \in {"submitting", "polling"}
  /\ Leave(q, "cancelled")
  /\ \/ phase[q] = "submitting" /\ Unheard(q)
     \/ UNCHANGED <<statements, strays>>
  /\ UNCHANGED <<inline, attempt, sessions, closeVars>>

-----------------------------------------------------------------------------
(* close_all_sessions                                                       *)

CloseAll ==
  /\ closer = "idle"
  /\ closer' = "drained"
  /\ closeList' = Drained(Keys)
  /\ RemoveIdle(Keys)
  /\ UNCHANGED <<phase, toldVars, total, queryVars, serverVars, cancels, deleted, toDelete, strays>>

\* drain_idle returns.
DiscountAll ==
  /\ closer = "drained"
  /\ closer' = "deleting"
  /\ Discount(closeList)
  /\ toDelete' = SessionsIn(closeList)
  /\ closeList' = NothingDrained
  /\ UNCHANGED <<phase, toldVars, idle, queryVars, serverVars, cancels, deleted, strays>>

\* Mutant: the loop ends with its first deletion.
DeleteOnlyOne(s) ==
  /\ closer = "deleting"
  /\ s \in toDelete
  /\ toDelete' = {}
  /\ deleted' = deleted \cup {s}
  /\ UNCHANGED <<phase, toldVars, poolVars, queryVars, serverVars, cancels, closer, closeList, strays>>

\* One turn of the loop, in the order of the map's iterator: any.
DeleteDrained(s) ==
  /\ closer = "deleting"
  /\ s \in toDelete
  /\ toDelete' = toDelete \ {s}
  /\ deleted' = deleted \cup {s}
  /\ UNCHANGED <<phase, toldVars, poolVars, queryVars, serverVars, cancels, closer, closeList, strays>>

\* aclose() is cancelled between two deletions, or before one was sent: the pool
\* no longer knows of the rest, and nothing else deletes them.
CancelClose ==
  /\ closer = "deleting"
  /\ toDelete # {}
  /\ closer' = "cancelled"
  /\ strays' = strays \cup [kind : {"undeleted"}, of : toDelete]
  /\ toDelete' = {}
  /\ UNCHANGED <<phase, toldVars, poolVars, queryVars, serverVars, cancels, deleted, closeList>>

-----------------------------------------------------------------------------
(* The server                                                               *)

SetState(i, state) == statements' = [statements EXCEPT ![i].state = state]

ServerFinishes(i) ==
  /\ statements[i].state = "running"
  /\ \E state \in Terminal :
       /\ state = "over_limit" => statements[i].inline
       /\ SetState(i, state)
  /\ UNCHANGED <<phase, toldVars, poolVars, queryVars, sessions, cleanVars>>

\* The cancel request arrives, or fails for good.
CancelArrives(i) ==
  /\ i \in cancels
  /\ cancels' = cancels \ {i}
  /\ \/ /\ IF statements[i].state = "running" THEN SetState(i, "failed") ELSE UNCHANGED statements
        /\ UNCHANGED strays
     \/ Stray("statement", i) /\ UNCHANGED statements
  /\ UNCHANGED <<phase, toldVars, poolVars, queryVars, sessions, deleted, closeVars>>

-----------------------------------------------------------------------------
Step(q) ==
  \/ Ensure(q)
  \/ TakeIdle(q) \/ ReserveSlot(q) \/ CreateSession(q) \/ CreateFails(q)
  \/ Submit(q) \/ SubmitFails(q) \/ PollFails(q)
  \/ FallBack(q) \/ StatementFailed(q)
  \/ AnswerExternal(q) \/ AnswerInline(q) \/ InlineUnusable(q)

Closes ==
  \/ CloseAll
  \/ DiscountAll
  \/ \E s \in Sessions : DeleteDrained(s)
  \/ CancelClose

Next ==
  \/ \E q \in Queries : Step(q) \/ Abandon(q)
  \/ Closes
  \/ \E i \in DOMAIN statements : ServerFinishes(i) \/ CancelArrives(i)

Spec == Init /\ [][Next]_vars

-----------------------------------------------------------------------------
(* Properties                                                               *)

StatementsOf(q) == {i \in DOMAIN statements : statements[i].query = q}

\* execute() never runs the caller's SQL twice, however its requests fail and
\* whichever way prefer_inline falls back: at most one of its statements has
\* committed or may still do so, and an answer is the result of that one.  An
\* error is reported once, an answer or an abandonment not here, and a report
\* names no statement but one that has run.
CommitsOnce ==
  \A q \in Queries :
    LET mayCommit == {i \in StatementsOf(q) : statements[i].state \in {"running", "succeeded"}}
    IN  /\ Cardinality(mayCommit) <= 1
        /\ \/ phase[q] = "answered" /\ stream[q] \in mayCommit /\ statements[stream[q]].state = "succeeded"
           \/ phase[q] # "answered" /\ stream[q] = None
        /\ Len(reports[q]) = IF phase[q] = "failed" THEN 1 ELSE 0
        /\ \A i \in Range(reports[q]) \ {None} : i \in mayCommit /\ statements[i].state = "succeeded"

\* A statement that is still running when its query has ended has a cancel
\* request on its way (CancelInFlightOnDrop), unless the client never learned
\* its id or the request has failed.
NothingRunsForNobody ==
  \A i \in DOMAIN statements :
    statements[i].state = "running" /\ inFlight[statements[i].query] # i =>
      i \in cancels \/ [kind |-> "statement", of |-> i] \in strays

\* "safe for sequential reuse, not concurrent sharing": the server never runs
\* two statements on one session, and an idle session has none running.
OneStatementPerSession ==
  LET Busy(s) == {i \in DOMAIN statements : statements[i].session = s /\ statements[i].state = "running"}
  IN  /\ \A s \in Sessions : Cardinality(Busy(s)) <= 1
      /\ \A k \in Keys : \A s \in Range(idle[k]) : Busy(s) = {}

\* Every session created is idle, held by a query, in the hands of
\* close_all_sessions, or has been sent its deletion; only one whose id never
\* arrived, and what a cancelled aclose() had drained and not yet deleted, are
\* left to the server.  The pool counts exactly the idle, the held, what is
\* drained and not discounted, and the reservations (Reservation,
\* SessionCheckin).  None runs two statements.
SessionsAccounted ==
  /\ TypeOK
  /\ OneStatementPerSession
  /\ \A s \in 1..sessions :
       \/ s \in deleted \cup toDelete
       \/ [kind |-> "session", of |-> s] \in strays
       \/ closer = "cancelled" /\ [kind |-> "undeleted", of |-> s] \in strays
       \/ \E k \in Keys : s \in Range(idle[k]) \cup Range(closeList[k])
       \/ \E q \in Queries : session[q] = s
  /\ \A k \in Keys :
       total[k] =
         Len(idle[k]) + Len(closeList[k])
           + Cardinality({q \in Queries : KeyOf[q] = k /\ (phase[q] = "creating" \/ session[q] # None)})
=============================================================================
