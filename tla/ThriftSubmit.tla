----------------------------- MODULE ThriftSubmit -----------------------------
(***************************************************************************)
(* A Thrift statement and its session, from checkout to the cleanup behind  *)
(* the fetch loop: submit_thrift_with_concurrency, its guards and           *)
(* drive_thrift_fetch_loop of pipeline/thrift_exec.rs, over the session     *)
(* pool of the client, with close_all_thrift_sessions beside them.          *)
(*                                                                         *)
(* The server is modelled from how the code speaks of it: a closed session  *)
(* takes the operations opened under it along, and a statement submitted on *)
(* a session the server no longer knows is rejected before it runs.         *)
(***************************************************************************)
EXTENDS SessionPool

CONSTANTS
  Queries,
  KeyOf,           \* the (catalog, schema) of each query
  Warm,            \* the idle sessions earlier queries have left
  MaxSessions,     \* bound: sessions the server ever creates
  MaxRestarts,     \* bound: warehouse restarts
  Closable         \* whether DatabricksClient.aclose() may be called

ASSUME QueriesAssumption ==
  /\ IsFiniteSet(Queries)
  /\ KeyOf \in [Queries -> Keys]
  /\ MaxSessions \in Nat /\ MaxRestarts \in Nat /\ Closable \in BOOLEAN

Sessions == 1..MaxSessions
NoSession == 0

ASSUME WarmAssumption ==
  /\ Warm \in [Keys -> Seq(Sessions)]
  /\ \A k \in Keys : IsInjective(Warm[k]) /\ Len(Warm[k]) <= MaxSessionsPerKey
  /\ \A k, l \in Keys : k # l => Range(Warm[k]) \cap Range(Warm[l]) = {}
  /\ SessionsIn(Warm) = 1..Cardinality(SessionsIn(Warm))

VARIABLES
  phase,      \* where the task of a query stands
  session,    \* the session it holds, or ran its statement on
  fromPool,   \* whether that session is the pool's
  reused,     \* whether it was idle before
  retried,
  answer,     \* what submit_and_await_thrift_statement returned
  drained,    \* what thrift_discard_idle_sessions has taken off the pool
  closer,     \* close_all_thrift_sessions: idle, drained or done
  closeList,  \* what it has drained
  closing,    \* sessions with a CloseSession request on its way
  opened,     \* server: the sessions created so far
  live,       \* server: the sessions it knows
  operation,  \* server: the operation of each query
  executed,   \* server: how often the statement of a query was run
  restarts,   \* history: warehouse restarts so far
  strays      \* history: sessions left to the server's idle timeout

queryVars  == <<phase, session, fromPool, reused, retried, answer, drained>>
closeVars  == <<closer, closeList, closing>>
serverVars == <<opened, live, operation, executed, restarts, strays>>
vars == <<poolVars, queryVars, closeVars, serverVars>>

Submitting == {"submitting", "polling"}
Fetching   == {"fetching", "closing_operation", "closing_session"}
Ended      == {"done", "failed", "cancelled"}
Phases ==
  {"checkout", "reserving", "opening", "opening_own", "settling", "closing_own", "stale",
   "draining"} \cup Submitting \cup Fetching \cup Ended

TypeOK ==
  /\ idle \in [Keys -> Seq(Sessions)]
  /\ total \in [Keys -> 0..MaxSessionsPerKey]
  /\ phase \in [Queries -> Phases]
  /\ session \in [Queries -> Sessions \cup {NoSession}]
  /\ fromPool \in [Queries -> BOOLEAN]
  /\ reused \in [Queries -> BOOLEAN]
  /\ retried \in [Queries -> BOOLEAN]
  /\ answer \in [Queries -> {"none", "ok", "error", "stale"}]
  /\ drained \in [Queries -> [Keys -> Seq(Sessions)]]
  /\ closer \in {"idle", "drained", "done"}
  /\ closeList \in [Keys -> Seq(Sessions)]
  /\ closing \subseteq Sessions
  /\ opened \in 0..MaxSessions
  /\ live \subseteq Sessions
  /\ operation \in [Queries -> {"none", "open", "closed", "lost"}]
  /\ executed \in [Queries -> Nat]
  /\ restarts \in 0..MaxRestarts
  /\ strays \subseteq Sessions

Init ==
  /\ idle = Warm
  /\ total = [k \in Keys |-> Len(Warm[k])]
  /\ phase = [q \in Queries |-> "checkout"]
  /\ session = [q \in Queries |-> NoSession]
  /\ fromPool = [q \in Queries |-> FALSE]
  /\ reused = [q \in Queries |-> FALSE]
  /\ retried = [q \in Queries |-> FALSE]
  /\ answer = [q \in Queries |-> "none"]
  /\ drained = [q \in Queries |-> NothingDrained]
  /\ closer = "idle" /\ closeList = NothingDrained /\ closing = {}
  /\ live = SessionsIn(Warm)
  /\ opened = Cardinality(live)
  /\ restarts = 0
  /\ strays = {}
  /\ operation = [q \in Queries |-> "none"]
  /\ executed = [q \in Queries |-> 0]

MoveTo(q, p) == phase' = [phase EXCEPT ![q] = p]

Hold(q, s, pooled, old) ==
  /\ session' = [session EXCEPT ![q] = s]
  /\ fromPool' = [fromPool EXCEPT ![q] = pooled]
  /\ reused' = [reused EXCEPT ![q] = old]

-----------------------------------------------------------------------------
(* Mutants                                                                  *)

\* Any failure on a reused session is retried.
MayRetryAlways(q) == reused[q] /\ ~retried[q]

\* A statement that ran is not in the way of a throwaway session's close.
OwnCloseAfterSubmit(q) ==
  IF fromPool[q] THEN UNCHANGED closing ELSE closing' = closing \cup {session[q]}

\* A full pool makes the query wait for a slot.
MissWaiting(q) == UNCHANGED phase

\* The dropped guard forgets the session it held.
DropGuardSilently(q) ==
  /\ IF fromPool[q] THEN Release(KeyOf[q]) ELSE UNCHANGED total
  /\ UNCHANGED closing

-----------------------------------------------------------------------------
(* thrift_checkout_session                                                  *)

TakeIdle(q) ==
  /\ phase[q] = "checkout"
  /\ HasIdle(KeyOf[q])
  /\ Take(KeyOf[q])
  /\ Hold(q, TopIdle(KeyOf[q]), TRUE, TRUE)
  /\ MoveTo(q, "submitting")
  /\ UNCHANGED <<total, retried, answer, drained, closeVars, serverVars>>

TakeNothing(q) ==
  /\ phase[q] = "checkout"
  /\ ~HasIdle(KeyOf[q])
  /\ MoveTo(q, "reserving")
  /\ UNCHANGED <<poolVars, session, fromPool, reused, retried, answer, drained, closeVars, serverVars>>

\* A full pool never blocks: the query opens a session of its own.
PoolFull(q) == MoveTo(q, "opening_own")

ReserveSlot(q) ==
  /\ phase[q] = "reserving"
  /\ IF HasRoom(KeyOf[q])
     THEN Reserve(KeyOf[q]) /\ MoveTo(q, "opening")
     ELSE PoolFull(q) /\ UNCHANGED total
  /\ UNCHANGED <<idle, session, fromPool, reused, retried, answer, drained, closeVars, serverVars>>

Opening == {"opening", "opening_own"}

OpenSession(q) ==
  /\ phase[q] \in Opening
  /\ opened < MaxSessions
  /\ opened' = opened + 1
  /\ live' = live \cup {opened'}
  /\ Hold(q, opened', phase[q] = "opening", FALSE)
  /\ MoveTo(q, "submitting")
  /\ UNCHANGED <<poolVars, retried, answer, drained, closeVars, operation, executed, restarts, strays>>

\* The server may have created a session whose handle never arrives.
MayStray ==
  \/ UNCHANGED serverVars
  \/ /\ opened < MaxSessions
     /\ opened' = opened + 1
     /\ live' = live \cup {opened'}
     /\ strays' = strays \cup {opened'}
     /\ UNCHANGED <<operation, executed, restarts>>

\* The Reservation is dropped armed, then a session outside the pool is tried.
OpenSessionFails(q) ==
  /\ phase[q] \in Opening
  /\ MayStray
  /\ IF phase[q] = "opening"
     THEN Release(KeyOf[q]) /\ MoveTo(q, "opening_own")
     ELSE MoveTo(q, "failed") /\ UNCHANGED total
  /\ UNCHANGED <<idle, session, fromPool, reused, retried, answer, drained, closeVars>>

-----------------------------------------------------------------------------
(* submit_and_await_thrift_statement                                        *)

AnswerIs(q, a) ==
  /\ answer' = [answer EXCEPT ![q] = a]
  /\ MoveTo(q, "settling")

SubmitKeeps == UNCHANGED <<poolVars, session, fromPool, reused, retried, drained, closeVars, opened, live, restarts, strays>>

RunStatement(q) == executed' = [executed EXCEPT ![q] = @ + 1]

StatementAccepted(q) ==
  /\ phase[q] = "submitting"
  /\ session[q] \in live
  /\ RunStatement(q)
  /\ operation' = [operation EXCEPT ![q] = "open"]
  /\ MoveTo(q, "polling")
  /\ SubmitKeeps
  /\ UNCHANGED answer

\* "Invalid SessionHandle"
StatementRejected(q) ==
  /\ phase[q] = "submitting"
  /\ session[q] \notin live
  /\ AnswerIs(q, "stale")
  /\ SubmitKeeps
  /\ UNCHANGED <<operation, executed>>

\* Bad SQL, or a request lost on its way there or back.
SubmitFails(q) ==
  /\ phase[q] = "submitting"
  /\ AnswerIs(q, "error")
  /\ \/ session[q] \in live /\ RunStatement(q)
     \/ UNCHANGED executed
  /\ SubmitKeeps
  /\ UNCHANGED operation

StatementFinished(q) ==
  /\ phase[q] = "polling"
  /\ operation[q] = "open"
  /\ AnswerIs(q, "ok")
  /\ SubmitKeeps
  /\ UNCHANGED <<operation, executed>>

\* FAILED on the server, a poll that fails, an operation the server lost.
StatementFails(q) ==
  /\ phase[q] = "polling"
  /\ AnswerIs(q, "error")
  /\ SubmitKeeps
  /\ UNCHANGED <<operation, executed>>

-----------------------------------------------------------------------------
(* What submit_thrift_with_concurrency does with the session afterwards      *)

\* A throwaway session is left to drive_thrift_fetch_loop.
CloseAfterSubmit(q) == UNCHANGED closing

Ready(q) ==
  /\ phase[q] = "settling"
  /\ answer[q] = "ok"
  /\ IF fromPool[q] THEN Checkin(KeyOf[q], session[q], TRUE) ELSE UNCHANGED poolVars
  /\ CloseAfterSubmit(q)
  /\ MoveTo(q, "fetching")
  /\ UNCHANGED <<session, fromPool, reused, retried, answer, drained, closer, closeList, serverVars>>

MayRetry(q) == reused[q] /\ ~retried[q] /\ answer[q] = "stale"

\* A pooled session is discarded and its close spawned; a throwaway session is
\* closed before the error is returned.
NotReady(q) ==
  /\ phase[q] = "settling"
  /\ answer[q] # "ok"
  /\ IF fromPool[q]
     THEN /\ Checkin(KeyOf[q], session[q], FALSE)
          /\ closing' = closing \cup {session[q]}
          /\ MoveTo(q, IF MayRetry(q) THEN "stale" ELSE "failed")
     ELSE /\ UNCHANGED <<poolVars, closing>>
          /\ MoveTo(q, "closing_own")
  /\ UNCHANGED <<session, fromPool, reused, retried, answer, drained, closer, closeList, serverVars>>

\* thrift_discard_idle_sessions, then once more round the loop.
DrainSiblings(q) ==
  /\ phase[q] = "stale"
  /\ drained' = [drained EXCEPT ![q] = Drained({KeyOf[q]})]
  /\ RemoveIdle({KeyOf[q]})
  /\ MoveTo(q, "draining")
  /\ UNCHANGED <<total, session, fromPool, reused, retried, answer, closeVars, serverVars>>

DiscountSiblings(q) ==
  /\ phase[q] = "draining"
  /\ Discount(drained[q])
  /\ closing' = closing \cup SessionsIn(drained[q])
  /\ drained' = [drained EXCEPT ![q] = NothingDrained]
  /\ retried' = [retried EXCEPT ![q] = TRUE]
  /\ MoveTo(q, "checkout")
  /\ UNCHANGED <<idle, session, fromPool, reused, answer, closer, closeList, serverVars>>

-----------------------------------------------------------------------------
(* CloseSession, wherever it is sent from, and drive_thrift_fetch_loop       *)

\* The server forgets the sessions and the operations still open under them.
EndSessions(ss) ==
  /\ live' = live \ ss
  /\ operation' = [q \in Queries |->
       IF operation[q] = "open" /\ session[q] \in ss THEN "lost" ELSE operation[q]]

CloseSession(s) ==
  /\ s \in closing
  /\ closing' = closing \ {s}
  /\ EndSessions({s})
  /\ UNCHANGED <<poolVars, queryVars, closer, closeList, opened, executed, restarts, strays>>

CloseOwn(q) ==
  /\ phase[q] \in {"closing_own", "closing_session"}
  /\ EndSessions({session[q]})
  /\ MoveTo(q, IF phase[q] = "closing_own" THEN "failed" ELSE "done")
  /\ UNCHANGED <<poolVars, session, fromPool, reused, retried, answer, drained, closeVars, opened, executed, restarts, strays>>

\* run_thrift_fetch_loop returns: drained, failed, or its reader is gone.
FetchLoopEnds(q) ==
  /\ phase[q] = "fetching"
  /\ MoveTo(q, "closing_operation")
  /\ UNCHANGED <<poolVars, session, fromPool, reused, retried, answer, drained, closeVars, serverVars>>

CloseOperation(q) ==
  /\ phase[q] = "closing_operation"
  /\ operation' = [operation EXCEPT ![q] = IF @ = "open" THEN "closed" ELSE @]
  /\ MoveTo(q, IF fromPool[q] THEN "done" ELSE "closing_session")
  /\ UNCHANGED <<poolVars, session, fromPool, reused, retried, answer, drained, closeVars, opened, live, executed, restarts, strays>>

-----------------------------------------------------------------------------
(* Cancellation: the future of the query is dropped at an await              *)

\* ThriftSessionOnDrop
DropGuard(q) ==
  /\ IF fromPool[q] THEN Release(KeyOf[q]) ELSE UNCHANGED total
  /\ closing' = closing \cup {session[q]}

CancelOpening(q) ==
  /\ phase[q] \in Opening
  /\ IF phase[q] = "opening" THEN Release(KeyOf[q]) ELSE UNCHANGED total
  /\ MayStray
  /\ MoveTo(q, "cancelled")
  /\ UNCHANGED <<idle, session, fromPool, reused, retried, answer, drained, closeVars>>

\* The statement may still be accepted: AbandonedSubmitCancel and
\* CancelInFlightOnDrop then cancel its operation.
CancelSubmitting(q) ==
  /\ phase[q] \in Submitting
  /\ DropGuard(q)
  /\ \/ phase[q] = "submitting" /\ session[q] \in live /\ RunStatement(q)
     \/ UNCHANGED executed
  /\ operation' = [operation EXCEPT ![q] = IF @ = "open" THEN "closed" ELSE @]
  /\ MoveTo(q, "cancelled")
  /\ UNCHANGED <<idle, session, fromPool, reused, retried, answer, drained, closer, closeList, opened, live, restarts, strays>>

\* The awaited CloseSession is dropped with the future.
CancelClosing(q) ==
  /\ phase[q] = "closing_own"
  /\ strays' = strays \cup {session[q]}
  /\ MoveTo(q, "cancelled")
  /\ UNCHANGED <<poolVars, session, fromPool, reused, retried, answer, drained, closeVars, opened, live, operation, executed, restarts>>

-----------------------------------------------------------------------------
(* close_all_thrift_sessions, and the warehouse                              *)

CloseAll ==
  /\ Closable
  /\ closer = "idle"
  /\ closer' = "drained"
  /\ closeList' = Drained(Keys)
  /\ RemoveIdle(Keys)
  /\ UNCHANGED <<total, queryVars, closing, serverVars>>

\* The closes are awaited one by one: if aclose() is cancelled on the way, the
\* rest are never sent.
DiscountAll ==
  /\ closer = "drained"
  /\ closer' = "done"
  /\ Discount(closeList)
  /\ \E unsent \in SUBSET SessionsIn(closeList) :
       /\ closing' = closing \cup (SessionsIn(closeList) \ unsent)
       /\ strays' = strays \cup unsent
  /\ closeList' = NothingDrained
  /\ UNCHANGED <<idle, queryVars, opened, live, operation, executed, restarts>>

\* The warehouse stops and starts again: no session survives.
Restart ==
  /\ restarts < MaxRestarts
  /\ restarts' = restarts + 1
  /\ EndSessions(live)
  /\ UNCHANGED <<poolVars, queryVars, closeVars, opened, executed, strays>>

-----------------------------------------------------------------------------
Step(q) ==
  \/ TakeIdle(q) \/ TakeNothing(q) \/ ReserveSlot(q)
  \/ OpenSession(q) \/ OpenSessionFails(q)
  \/ StatementAccepted(q) \/ StatementRejected(q) \/ SubmitFails(q)
  \/ StatementFinished(q) \/ StatementFails(q)
  \/ Ready(q) \/ NotReady(q) \/ DrainSiblings(q) \/ DiscountSiblings(q)
  \/ CloseOwn(q) \/ FetchLoopEnds(q) \/ CloseOperation(q)

Cancel(q) == CancelOpening(q) \/ CancelSubmitting(q) \/ CancelClosing(q)

Next ==
  \/ \E q \in Queries : Step(q) \/ Cancel(q)
  \/ \E s \in Sessions : CloseSession(s)
  \/ CloseAll
  \/ DiscountAll
  \/ Restart

Spec == Init /\ [][Next]_vars

\* Every request ends (retry_attempts, http_timeout), every task is polled.
FairSpec == Spec /\ \A q \in Queries : WF_vars(Step(q))

-----------------------------------------------------------------------------
(* Properties                                                               *)

HoldsSlot(q) ==
  \/ phase[q] = "opening"
  \/ phase[q] \in Submitting \cup {"settling"} /\ fromPool[q]

Drainers == {q \in Queries : phase[q] = "draining"}

\* The count of each key is exactly its idle sessions, its sessions and
\* reservations in the hands of queries, and what a drain has removed but not
\* yet discounted: no cancellation, failure or drain leaks a slot or frees one
\* twice, so the pool neither shrinks for good nor grows past its cap.
SlotsAddUp ==
  /\ TypeOK
  /\ \A k \in Keys :
       total[k] =
         Len(idle[k])
           + Cardinality({q \in Queries : HoldsSlot(q) /\ KeyOf[q] = k})
           + Cardinality(UNION {Range(drained[q][k]) : q \in Drainers})
           + Len(closeList[k])

Holding(q) == phase[q] \in Submitting \cup {"settling", "closing_own"}

\* "a session is safe for sequential reuse, not concurrent sharing": two
\* queries never submit on the same session, and none that is being submitted
\* on or has been sent a close is idle.
NeverShared ==
  /\ \A q \in Queries : Holding(q) =>
       /\ \A k \in Keys : session[q] \notin Range(idle[k])
       /\ \A r \in Queries \ {q} : Holding(r) => session[r] # session[q]
  /\ \A k \in Keys : IsInjective(idle[k]) /\ Range(idle[k]) \cap closing = {}

\* The pool counts what there is and lends each session to one query at a time.
PoolIsExact == SlotsAddUp /\ NeverShared

\* The retry after a stale session never runs a statement a second time.
RunsAtMostOnce == \A q \in Queries : executed[q] <= 1

\* A session the server knows is idle, in use, on its way to be closed, or one
\* of those the code knowingly leaves to the server's idle timeout.
EverySessionOwned ==
  \A s \in live \ (strays \cup closing) :
    \/ s \in SessionsIn(idle) \cup SessionsIn(closeList)
    \/ \E q \in Queries :
         \/ Holding(q) /\ session[q] = s
         \/ phase[q] \in Fetching /\ ~fromPool[q] /\ session[q] = s
         \/ s \in SessionsIn(drained[q])

\* No query waits for a session: every one ends, whatever the pool holds.
QueriesEnd == \A q \in Queries : <>(phase[q] \in Ended)

Undisturbed(q) == operation[q] # "lost"

\* Without a warehouse restart, the operation of a statement that ran on a
\* throwaway session stays until it has been fetched.
ThrowawayOutlivesFetch ==
  restarts = 0 => \A q \in Queries : phase[q] = "fetching" /\ ~fromPool[q] => Undisturbed(q)

\* A session is closed in the end and, outside the pool, not before its fetch.
SessionsOwned == EverySessionOwned /\ ThrowawayOutlivesFetch

\* "A session checked out for this call (whether pooled or a throwaway) must
\* stay open until the operation it created is fully drained and closed."
SessionOutlivesFetch ==
  restarts = 0 => \A q \in Queries : phase[q] = "fetching" => Undisturbed(q)
=============================================================================
