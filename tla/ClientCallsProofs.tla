--------------------------- MODULE ClientCallsProofs ---------------------------
(***************************************************************************)
(* Theorems about ClientCalls, for every number of calls, loops, attempts   *)
(* and troubles.                                                            *)
(***************************************************************************)
EXTENDS ClientCalls, TLAPS

-----------------------------------------------------------------------------
(* What RequestsInv says of the client, and of one call.                    *)

ClientInv ==
  /\ provider \in {"static", "sync", "async"}
  /\ troubles \in 0..MaxTroubles /\ valid \in 0..troubles
  /\ open \subseteq Loops
  /\ {lastKnown, sinkKnown} \subseteq Loops \cup {NoLoop}
  /\ DOMAIN phase = Calls /\ phase = [c \in Calls |-> phase[c]]
  /\ DOMAIN request = Calls /\ request = [c \in Calls |-> request[c]]
  /\ DOMAIN eventLoop = Calls /\ eventLoop = [c \in Calls |-> eventLoop[c]]

CallInv(c) ==
  /\ phase[c] \in Phases
  /\ request[c] \in RequestStates
  /\ eventLoop[c] \in Loops \cup {NoLoop, NotDue}
  /\ LoopOf[c] \in open =>
       /\ request[c].loop \in {NoLoop, LoopOf[c]}
       /\ eventLoop[c] \in {NotDue, LoopOf[c]}
  /\ request[c].asked <= valid
  /\ AtStage(c, "sent") /\ provider # "static" => request[c].asked <= request[c].token
  /\ phase[c] = "TransientError" => request[c].attempt = RetryAttempts
  /\ phase[c] = "AuthError" /\ request[c].from = "status" =>
       \/ provider = "static"
       \/ request[c].attempt = RetryAttempts /\ request[c].token >= request[c].asked

LEMMA CallByCall == RequestsInv <=> ClientInv /\ \A c \in Calls : CallInv(c)
<1>1. RequestsInv => ClientInv
  BY DEF RequestsInv, ClientInv, RequestsTypeOK
<1>2. ASSUME RequestsInv, NEW c \in Calls PROVE CallInv(c)
  BY <1>2 DEF RequestsInv, CallInv, RequestsTypeOK, TokensInv, CallersLoop, ErrorsAreEarned
<1>3. ASSUME ClientInv, \A c \in Calls : CallInv(c) PROVE RequestsInv
  <2>1. RequestsTypeOK /\ phase \in [Calls -> Phases]
    <3>1. phase \in [Calls -> Phases] /\ request \in [Calls -> RequestStates]
      BY <1>3 DEF ClientInv, CallInv
    <3>2. eventLoop \in [Calls -> Loops \cup {NoLoop, NotDue}]
      BY <1>3 DEF ClientInv, CallInv
    <3>. QED
      BY <1>3, <3>1, <3>2 DEF ClientInv, RequestsTypeOK
  <2>2. TokensInv
    BY <1>3 DEF ClientInv, CallInv, TokensInv
  <2>3. CallersLoop
    BY <1>3, <2>1 DEF CallInv, CallersLoop
  <2>4. ErrorsAreEarned
    BY <1>3 DEF CallInv, ErrorsAreEarned
  <2>. QED
    BY <2>1, <2>2, <2>3, <2>4 DEF RequestsInv
<1>. QED
  BY <1>1, <1>2, <1>3

\* Troubles leave a call as it was.
LEMMA CallKeeps ==
  ASSUME ClientInv, ClientInv', NEW d \in Calls, CallInv(d),
         UNCHANGED <<phase[d], request[d], eventLoop[d], provider>>,
         valid <= valid', open' \subseteq open
  PROVE  CallInv(d)'
<1>1. request[d].asked \in Int /\ valid \in Int /\ valid' \in Int
  BY DEF CallInv, RequestStates, ClientInv
<1>2. (request[d].asked <= valid)'
  BY <1>1 DEF CallInv
<1>. QED
  BY <1>2 DEF CallInv, AtStage

-----------------------------------------------------------------------------
(* LoopResolver                                                             *)

\* As long as a call's loop is open it is the one that is found.
LEMMA ResolvesToOwnLoop ==
  ASSUME ClientInv, NEW c \in Calls, NEW known \in Loops \cup {NoLoop}
  PROVE  /\ Resolved(c, known) \in Loops \cup {NoLoop}
         /\ Learnt(c, known) \in Loops \cup {NoLoop}
         /\ LoopOf[c] \in open => Resolved(c, known) = LoopOf[c] /\ Resolved(c, known) # NoLoop
<1>1. LoopOf[c] \in Loops /\ NoLoop \notin Loops
  BY CallsAssumption
<1>2. Found(c) \in Loops \cup {NoLoop} /\ (LoopOf[c] \in open => Found(c) = LoopOf[c])
  BY <1>1 DEF Found, CallContext, CurrentLocals
<1>. QED
  BY <1>1, <1>2 DEF Resolved, Learnt, ClientInv

\* What a report changes.
LEMMA Reported ==
  ASSUME ClientInv, NEW c \in Calls, Report(c)
  PROVE  /\ eventLoop'[c] \in Loops \cup {NoLoop, NotDue}
         /\ LoopOf[c] \in open => eventLoop'[c] = LoopOf[c]
         /\ \A d \in Calls \ {c} : eventLoop'[d] = eventLoop[d]
         /\ DOMAIN eventLoop' = Calls /\ eventLoop' = [d \in Calls |-> eventLoop'[d]]
         /\ sinkKnown' \in Loops \cup {NoLoop}
<1>. DEFINE loop == Resolved(c, sinkKnown)
<1>1. /\ loop \in Loops \cup {NoLoop} /\ Learnt(c, sinkKnown) \in Loops \cup {NoLoop}
      /\ LoopOf[c] \in open => loop = LoopOf[c]
  BY ResolvesToOwnLoop DEF ClientInv
<1>2. eventLoop' = [eventLoop EXCEPT ![c] = loop] /\ sinkKnown' = Learnt(c, sinkKnown)
  BY DEF Report
<1>. HIDE DEF loop
<1>. QED
  BY <1>1, <1>2 DEF ClientInv

-----------------------------------------------------------------------------
(* One attempt                                                              *)

OthersKeep(c) ==
  \A d \in Calls \ {c} : UNCHANGED <<phase[d], request[d], eventLoop[d]>>

LEMMA CallByCallNext == RequestsInv' <=> (ClientInv /\ \A c \in Calls : CallInv(c))'
  BY CallByCall, PTL

\* A step of one call keeps the invariant if it keeps what it says of the call.
LEMMA OneCallMoves ==
  ASSUME RequestsInv, NEW c \in Calls, ClientInv', CallInv(c)', OthersKeep(c),
         UNCHANGED <<worldVars, open>>
  PROVE  RequestsInv'
<1>1. ClientInv /\ \A d \in Calls : CallInv(d)
  BY CallByCall
<1>2. ASSUME NEW d \in Calls \ {c} PROVE CallInv(d)'
  <2>1. valid <= valid'
    BY <1>1 DEF ClientInv, worldVars
  <2>2. UNCHANGED <<phase[d], request[d], eventLoop[d], provider>> /\ open' \subseteq open
    BY DEF OthersKeep, worldVars
  <2>. QED
    BY <1>1, <2>1, <2>2, CallKeeps
<1>. QED
  BY <1>2, CallByCallNext

\* The parts of a record that is made by changing another.
LEMMA FreshWith ==
  ASSUME NEW n, NEW m, NEW f
  PROVE  /\ [[FreshRequest EXCEPT !.attempt = n] EXCEPT !.from = f] =
              [stage |-> "token", loop |-> NoLoop, token |-> 0, attempt |-> n, asked |-> 0, from |-> f]
         /\ [FreshRequest EXCEPT !.attempt = n, !.asked = m] =
              [stage |-> "token", loop |-> NoLoop, token |-> 0, attempt |-> n, asked |-> m, from |-> "none"]
<1>. DEFINE a == [stage |-> "token", loop |-> NoLoop, token |-> 0, attempt |-> n, asked |-> 0,
                  from |-> "none"]
<1>1. [FreshRequest EXCEPT !.attempt = n] = a
  BY DEF FreshRequest
<1>2. [a EXCEPT !.from = f] =
        [stage |-> "token", loop |-> NoLoop, token |-> 0, attempt |-> n, asked |-> 0, from |-> f]
  OBVIOUS
<1>3. [a EXCEPT !.asked = m] =
        [stage |-> "token", loop |-> NoLoop, token |-> 0, attempt |-> n, asked |-> m, from |-> "none"]
  OBVIOUS
<1>4. [FreshRequest EXCEPT !.attempt = n, !.asked = m] = [[FreshRequest EXCEPT !.attempt = n] EXCEPT !.asked = m]
  BY DEF FreshRequest
<1>. QED
  BY <1>1, <1>2, <1>3, <1>4

\* What an error is made of.
LEMMA ErrorsOfFailures ==
  ASSUME NEW failure \in R!Failures \cup {"provider"}, NEW idempotent \in BOOLEAN
  PROVE  /\ ErrorOf(failure, idempotent) \in Errors
         /\ ErrorOf(failure, idempotent) = "AuthError" <=> failure \in {"auth", "provider"}
         /\ ErrorOf(failure, idempotent) = "TransientError" =>
              R!Transient(failure, idempotent) /\ failure \notin {"auth", "provider"}
         /\ Source(failure) \in {"provider", "status", "transport"}
         /\ Source(failure) = "provider" <=> failure = "provider"
         /\ idempotent /\ failure # "refused" /\ Source(failure) = "status" =>
              ErrorOf(failure, idempotent) # "ArrowbricksError"
<1>. USE DEF ErrorOf, Source, Errors, R!Transient, R!Failures
<1>1. CASE failure \in {"auth", "provider"}
  BY <1>1
<1>2. CASE failure \notin {"auth", "provider"} /\ R!Transient(failure, idempotent)
  BY <1>2
<1>3. CASE failure \notin {"auth", "provider"} /\ ~R!Transient(failure, idempotent)
  BY <1>3
<1>. QED
  BY <1>1, <1>2, <1>3

\* A request that ends with an error: retries are over, unless the provider
\* failed.
LEMMA Failed ==
  ASSUME ClientInv, NEW c \in Calls, CallInv(c),
         NEW failure \in R!Failures \cup {"provider"},
         NEW idempotent \in BOOLEAN, NEW isQuery \in BOOLEAN,
         Fail(c, failure, idempotent, isQuery),
         failure # "provider" => ~R!Retries(failure, idempotent, request[c].attempt),
         failure = "auth" => AtStage(c, "sent"),
         UNCHANGED <<worldVars, open>>,
         lastKnown' \in Loops \cup {NoLoop}
  PROVE  ClientInv' /\ CallInv(c)' /\ OthersKeep(c)
<1>1. PICK error \in Errors, from \in {"provider", "status", "transport"}, n \in 1..RetryAttempts :
        /\ error = ErrorOf(failure, idempotent) /\ from = Source(failure)
        /\ n = request[c].attempt
  BY ErrorsOfFailures DEF CallInv, RequestStates
<1>2. PICK r : r = IF failure = "auth" THEN [request[c] EXCEPT !.from = from]
                   ELSE [stage |-> "token", loop |-> NoLoop, token |-> 0, attempt |-> n,
                         asked |-> 0, from |-> from]
  OBVIOUS
<1>3. phase' = [phase EXCEPT ![c] = error] /\ request' = [request EXCEPT ![c] = r]
  <2>1. phase' = [phase EXCEPT ![c] = error]
    BY <1>1 DEF Fail, MoveTo
  <2>2. request' = [request EXCEPT ![c] =
           [(IF failure = "auth" THEN request[c] ELSE [FreshRequest EXCEPT !.attempt = request[c].attempt])
              EXCEPT !.from = Source(failure)]]
    BY DEF Fail, ClientInv
  <2>3. r = [(IF failure = "auth" THEN request[c] ELSE [FreshRequest EXCEPT !.attempt = request[c].attempt])
              EXCEPT !.from = Source(failure)]
    BY <1>1, <1>2, FreshWith
  <2>. QED
    BY <2>1, <2>2, <2>3
<1>4. /\ r \in RequestStates /\ r.from = from /\ r.attempt = n
      /\ failure = "auth" => /\ r.token = request[c].token /\ r.asked = request[c].asked
                             /\ r.stage = request[c].stage /\ r.loop = request[c].loop
      /\ failure # "auth" => r.token = 0 /\ r.asked = 0 /\ r.stage = "token" /\ r.loop = NoLoop
  <2>1. request[c] \in RequestStates /\ MaxTroubles \in Nat
    BY CallsAssumption DEF CallInv
  <2>2. CASE failure = "auth"
    BY <1>1, <1>2, <2>1, <2>2 DEF RequestStates
  <2>3. CASE failure # "auth"
    BY <1>1, <1>2, <2>1, <2>3 DEF RequestStates
  <2>. QED
    BY <2>2, <2>3
<1>5. /\ eventLoop'[c] \in Loops \cup {NoLoop, NotDue}
      /\ LoopOf[c] \in open => eventLoop'[c] \in {NotDue, LoopOf[c]}
      /\ \A d \in Calls \ {c} : eventLoop'[d] = eventLoop[d]
      /\ DOMAIN eventLoop' = Calls /\ eventLoop' = [d \in Calls |-> eventLoop'[d]]
      /\ sinkKnown' \in Loops \cup {NoLoop}
  <2>1. CASE isQuery
    <3>1. Report(c)
      BY <2>1 DEF Fail
    <3>. QED
      BY <3>1, Reported
  <2>2. CASE ~isQuery
    BY <2>2 DEF Fail, ClientInv, CallInv
  <2>. QED
    BY <2>1, <2>2
<1>6. phase'[c] = error /\ request'[c] = r /\ OthersKeep(c)
  BY <1>3, <1>5 DEF ClientInv, OthersKeep
<1>7. ClientInv'
  BY <1>3, <1>5 DEF ClientInv, worldVars
<1>8. CallInv(c)'
  <2>1. error \in Phases
    BY DEF Phases, Ended
  <2>2. LoopOf[c] \in open => r.loop \in {NoLoop, LoopOf[c]}
    BY <1>4 DEF CallInv
  <2>3. r.asked <= valid /\ (r.stage = "sent" /\ provider # "static" => r.asked <= r.token)
    <3>1. CASE failure = "auth"
      BY <1>4, <3>1 DEF CallInv, AtStage
    <3>2. CASE failure # "auth"
      BY <1>4, <3>2 DEF ClientInv
    <3>. QED
      BY <3>1, <3>2
  <2>4. failure # "provider" /\ R!Transient(failure, idempotent) /\ (failure = "auth" => provider # "static")
          => n = RetryAttempts
    BY <1>1, CallsAssumption DEF R!Retries, R!Hopeless
  <2>5. error = "TransientError" => r.attempt = RetryAttempts
    <3>. SUFFICES ASSUME error = "TransientError" PROVE r.attempt = RetryAttempts
      OBVIOUS
    <3>1. R!Transient(failure, idempotent) /\ failure \notin {"auth", "provider"}
      BY <1>1, ErrorsOfFailures
    <3>. QED
      BY <1>4, <2>4, <3>1
  <2>6. error = "AuthError" /\ from = "status" =>
          provider = "static" \/ (r.attempt = RetryAttempts /\ r.token >= r.asked)
    <3>. SUFFICES ASSUME error = "AuthError", from = "status", provider # "static"
                  PROVE  r.attempt = RetryAttempts /\ r.token >= r.asked
      OBVIOUS
    <3>1. failure = "auth"
      BY <1>1, ErrorsOfFailures
    <3>2. r.attempt = RetryAttempts
      BY <1>4, <2>4, <3>1 DEF R!Transient
    <3>3. r.stage = "sent" /\ r.token \in Int /\ r.asked \in Int
      BY <1>4, <3>1 DEF AtStage, RequestStates
    <3>. QED
      BY <2>3, <3>2, <3>3
  <2>. QED
    BY <1>4, <1>5, <1>6, <2>1, <2>2, <2>3, <2>5, <2>6 DEF CallInv, AtStage, worldVars
<1>. QED
  BY <1>6, <1>7, <1>8

\* Every other step of a call: what it makes of its request is sound, and no
\* error that speaks of retries is raised.
LEMMA Moved ==
  ASSUME RequestsInv, NEW c \in Calls, NEW r \in RequestStates,
         NEW p \in Phases \ {"TransientError", "AuthError"},
         request' = [request EXCEPT ![c] = r], phase' = [phase EXCEPT ![c] = p],
         LoopOf[c] \in open => r.loop \in {NoLoop, LoopOf[c]},
         r.asked <= valid, r.stage = "sent" /\ provider # "static" => r.asked <= r.token,
         UNCHANGED <<worldVars, open>>,
         Report(c) \/ UNCHANGED <<eventLoop, sinkKnown>>,
         lastKnown' \in Loops \cup {NoLoop}
  PROVE  RequestsInv'
<1>1. ClientInv /\ CallInv(c)
  BY CallByCall
<1>2. /\ eventLoop'[c] \in Loops \cup {NoLoop, NotDue}
      /\ LoopOf[c] \in open => eventLoop'[c] \in {NotDue, LoopOf[c]}
      /\ \A d \in Calls \ {c} : eventLoop'[d] = eventLoop[d]
      /\ DOMAIN eventLoop' = Calls /\ eventLoop' = [d \in Calls |-> eventLoop'[d]]
      /\ sinkKnown' \in Loops \cup {NoLoop}
  <2>1. CASE Report(c)
    BY <1>1, <2>1, Reported
  <2>2. CASE UNCHANGED <<eventLoop, sinkKnown>>
    BY <1>1, <2>2 DEF ClientInv, CallInv
  <2>. QED
    BY <2>1, <2>2
<1>3. phase'[c] = p /\ request'[c] = r /\ OthersKeep(c)
  BY <1>1, <1>2 DEF ClientInv, OthersKeep
<1>4. ClientInv'
  BY <1>1, <1>2 DEF ClientInv, worldVars
<1>5. CallInv(c)'
  BY <1>2, <1>3 DEF CallInv, AtStage, worldVars
<1>. QED
  BY <1>3, <1>4, <1>5, OneCallMoves

\* What RequestsInv says of the request of a call.
LEMMA RequestOf ==
  ASSUME RequestsInv, NEW c \in Calls
  PROVE  /\ request[c] \in RequestStates /\ request \in [Calls -> RequestStates]
         /\ phase \in [Calls -> Phases]
         /\ LoopOf[c] \in open => request[c].loop \in {NoLoop, LoopOf[c]}
         /\ request[c].asked <= valid /\ request[c].asked \in Nat /\ valid \in 0..MaxTroubles
         /\ request[c].attempt \in 1..RetryAttempts
         /\ AtStage(c, "sent") /\ provider # "static" => request[c].asked <= request[c].token
         /\ lastKnown \in Loops \cup {NoLoop}
         /\ FreshRequest \in RequestStates
<1>1. CallInv(c) /\ ClientInv
  BY CallByCall
<1>2. valid \in 0..MaxTroubles /\ 0 \in 0..MaxTroubles /\ 1 \in 1..RetryAttempts
  BY <1>1, CallsAssumption DEF ClientInv
<1>3. FreshRequest \in RequestStates
  BY <1>2 DEF FreshRequest, RequestStates
<1>4. request[c].asked \in Nat /\ request[c].attempt \in 1..RetryAttempts
  BY <1>1 DEF CallInv, RequestStates
<1>. QED
  BY <1>1, <1>2, <1>3, <1>4 DEF CallInv, ClientInv, RequestsInv, RequestsTypeOK

\* The token provider is asked.
LEMMA TokenStep ==
  ASSUME RequestsInv, NEW c \in Calls, phase[c] \in Waiting \cup OnFiles,
         NEW isQuery \in BOOLEAN, GetToken(c, isQuery) \/ CoroutineEnds(c, isQuery)
  PROVE  RequestsInv'
<1>. DEFINE With(stage, loop, token) ==
              [request[c] EXCEPT !.stage = stage, !.loop = loop, !.token = token]
<1>1. /\ ClientInv /\ CallInv(c) /\ phase = [phase EXCEPT ![c] = phase[c]]
      /\ phase[c] \in Phases \ {"TransientError", "AuthError"}
  BY CallByCall, RequestOf DEF Waiting, OnFiles
<1>2. UNCHANGED <<worldVars, open>> /\ lastKnown' \in Loops \cup {NoLoop}
  <2>1. CASE GetToken(c, isQuery)
    <3>1. UNCHANGED <<worldVars, open>> /\ lastKnown' \in {lastKnown, Learnt(c, lastKnown)}
      BY <2>1 DEF GetToken
    <3>. QED
      BY <1>1, <3>1, RequestOf, ResolvesToOwnLoop
  <2>2. CASE CoroutineEnds(c, isQuery)
    BY <2>2, RequestOf DEF CoroutineEnds
  <2>. QED
    BY <2>1, <2>2
<1>3. ASSUME NEW stage \in {"awaiting", "sent"}, NEW loop \in Loops \cup {NoLoop},
             NEW token \in 0..MaxTroubles,
             LoopOf[c] \in open => loop \in {NoLoop, LoopOf[c]},
             stage = "sent" /\ provider # "static" => token = valid
      PROVE  /\ With(stage, loop, token) \in RequestStates
             /\ LoopOf[c] \in open => With(stage, loop, token).loop \in {NoLoop, LoopOf[c]}
             /\ With(stage, loop, token).asked <= valid
             /\ With(stage, loop, token).stage = "sent" /\ provider # "static" =>
                  With(stage, loop, token).asked <= With(stage, loop, token).token
  BY <1>3, RequestOf DEF RequestStates
<1>4. ASSUME NEW token \in 0..MaxTroubles, provider # "static" => token = valid,
             Send(c, token), UNCHANGED <<phase, sinkKnown, eventLoop>>
      PROVE  RequestsInv'
  <2>. DEFINE r == With("sent", NoLoop, token)
  <2>1. /\ r \in RequestStates /\ (LoopOf[c] \in open => r.loop \in {NoLoop, LoopOf[c]})
        /\ r.asked <= valid /\ (r.stage = "sent" /\ provider # "static" => r.asked <= r.token)
    BY <1>3, <1>4
  <2>2. request' = [request EXCEPT ![c] = r]
    BY <1>4, RequestOf DEF Send, RequestStates
  <2>. HIDE DEF r
  <2>. QED
    BY <1>1, <1>2, <1>4, <2>1, <2>2, Moved
<1>5. ASSUME Fail(c, "provider", FALSE, isQuery) PROVE RequestsInv'
  <2>1. ClientInv' /\ CallInv(c)' /\ OthersKeep(c)
    BY <1>1, <1>2, <1>5, RequestOf, Failed
  <2>. QED
    BY <1>2, <2>1, OneCallMoves
<1>6. CASE GetToken(c, isQuery)
  <2>1. CASE /\ provider # "async"
             /\ Send(c, IF provider = "static" THEN 0 ELSE valid)
             /\ UNCHANGED <<phase, lastKnown, sinkKnown, eventLoop>>
    <3>. DEFINE token == IF provider = "static" THEN 0 ELSE valid
    <3>1. token \in 0..MaxTroubles /\ (provider # "static" => token = valid)
      BY RequestOf, CallsAssumption
    <3>. HIDE DEF token
    <3>. QED
      BY <1>4, <2>1, <3>1 DEF token
  <2>2. CASE /\ provider = "async"
             /\ request' = [request EXCEPT ![c].stage = "awaiting", ![c].loop = Resolved(c, lastKnown)]
             /\ UNCHANGED <<phase, sinkKnown, eventLoop>>
    <3>. DEFINE loop == Resolved(c, lastKnown)
    <3>. DEFINE r == With("awaiting", loop, request[c].token)
    <3>1. loop \in Loops \cup {NoLoop} /\ (LoopOf[c] \in open => loop \in {NoLoop, LoopOf[c]})
      BY <1>1, RequestOf, ResolvesToOwnLoop
    <3>. HIDE DEF loop
    <3>2. request[c].token \in 0..MaxTroubles
      BY RequestOf DEF RequestStates
    <3>3. /\ r \in RequestStates /\ (LoopOf[c] \in open => r.loop \in {NoLoop, LoopOf[c]})
          /\ r.asked <= valid /\ (r.stage = "sent" /\ provider # "static" => r.asked <= r.token)
      BY <1>3, <3>1, <3>2
    <3>4. request' = [request EXCEPT ![c] = r]
      BY <2>2, RequestOf DEF RequestStates, loop
    <3>. HIDE DEF r
    <3>. QED
      BY <1>1, <1>2, <2>2, <3>3, <3>4, Moved
  <2>. QED
    BY <1>5, <1>6, <2>1, <2>2 DEF GetToken
<1>7. CASE CoroutineEnds(c, isQuery)
  BY <1>4, <1>5, <1>7, RequestOf DEF CoroutineEnds
<1>. QED
  BY <1>6, <1>7

\* An attempt fails: it is followed by another, or the request ends.
LEMMA AttemptFailsStep ==
  ASSUME RequestsInv, NEW c \in Calls, phase[c] \in Waiting \cup OnFiles,
         NEW failure \in MayFail(c), NEW idempotent \in BOOLEAN, NEW isQuery \in BOOLEAN,
         AtStage(c, "sent"), AttemptFails(c, failure, idempotent, isQuery),
         UNCHANGED <<worldVars, open, lastKnown>>
  PROVE  RequestsInv'
<1>1. failure \in R!Failures /\ failure # "provider"
  BY DEF MayFail, R!Failures, R!Ambiguous
<1>2. CASE R!Retries(failure, idempotent, request[c].attempt)
  <2>. DEFINE r == [stage |-> "token", loop |-> NoLoop, token |-> 0, attempt |-> request[c].attempt + 1,
                    asked |-> valid, from |-> "none"]
  <2>1. request' = [request EXCEPT ![c] = r] /\ UNCHANGED <<phase, sinkKnown, eventLoop>>
    BY <1>2, FreshWith DEF AttemptFails, NextAttempt
  <2>2. request[c].attempt + 1 \in 1..RetryAttempts /\ valid \in 0..MaxTroubles /\ 0 \in 0..MaxTroubles
    BY <1>2, RequestOf, CallsAssumption DEF R!Retries
  <2>3. r \in RequestStates
    BY <2>2 DEF RequestStates
  <2>4. /\ phase[c] \in Phases \ {"TransientError", "AuthError"}
        /\ phase' = [phase EXCEPT ![c] = phase[c]]
    BY <2>1, RequestOf DEF Waiting, OnFiles
  <2>5. r.asked <= valid /\ r.stage # "sent" /\ r.loop = NoLoop
    BY <2>2
  <2>6. lastKnown' \in Loops \cup {NoLoop}
    BY RequestOf
  <2>. HIDE DEF r
  <2>. QED
    BY <2>1, <2>3, <2>4, <2>5, <2>6, Moved
<1>3. CASE ~R!Retries(failure, idempotent, request[c].attempt)
  <2>1. Fail(c, failure, idempotent, isQuery)
    BY <1>3 DEF AttemptFails
  <2>2. ClientInv /\ CallInv(c) /\ lastKnown' \in Loops \cup {NoLoop}
    BY CallByCall, RequestOf
  <2>3. ClientInv' /\ CallInv(c)' /\ OthersKeep(c)
    BY <1>1, <1>3, <2>1, <2>2, Failed
  <2>. QED
    BY <2>3, OneCallMoves
<1>. QED
  BY <1>2, <1>3

-----------------------------------------------------------------------------
(* The queries                                                              *)

\* A query that asks nothing goes on with the request it has, or a fresh one.
LEMMA QueryGoesOn ==
  ASSUME RequestsInv, NEW c \in Calls,
         NEW p \in Phases \ {"TransientError", "AuthError"}, MoveTo(c, p),
         Fresh(c) \/ UNCHANGED request,
         Report(c) \/ UNCHANGED <<eventLoop, sinkKnown>>,
         UNCHANGED <<worldVars, open, lastKnown>>
  PROVE  RequestsInv'
<1>2. phase' = [phase EXCEPT ![c] = p] /\ lastKnown' \in Loops \cup {NoLoop}
  BY RequestOf DEF MoveTo
<1>3. CASE Fresh(c)
  <2>1. request' = [request EXCEPT ![c] = FreshRequest]
    BY <1>3 DEF Fresh
  <2>2. /\ FreshRequest \in RequestStates /\ FreshRequest.loop = NoLoop
        /\ FreshRequest.stage # "sent" /\ FreshRequest.asked <= valid
    BY RequestOf DEF FreshRequest
  <2>. QED
    BY <1>2, <2>1, <2>2, Moved
<1>4. CASE UNCHANGED request
  <2>1. request' = [request EXCEPT ![c] = request[c]]
    BY <1>4, RequestOf
  <2>2. /\ request[c] \in RequestStates /\ (LoopOf[c] \in open => request[c].loop \in {NoLoop, LoopOf[c]})
        /\ request[c].asked <= valid
        /\ request[c].stage = "sent" /\ provider # "static" => request[c].asked <= request[c].token
    BY RequestOf DEF AtStage
  <2>. QED
    BY <1>2, <2>1, <2>2, Moved
<1>. QED
  BY <1>3, <1>4

LEMMA QueryStep ==
  ASSUME RequestsInv, NEW c \in Calls, QueryMoves(c)
  PROVE  RequestsInv'
<1>1. CASE Ensure(c)
  <2>. DEFINE p == IF confirmed THEN "ready" ELSE "checking"
  <2>1. p \in Phases \ {"TransientError", "AuthError"} /\ MoveTo(c, p)
    BY <1>1 DEF Ensure, Phases, Waiting
  <2>. HIDE DEF p
  <2>. QED
    BY <1>1, <2>1, QueryGoesOn DEF Ensure, loopVars
<1>2. CASE EnsureToken(c)
  BY <1>2, TokenStep DEF EnsureToken
<1>3. CASE Look(c)
  <2>1. PICK p : MoveTo(c, p) /\ p \in {"ready", "starting", "ArrowbricksError", "waiting"}
    <3>. DEFINE p == CASE warehouse = "running" -> "ready"
                       [] warehouse = "stopped" /\ StartsStopped(c) -> "starting"
                       [] warehouse = "deleted" -> "ArrowbricksError"
                       [] OTHER -> "waiting"
    <3>1. MoveTo(c, p)
      BY <1>3 DEF Look
    <3>2. p \in {"ready", "starting", "ArrowbricksError", "waiting"}
      OBVIOUS
    <3>. HIDE DEF p
    <3>. QED
      BY <3>1, <3>2
  <2>2. p \in Phases \ {"TransientError", "AuthError"} /\ phase[c] \in Waiting
    BY <1>3, <2>1 DEF Look, Phases, Waiting, Ended, Errors
  <2>3. /\ Report(c) \/ UNCHANGED <<eventLoop, sinkKnown>>
        /\ Fresh(c) /\ UNCHANGED <<worldVars, open, lastKnown>>
    BY <1>3 DEF Look
  <2>. QED
    BY <2>1, <2>2, <2>3, QueryGoesOn
<1>4. CASE StartWarehouse(c)
  <2>1. "waiting" \in Phases \ {"TransientError", "AuthError"} /\ phase[c] \in Waiting
    BY <1>4 DEF StartWarehouse, Phases, Waiting
  <2>. QED
    BY <1>4, <2>1, QueryGoesOn DEF StartWarehouse, loopVars
<1>5. CASE EnsureFails(c)
  <2>1. PICK failure \in MayFail(c) : AttemptFails(c, failure, phase[c] # "starting", TRUE)
    BY <1>5 DEF EnsureFails
  <2>. DEFINE idempotent == phase[c] # "starting"
  <2>2. /\ phase[c] \in Waiting /\ AtStage(c, "sent") /\ UNCHANGED <<worldVars, open, lastKnown>>
        /\ idempotent \in BOOLEAN
    BY <1>5 DEF EnsureFails
  <2>. HIDE DEF idempotent
  <2>4. AttemptFails(c, failure, idempotent, TRUE)
    BY <2>1 DEF idempotent
  <2>. QED
    BY <2>2, <2>4, AttemptFailsStep
<1>6. CASE EnsureDropped(c)
  <2>1. "cancelled" \in Phases \ {"TransientError", "AuthError"}
    BY DEF Phases, Ended
  <2>. QED
    BY <1>6, <2>1, QueryGoesOn DEF EnsureDropped, loopVars
<1>7. CASE GiveUpWaiting(c)
  <2>1. "ready" \in Phases \ {"TransientError", "AuthError"} /\ phase[c] \in Waiting
    BY <1>7 DEF GiveUpWaiting, Phases, Waiting
  <2>. QED
    BY <1>7, <2>1, QueryGoesOn DEF GiveUpWaiting, loopVars
<1>8. CASE StatementEnds(c)
  <2>1. {"succeeded", "ArrowbricksError"} \subseteq Phases \ {"TransientError", "AuthError"}
    BY DEF Phases, Ended, Errors
  <2>. QED
    BY <1>8, <2>1, QueryGoesOn DEF StatementEnds
<1>. QED
  BY <1>1, <1>2, <1>3, <1>4, <1>5, <1>6, <1>7, <1>8 DEF QueryMoves, EnsureStep

-----------------------------------------------------------------------------
(* The volume files                                                         *)

LEMMA VolumeMoves ==
  ASSUME RequestsInv, NEW c \in Calls, StartVolume(c) \/ VolumeStep(c) \/ VolumeDropped(c)
  PROVE  RequestsInv'
<1>0. {"on_file", "succeeded", "cancelled"} \subseteq Phases \ {"TransientError", "AuthError"}
  BY DEF Phases, OnFiles, Ended, Errors
<1>1. CASE StartVolume(c)
  BY <1>0, <1>1, QueryGoesOn DEF StartVolume, loopVars
<1>2. CASE VolumeToken(c)
  BY <1>2, TokenStep DEF VolumeToken
<1>3. CASE VolumeAnswered(c)
  <2>1. CASE NotFound(c) /\ ~NotFoundIsFine(c)
    <3>1. /\ Fail(c, "refused", TRUE, FALSE) /\ UNCHANGED <<worldVars, open>>
          /\ lastKnown' \in Loops \cup {NoLoop} /\ "refused" \in R!Failures
      BY <1>3, <2>1, RequestOf DEF VolumeAnswered, R!Failures
    <3>2. ~R!Retries("refused", TRUE, request[c].attempt)
      BY DEF R!Retries, R!Hopeless, R!Transient
    <3>3. ClientInv' /\ CallInv(c)' /\ OthersKeep(c)
      BY <3>1, <3>2, CallByCall, Failed
    <3>. QED
      BY <3>1, <3>3, OneCallMoves
  <2>2. CASE ~(NotFound(c) /\ ~NotFoundIsFine(c))
    BY <1>0, <1>3, <2>2, QueryGoesOn DEF VolumeAnswered
  <2>. QED
    BY <2>1, <2>2
<1>4. CASE VolumeFails(c)
  <2>1. PICK failure \in MayFail(c) : AttemptFails(c, failure, TRUE, FALSE)
    BY <1>4 DEF VolumeFails
  <2>2. phase[c] \in OnFiles /\ AtStage(c, "sent") /\ UNCHANGED <<worldVars, open, lastKnown>>
    BY <1>4 DEF VolumeFails
  <2>. QED
    BY <2>1, <2>2, AttemptFailsStep
<1>5. CASE VolumeDropped(c)
  BY <1>0, <1>5, QueryGoesOn DEF VolumeDropped, loopVars
<1>. QED
  BY <1>1, <1>2, <1>3, <1>4, <1>5 DEF VolumeStep

-----------------------------------------------------------------------------
(* Around the calls                                                         *)

\* What happens around the calls.
LEMMA AroundStep ==
  ASSUME RequestsInv, UNCHANGED <<provider, lastKnown, sinkKnown, phase, request, eventLoop>>,
         open' \subseteq open, troubles' \in 0..MaxTroubles, valid' \in 0..troubles', valid <= valid'
  PROVE  RequestsInv'
<1>1. ClientInv /\ \A d \in Calls : CallInv(d)
  BY CallByCall
<1>2. ClientInv'
  BY <1>1 DEF ClientInv
<1>3. \A d \in Calls : CallInv(d)'
  BY <1>1, <1>2, CallKeeps
<1>. QED
  BY <1>2, <1>3, CallByCallNext

LEMMA InitRequests == Init => RequestsInv
<1>. SUFFICES ASSUME Init PROVE RequestsInv
  OBVIOUS
<1>. USE DEF Init, RequestsInit
<1>1. 0 \in 0..MaxTroubles /\ 1 \in 1..RetryAttempts /\ LoopOf \in [Calls -> Loops]
  BY CallsAssumption
<1>2. FreshRequest \in RequestStates
  BY <1>1 DEF FreshRequest, RequestStates
<1>3. ClientInv
  BY <1>1 DEF ClientInv
<1>4. \A c \in Calls : CallInv(c)
  <2>. SUFFICES ASSUME NEW c \in Calls PROVE CallInv(c)
    OBVIOUS
  <2>1. /\ phase[c] = "new" /\ request[c] = FreshRequest /\ eventLoop[c] = NotDue /\ valid = 0
    OBVIOUS
  <2>2. FreshRequest.loop = NoLoop /\ FreshRequest.asked = 0 /\ FreshRequest.stage = "token"
    BY DEF FreshRequest
  <2>3. "new" \in Phases
    BY DEF Phases
  <2>. QED
    BY <1>2, <2>1, <2>2, <2>3 DEF CallInv, AtStage
<1>. QED
  BY <1>3, <1>4, CallByCall

LEMMA NextRequests == RequestsInv /\ [Next]_vars => RequestsInv'
<1>. SUFFICES ASSUME RequestsInv, [Next]_vars PROVE RequestsInv'
  OBVIOUS
<1>0. /\ ClientInv /\ troubles \in 0..MaxTroubles /\ valid \in 0..troubles /\ MaxTroubles \in Nat
      /\ valid \in Nat /\ troubles \in Nat
  BY CallByCall, CallsAssumption DEF ClientInv
<1>1. ASSUME NEW c \in Calls, QueryMoves(c) PROVE RequestsInv'
  BY <1>1, QueryStep
<1>2. ASSUME NEW c \in Calls, StartVolume(c) \/ VolumeStep(c) \/ VolumeDropped(c) PROVE RequestsInv'
  BY <1>2, VolumeMoves
<1>3. ASSUME UNCHANGED requestVars PROVE RequestsInv'
  BY <1>0, <1>3, AroundStep DEF requestVars, loopVars
<1>4. ASSUME Stop \/ Delete, UNCHANGED <<provider, valid, loopVars, phase, request>>
      PROVE  RequestsInv'
  <2>1. troubles' = troubles + 1 /\ troubles < MaxTroubles
    BY <1>4 DEF Stop, Delete, Trouble
  <2>2. troubles' \in 0..MaxTroubles /\ valid \in 0..troubles' /\ valid <= valid
    BY <1>0, <2>1
  <2>. QED
    BY <1>4, <2>2, AroundStep DEF loopVars
<1>5. ASSUME OtherWrites, UNCHANGED <<requestVars, warehouseVars>> PROVE RequestsInv'
  BY <1>0, <1>5, AroundStep DEF OtherWrites, requestVars, loopVars
<1>6. ASSUME Rotate PROVE RequestsInv'
  <2>1. troubles' = troubles + 1 /\ troubles < MaxTroubles /\ valid' = valid + 1
    BY <1>6 DEF Rotate, Trouble
  <2>2. troubles' \in 0..MaxTroubles /\ valid' \in 0..troubles' /\ valid <= valid'
    BY <1>0, <2>1
  <2>. QED
    BY <1>6, <2>2, AroundStep DEF Rotate, loopVars
<1>7. ASSUME NEW l \in Loops, CloseLoop(l) PROVE RequestsInv'
  <2>1. troubles' = troubles + 1 /\ troubles < MaxTroubles
    BY <1>7 DEF CloseLoop, Trouble
  <2>2. troubles' \in 0..MaxTroubles /\ valid \in 0..troubles' /\ valid <= valid
    BY <1>0, <2>1
  <2>. QED
    BY <1>7, <2>2, AroundStep DEF CloseLoop
<1>8. ASSUME UNCHANGED vars PROVE RequestsInv'
  BY <1>3, <1>8 DEF vars
<1>. QED
  BY <1>1, <1>2, <1>3, <1>4, <1>5, <1>6, <1>7, <1>8 DEF Next


-----------------------------------------------------------------------------
(* What the calls about files are told                                      *)

\* What FilesInv says of one call.
FileInv(c) ==
  /\ wants[c] \in {"nothing", "file", "no file"}
  /\ told[c] \in {"nothing", "done", "not found", "refused"}
  /\ wants[c] # "nothing" => phase[c] \in OnFiles \cup Ended
  /\ phase[c] \in OnFiles => wants[c] # "nothing"
  /\ wants[c] # "nothing" =>
       /\ phase[c] = "succeeded" => c \in took \/ (wants[c] = "no file" /\ told[c] = "not found")
       /\ phase[c] = "ArrowbricksError" /\ request[c].from = "status" =>
            told[c] = "refused" \/ (wants[c] = "file" /\ told[c] = "not found")

FilesShape ==
  /\ DOMAIN wants = Calls /\ wants = [c \in Calls |-> wants[c]]
  /\ DOMAIN told = Calls /\ told = [c \in Calls |-> told[c]]
  /\ place \in Places /\ took \subseteq Calls

LEMMA FileByFile == FilesInv <=> FilesShape /\ \A c \in Calls : FileInv(c)
<1>1. FilesInv => FilesShape
  BY DEF FilesInv, FilesShape
<1>2. ASSUME FilesInv, NEW c \in Calls PROVE FileInv(c)
  BY <1>2 DEF FilesInv, FileInv, KindsInv, FileAnswersHold
<1>3. ASSUME FilesShape, \A c \in Calls : FileInv(c) PROVE FilesInv
  <2>1. /\ wants \in [Calls -> {"nothing", "file", "no file"}]
        /\ told \in [Calls -> {"nothing", "done", "not found", "refused"}]
    BY <1>3 DEF FilesShape, FileInv
  <2>2. KindsInv /\ FileAnswersHold
    BY <1>3 DEF FileInv, KindsInv, FileAnswersHold
  <2>. QED
    BY <1>3, <2>1, <2>2 DEF FilesShape, FilesInv
<1>. QED
  BY <1>1, <1>2, <1>3

LEMMA FileByFileNext == FilesInv' <=> (FilesShape /\ \A c \in Calls : FileInv(c))'
  BY FileByFile, PTL

\* A call keeps what it says of files if it is left alone.
LEMMA FileKeeps ==
  ASSUME NEW d \in Calls, FileInv(d), UNCHANGED <<phase[d], request[d], wants[d], told[d]>>,
         d \in took => d \in took'
  PROVE  FileInv(d)'
  BY DEF FileInv

\* A step of one call.
LEMMA FileStep ==
  ASSUME FilesInv, NEW c \in Calls, FilesShape', FileInv(c)', took \subseteq took',
         \A d \in Calls \ {c} : UNCHANGED <<phase[d], request[d], wants[d], told[d]>>
  PROVE  FilesInv'
<1>1. \A d \in Calls : FileInv(d)
  BY FileByFile
<1>2. \A d \in Calls \ {c} : FileInv(d)'
  BY <1>1, FileKeeps
<1>. QED
  BY <1>2, FileByFileNext

\* How the attempts of a call end, or do not.
LEMMA Attempted ==
  ASSUME RequestsInv, NEW c \in Calls, NEW failure \in R!Failures, NEW idempotent \in BOOLEAN,
         NEW isQuery \in BOOLEAN, AttemptFails(c, failure, idempotent, isQuery)
  PROVE  \E r, p :
           /\ request' = [request EXCEPT ![c] = r]
           /\ phase' = [phase EXCEPT ![c] = p]
           /\ p = phase[c] \/ p \in Errors
           /\ p = "ArrowbricksError" /\ p # phase[c] /\ r.from = "status" /\ idempotent =>
                failure = "refused"
<1>1. CASE R!Retries(failure, idempotent, request[c].attempt)
  <2>1. \E r : request' = [request EXCEPT ![c] = r]
    BY <1>1 DEF AttemptFails, NextAttempt
  <2>2. phase' = [phase EXCEPT ![c] = phase[c]]
    BY <1>1, RequestOf DEF AttemptFails
  <2>. QED
    BY <2>1, <2>2
<1>2. CASE ~R!Retries(failure, idempotent, request[c].attempt)
  <2>. DEFINE base == IF failure = "auth" THEN request[c] ELSE [FreshRequest EXCEPT !.attempt = request[c].attempt]
  <2>. DEFINE r == [base EXCEPT !.from = Source(failure)]
  <2>1. request' = [request EXCEPT ![c] = r] /\ MoveTo(c, ErrorOf(failure, idempotent))
    BY <1>2, RequestOf DEF AttemptFails, Fail
  <2>2. base \in RequestStates
    <3>1. FreshRequest \in RequestStates /\ request[c] \in RequestStates
          /\ request[c].attempt \in 1..RetryAttempts
      BY RequestOf
    <3>. QED
      BY <3>1 DEF RequestStates
  <2>3. r.from = Source(failure)
    <3>. HIDE DEF base
    <3>. QED
      BY <2>2 DEF RequestStates
  <2>4. ErrorOf(failure, idempotent) \in Errors
    BY ErrorsOfFailures
  <2>5. ErrorOf(failure, idempotent) = "ArrowbricksError" /\ Source(failure) = "status" /\ idempotent
          => failure = "refused"
    BY ErrorsOfFailures
  <2>. HIDE DEF r
  <2>. QED
    BY <2>1, <2>3, <2>4, <2>5 DEF MoveTo
<1>. QED
  BY <1>1, <1>2

\* A provider fails, or has not: nothing is told about the file.
LEMMA TokenAsked ==
  ASSUME RequestsInv, NEW c \in Calls, NEW isQuery \in BOOLEAN,
         GetToken(c, isQuery) \/ CoroutineEnds(c, isQuery)
  PROVE  \E r, p :
           /\ request' = [request EXCEPT ![c] = r]
           /\ phase' = [phase EXCEPT ![c] = p]
           /\ p \in {phase[c], "AuthError"}
<1>1. phase = [phase EXCEPT ![c] = phase[c]]
  BY RequestOf
<1>2. CASE Fail(c, "provider", FALSE, isQuery)
  <2>1. ErrorOf("provider", FALSE) = "AuthError"
    BY DEF ErrorOf
  <2>2. MoveTo(c, "AuthError")
    BY <1>2, <2>1 DEF Fail
  <2>3. \E r : request' = [request EXCEPT ![c] = r]
    BY <1>2 DEF Fail
  <2>. QED
    BY <2>2, <2>3 DEF MoveTo
<1>3. CASE UNCHANGED phase /\ \E t \in {0, valid} : Send(c, t)
  <2>1. \E r : request' = [request EXCEPT ![c] = r]
    BY <1>3 DEF Send
  <2>. QED
    BY <1>1, <1>3, <2>1
<1>4. CASE UNCHANGED phase /\ \E l : request' = [request EXCEPT ![c].stage = "awaiting", ![c].loop = l]
  <2>1. \E r : request' = [request EXCEPT ![c] = r]
    BY <1>4
  <2>. QED
    BY <1>1, <1>4, <2>1
<1>. QED
  BY <1>2, <1>3, <1>4 DEF GetToken, CoroutineEnds

\* A query is told nothing.
LEMMA QueryFiles ==
  ASSUME RequestsInv, FilesInv, NEW c \in Calls, QueryMoves(c), UNCHANGED volumeVars
  PROVE  FilesInv'
<1>1. FilesShape /\ FileInv(c)
  BY FileByFile
<1>2. phase[c] \in {"new", "ready"} \cup Waiting
  BY DEF QueryMoves, EnsureStep, Ensure, EnsureToken, Look, StartWarehouse, EnsureFails,
         EnsureDropped, GiveUpWaiting, StatementEnds, Waiting
<1>3. wants[c] = "nothing"
  BY <1>1, <1>2 DEF FileInv, OnFiles, Ended, Errors, Waiting
<1>4. \E r, p : /\ request' = [request EXCEPT ![c] = r]
                /\ phase' = [phase EXCEPT ![c] = p]
                /\ p \notin OnFiles
  <2>1. request = [request EXCEPT ![c] = request[c]]
    BY RequestOf
  <2>2. CASE EnsureToken(c)
    <3>1. PICK r, p : /\ request' = [request EXCEPT ![c] = r] /\ phase' = [phase EXCEPT ![c] = p]
                      /\ p \in {phase[c], "AuthError"}
      BY <2>2, TokenAsked DEF EnsureToken
    <3>. QED
      BY <1>2, <3>1 DEF OnFiles, Waiting
  <2>3. CASE EnsureFails(c)
    <3>1. PICK failure \in MayFail(c) : AttemptFails(c, failure, phase[c] # "starting", TRUE)
      BY <2>3 DEF EnsureFails
    <3>2. failure \in R!Failures /\ (phase[c] # "starting") \in BOOLEAN
      BY DEF MayFail
    <3>3. PICK r, p : /\ request' = [request EXCEPT ![c] = r] /\ phase' = [phase EXCEPT ![c] = p]
                      /\ p = phase[c] \/ p \in Errors
      BY <3>1, <3>2, Attempted
    <3>. QED
      BY <1>2, <3>3 DEF OnFiles, Waiting, Errors
  <2>4. CASE Ensure(c)
    <3>1. PICK p \in {"ready", "checking"} : MoveTo(c, p) /\ UNCHANGED request
      BY <2>4 DEF Ensure
    <3>. QED
      BY <2>1, <3>1 DEF MoveTo, OnFiles
  <2>5. CASE Look(c)
    <3>1. PICK p : MoveTo(c, p) /\ p \in {"ready", "starting", "ArrowbricksError", "waiting"}
      <4>. DEFINE p == CASE warehouse = "running" -> "ready"
                         [] warehouse = "stopped" /\ StartsStopped(c) -> "starting"
                         [] warehouse = "deleted" -> "ArrowbricksError"
                         [] OTHER -> "waiting"
      <4>1. MoveTo(c, p)
        BY <2>5 DEF Look
      <4>2. p \in {"ready", "starting", "ArrowbricksError", "waiting"}
        OBVIOUS
      <4>. HIDE DEF p
      <4>. QED
        BY <4>1, <4>2
    <3>. QED
      BY <2>5, <3>1 DEF Look, Fresh, MoveTo, OnFiles
  <2>6. CASE StartWarehouse(c) \/ EnsureDropped(c)
    BY <2>6 DEF StartWarehouse, EnsureDropped, Fresh, MoveTo, OnFiles
  <2>7. CASE GiveUpWaiting(c) \/ StatementEnds(c)
    <3>1. PICK p \in {"ready", "succeeded", "ArrowbricksError"} : MoveTo(c, p) /\ UNCHANGED request
      BY <2>7 DEF GiveUpWaiting, StatementEnds
    <3>. QED
      BY <2>1, <3>1 DEF MoveTo, OnFiles
  <2>. QED
    BY <2>2, <2>3, <2>4, <2>5, <2>6, <2>7 DEF QueryMoves, EnsureStep
<1>5. PICK r, p : /\ request' = [request EXCEPT ![c] = r]
                  /\ phase' = [phase EXCEPT ![c] = p]
                  /\ p \notin OnFiles
  BY <1>4
<1>6. /\ phase'[c] = p
      /\ \A d \in Calls \ {c} : UNCHANGED <<phase[d], request[d], wants[d], told[d]>>
  BY <1>5, RequestOf DEF volumeVars
<1>7. FilesShape' /\ FileInv(c)' /\ took \subseteq took'
  BY <1>1, <1>3, <1>5, <1>6 DEF FilesShape, FileInv, volumeVars
<1>. QED
  BY <1>6, <1>7, FileStep

\* What the server does for a call.
LEMMA HandledFor ==
  ASSUME FilesInv, NEW c \in Calls, wants[c] # "nothing",
         Handled(c) \/ UNCHANGED <<wants, place, took>>
  PROVE  /\ place' \in Places /\ took' \subseteq Calls /\ took \subseteq took' /\ UNCHANGED wants
         /\ Handled(c) /\ ~NotFound(c) => c \in took'
<1>1. wants[c] \in Places /\ place \in Places /\ took \subseteq Calls
  BY DEF FilesInv, Places
<1>. QED
  BY <1>1 DEF Handled

LEMMA VolumeFilesKept ==
  ASSUME RequestsInv, FilesInv, NEW c \in Calls,
         StartVolume(c) \/ VolumeStep(c) \/ VolumeDropped(c)
  PROVE  FilesInv'
<1>1. FilesShape /\ FileInv(c) /\ phase \in [Calls -> Phases] /\ request \in [Calls -> RequestStates]
  BY FileByFile, RequestOf
<1>2. CASE StartVolume(c)
  <2>1. PICK w \in {"file", "no file"} : wants' = [wants EXCEPT ![c] = w]
    BY <1>2 DEF StartVolume
  <2>2. phase' = [phase EXCEPT ![c] = "on_file"] /\ UNCHANGED <<request, place, took, told>>
    BY <1>2 DEF StartVolume, MoveTo
  <2>3. wants'[c] = w /\ phase'[c] = "on_file" /\ FilesShape'
        /\ \A d \in Calls \ {c} : UNCHANGED <<phase[d], request[d], wants[d], told[d]>>
    BY <1>1, <2>1, <2>2 DEF FilesShape
  <2>4. FileInv(c)'
    BY <1>1, <2>2, <2>3 DEF FileInv, OnFiles
  <2>. QED
    BY <2>2, <2>3, <2>4, FileStep
<1>3. ASSUME VolumeStep(c) \/ VolumeDropped(c) PROVE wants[c] \in {"file", "no file"} /\ phase[c] = "on_file"
  BY <1>1, <1>3 DEF VolumeStep, VolumeToken, VolumeAnswered, VolumeFails, VolumeDropped, FileInv, OnFiles
<1>4. CASE VolumeToken(c)
  <2>1. PICK r, p : /\ request' = [request EXCEPT ![c] = r] /\ phase' = [phase EXCEPT ![c] = p]
                    /\ p \in {phase[c], "AuthError"}
    BY <1>4, TokenAsked DEF VolumeToken
  <2>2. wants[c] \in {"file", "no file"} /\ phase[c] = "on_file" /\ UNCHANGED volumeVars
    BY <1>3, <1>4 DEF VolumeStep, VolumeToken
  <2>3. /\ phase'[c] = p /\ FilesShape'
        /\ \A d \in Calls \ {c} : UNCHANGED <<phase[d], request[d], wants[d], told[d]>>
    BY <1>1, <2>1, <2>2 DEF FilesShape, volumeVars
  <2>4. FileInv(c)'
    BY <1>1, <2>1, <2>2, <2>3 DEF FileInv, OnFiles, Ended, Errors, volumeVars
  <2>. QED
    BY <2>2, <2>3, <2>4, FileStep DEF volumeVars
<1>5. CASE VolumeAnswered(c)
  <2>. DEFINE answer == IF NotFound(c) THEN "not found" ELSE "done"
  <2>0. wants[c] \in {"file", "no file"} /\ phase[c] = "on_file"
    BY <1>3, <1>5 DEF VolumeStep
  <2>1. Handled(c) /\ told' = [told EXCEPT ![c] = answer]
    BY <1>5 DEF VolumeAnswered, Tell
  <2>2. /\ place' \in Places /\ took' \subseteq Calls /\ took \subseteq took' /\ UNCHANGED wants
        /\ ~NotFound(c) => c \in took'
    BY <2>0, <2>1, HandledFor
  <2>3. /\ told'[c] = answer /\ FilesShape'
        /\ \A d \in Calls \ {c} : UNCHANGED <<wants[d], told[d]>>
    BY <1>1, <2>1, <2>2 DEF FilesShape
  <2>4. CASE NotFound(c) /\ ~NotFoundIsFine(c)
    <3>1. Fail(c, "refused", TRUE, FALSE)
      BY <1>5, <2>4 DEF VolumeAnswered
    <3>2. ErrorOf("refused", TRUE) = "ArrowbricksError"
      BY DEF ErrorOf, R!Transient
    <3>3. phase' = [phase EXCEPT ![c] = "ArrowbricksError"]
          /\ \E r : request' = [request EXCEPT ![c] = r]
      BY <3>1, <3>2 DEF Fail, MoveTo
    <3>4. /\ phase'[c] = "ArrowbricksError"
          /\ \A d \in Calls \ {c} : UNCHANGED <<phase[d], request[d]>>
      BY <1>1, <3>3
    <3>5. wants[c] = "file" /\ told'[c] = "not found"
      BY <2>0, <2>3, <2>4 DEF NotFoundIsFine
    <3>6. FileInv(c)'
      BY <2>2, <3>4, <3>5 DEF FileInv, OnFiles, Ended, Errors
    <3>. QED
      BY <2>2, <2>3, <3>4, <3>6, FileStep
  <2>5. CASE ~(NotFound(c) /\ ~NotFoundIsFine(c))
    <3>1. phase' = [phase EXCEPT ![c] = "succeeded"] /\ request' = [request EXCEPT ![c] = FreshRequest]
      BY <1>5, <2>5 DEF VolumeAnswered, MoveTo, Fresh
    <3>2. /\ phase'[c] = "succeeded"
          /\ \A d \in Calls \ {c} : UNCHANGED <<phase[d], request[d]>>
      BY <1>1, <3>1
    <3>3. c \in took' \/ (wants[c] = "no file" /\ told'[c] = "not found")
      BY <2>2, <2>3, <2>5 DEF NotFoundIsFine
    <3>4. told'[c] \in {"done", "not found"}
      BY <2>3
    <3>5. FileInv(c)'
      BY <2>0, <2>2, <3>2, <3>3, <3>4 DEF FileInv, OnFiles, Ended, Errors
    <3>. QED
      BY <2>2, <2>3, <3>2, <3>5, FileStep
  <2>. QED
    BY <2>4, <2>5
<1>6. CASE VolumeFails(c)
  <2>0. wants[c] \in {"file", "no file"} /\ phase[c] = "on_file"
    BY <1>3, <1>6 DEF VolumeStep
  <2>1. PICK failure \in MayFail(c) :
          /\ AttemptFails(c, failure, TRUE, FALSE)
          /\ IF failure = "refused" THEN Tell(c, "refused") ELSE UNCHANGED told
          /\ Handled(c) \/ UNCHANGED <<wants, place, took>>
    BY <1>6 DEF VolumeFails
  <2>2. failure \in R!Failures
    BY DEF MayFail
  <2>3. PICK r, p : /\ request' = [request EXCEPT ![c] = r]
                    /\ phase' = [phase EXCEPT ![c] = p]
                    /\ p = phase[c] \/ p \in Errors
                    /\ p = "ArrowbricksError" /\ p # phase[c] /\ r.from = "status" /\ TRUE =>
                         failure = "refused"
    <3>1. TRUE \in BOOLEAN /\ FALSE \in BOOLEAN /\ AttemptFails(c, failure, TRUE, FALSE)
      BY <2>1
    <3>. QED
      BY <2>2, <3>1, Attempted
  <2>4. place' \in Places /\ took' \subseteq Calls /\ took \subseteq took' /\ UNCHANGED wants
    BY <2>0, <2>1, HandledFor
  <2>5. PICK answer \in {told[c], "refused"} :
          told' = [told EXCEPT ![c] = answer] /\ (failure = "refused" => answer = "refused")
    BY <1>1, <2>1 DEF Tell, FilesShape
  <2>6. /\ phase'[c] = p /\ request'[c] = r /\ told'[c] = answer /\ FilesShape'
        /\ \A d \in Calls \ {c} : UNCHANGED <<phase[d], request[d], wants[d], told[d]>>
    BY <1>1, <2>3, <2>4, <2>5 DEF FilesShape
  <2>7. FileInv(c)'
    <3>1. told'[c] \in {"nothing", "done", "not found", "refused"}
      BY <1>1, <2>5, <2>6 DEF FileInv
    <3>2. p # "succeeded" /\ (p = "ArrowbricksError" /\ r.from = "status" => answer = "refused")
      BY <2>0, <2>3, <2>5 DEF Errors
    <3>3. p \in OnFiles \cup Ended
      BY <2>0, <2>3 DEF OnFiles, Ended
    <3>. QED
      BY <2>0, <2>4, <2>6, <3>1, <3>2, <3>3 DEF FileInv
  <2>. QED
    BY <2>4, <2>6, <2>7, FileStep
<1>7. CASE VolumeDropped(c)
  <2>0. wants[c] \in {"file", "no file"} /\ phase[c] = "on_file"
    BY <1>3, <1>7
  <2>1. place' \in Places /\ took' \subseteq Calls /\ took \subseteq took' /\ UNCHANGED <<wants, told>>
    BY <1>7, <2>0, HandledFor DEF VolumeDropped
  <2>2. phase' = [phase EXCEPT ![c] = "cancelled"] /\ request' = [request EXCEPT ![c] = FreshRequest]
    BY <1>7 DEF VolumeDropped, MoveTo, Fresh
  <2>3. /\ phase'[c] = "cancelled" /\ FilesShape'
        /\ \A d \in Calls \ {c} : UNCHANGED <<phase[d], request[d], wants[d], told[d]>>
    BY <1>1, <2>1, <2>2 DEF FilesShape
  <2>4. FileInv(c)'
    BY <1>1, <2>0, <2>1, <2>3 DEF FileInv, OnFiles, Ended, Errors
  <2>. QED
    BY <2>1, <2>3, <2>4, FileStep
<1>. QED
  BY <1>2, <1>4, <1>5, <1>6, <1>7 DEF VolumeStep

\* Others write to the path, or what happens is not about files.
LEMMA FilesAround ==
  ASSUME FilesInv, UNCHANGED <<phase, request, wants, took, told>>, place' \in Places
  PROVE  FilesInv'
<1>1. FilesShape /\ \A c \in Calls : FileInv(c)
  BY FileByFile
<1>2. FilesShape' /\ \A c \in Calls : FileInv(c)'
  BY <1>1, FileKeeps DEF FilesShape
<1>. QED
  BY <1>2, FileByFileNext

LEMMA InitFiles == Init => FilesInv
  BY DEF Init, RequestsInit, VolumeInit, FilesInv, Places, KindsInv, FileAnswersHold, OnFiles

LEMMA NextFiles == RequestsInv /\ FilesInv /\ [Next]_vars => FilesInv'
<1>. SUFFICES ASSUME RequestsInv, FilesInv, [Next]_vars PROVE FilesInv'
  OBVIOUS
<1>0. place \in Places
  BY DEF FilesInv
<1>1. ASSUME NEW c \in Calls, QueryMoves(c), UNCHANGED volumeVars PROVE FilesInv'
  BY <1>1, QueryFiles
<1>2. ASSUME NEW c \in Calls, StartVolume(c) \/ VolumeStep(c) \/ VolumeDropped(c) PROVE FilesInv'
  BY <1>2, VolumeFilesKept
<1>3. ASSUME UNCHANGED <<phase, request, volumeVars>> PROVE FilesInv'
  BY <1>0, <1>3, FilesAround DEF volumeVars
<1>4. ASSUME Rotate \/ \E l \in Loops : CloseLoop(l), UNCHANGED volumeVars PROVE FilesInv'
  BY <1>3, <1>4 DEF Rotate, CloseLoop
<1>5. ASSUME OtherWrites, UNCHANGED requestVars PROVE FilesInv'
  BY <1>5, FilesAround DEF OtherWrites, requestVars
<1>. QED
  BY <1>1, <1>2, <1>3, <1>4, <1>5 DEF Next, vars, requestVars

-----------------------------------------------------------------------------
(* The invariant                                                            *)

LEMMA CallsInvariance == Spec => []CallsInv
<1>1. Init => CallsInv
  BY InitRequests, InitFiles DEF CallsInv
<1>2. CallsInv /\ [Next]_vars => CallsInv'
  BY NextRequests, NextFiles DEF CallsInv
<1>. QED
  BY <1>1, <1>2, PTL DEF Spec

\* What runs in Python for a call, its token provider and its on_event, runs on
\* the loop of its caller as long as that loop is open (LoopResolver of lib.rs,
\* in_call_context of client/call_context.rs), for any number of calls and loops.
THEOREM CallersLoopIsFound == Spec => []CallersLoop
  BY CallsInvariance, PTL DEF CallsInv, RequestsInv

\* A TransientError has survived every retry, and so has an AuthError the server
\* is the cause of, with a token that was asked for after the last failure
\* (retry_call_tracked), for any number of attempts.
THEOREM ErrorsAreAlwaysEarned == Spec => []ErrorsAreEarned
  BY CallsInvariance, PTL DEF CallsInv, RequestsInv

\* However the answers to an upload or a removal were lost, and whatever others
\* do to the path, a success has happened, and an error the server's status is
\* the cause of was the server's refusal and no trace of the call's own work
\* (upload_volume_file, delete_volume_file, retry_call).
THEOREM FileAnswersAlwaysHold == Spec => []FileAnswersHold
  BY CallsInvariance, PTL DEF CallsInv, FilesInv

=============================================================================
