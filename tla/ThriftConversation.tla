-------------------------- MODULE ThriftConversation --------------------------
(***************************************************************************)
(* What the client makes of the server's replies in the conversation about  *)
(* one statement: submit_thrift_and_start_fetch up to ThriftStatementReady,  *)
(* and thrift_fetch_results_raw.  Every call is written and every reply read *)
(* word by word; ThriftFetch sees what comes out.                            *)
(***************************************************************************)
EXTENDS ThriftServer

\* thrift_open_session_raw, thrift_execute_statement_raw and
\* thrift_get_operation_status_raw: what each makes of a reply.
OpenSession(extra) ==
  Then(ParseReply(OpenSessionResp, OpenSessionReply(extra)), LAMBDA resp, rest :
    IF StatusError(resp[1]) \/ 3 \notin DOMAIN resp THEN Broken ELSE Got(resp[3], rest))

ExecuteStatement(session, answers, direct, extra) ==
  LET call == BuildExecuteStatement(session, 0, <<0>>)
  IN  Then(ParseReply(ExecuteStatementResp, ExecuteStatementReply(call, answers, direct, extra)), LAMBDA resp, rest :
        IF StatusError(resp[1]) \/ 2 \notin DOMAIN resp THEN Broken ELSE Got(resp, rest))

Finishes(handle, extra) ==
  LET polled == ParseReply(OperationStatusResp, GetOperationStatusReply(BuildGetOperationStatus(handle), extra))
  IN  polled.ok /\ ~TerminalError(polled.value) /\ IsFinished(polled.value)

\* (row_set, has_more)
Contents(fr) ==
  LET rows == FieldOr(fr, 3, <<>>)
  IN  [inline  |-> FieldOr(rows, 1281, <<>>) # <<>>,
       links   |-> Len(FieldOr(rows, 1282, <<>>)),
       hasMore |-> FieldOr(fr, 2, 0) # 0]

Accepted(resp, extra) ==
  LET direct == FieldOr(resp, 1281, <<>>)
      state  == FieldOr(direct, 1, <<>>)
      first  == FieldOr(direct, 3, <<>>)
  IN  /\ state # <<>> => ~TerminalError(state)
      /\ first # <<>> => ~StatusError(first[1])
      /\ (state # <<>> /\ IsFinished(state)) \/ Finishes(resp[2], extra)

\* ThriftStatementReady
StatementReady(handle, direct) ==
  LET first == FieldOr(direct, 3, <<>>)
  IN  [ok        |-> TRUE,
       operation |-> handle,
       initial   |-> IF 3 \in DOMAIN first THEN <<Contents(first)>> ELSE <<>>,
       confirmed |-> 2 \in DOMAIN direct \/ 1281 \in DOMAIN first]

Submission(answers, direct, extra) ==
  LET session == OpenSession(extra)
      resp    == Then(session, LAMBDA handle, rest : ExecuteStatement(handle, answers, direct, extra))
  IN  IF resp.ok /\ Accepted(resp.value, extra)
      THEN StatementReady(resp.value[2], FieldOr(resp.value, 1281, <<>>))
      ELSE Broken

\* With any of the direct results.
ThriftSubmissions(answers) ==
  {Submission(answers, direct, extra) : direct \in DirectChoices, extra \in Extras}

\* thrift_fetch_results_raw has an answer: it is refused, or it is a response.
Understood(reply) ==
  LET fr == ParseReply(FetchResultsResp, reply)
  IN  IF ~fr.ok \/ StatusError(fr.value[1])
      THEN Broken
      ELSE [ok |-> TRUE, contents |-> Contents(fr.value), metadata |-> 1281 \in DOMAIN fr.value]

ThriftFetches(handle, answers, n) ==
  {Understood(FetchResultsReply(BuildFetchResults(handle), answers, n, extra)) : extra \in Extras}

ThriftDamages(handle, answers, n) ==
  {Understood(reply) : reply \in DamagedReplies(BuildFetchResults(handle), answers, n)}
=============================================================================
