---------------------------- MODULE ThriftServer ----------------------------
(***************************************************************************)
(* The server's end of the Thrift conversation, as thrift.rs and            *)
(* client/thrift_rpc.rs use it: what it reads from a call and the replies   *)
(* it writes.  A later version may put fields into any struct that the      *)
(* client has never heard of.                                               *)
(***************************************************************************)
EXTENDS ThriftWire

CONSTANTS
  Extras,  \* the choices of fields it adds to its structs
  Cuts     \* after how many words a damaged reply may end

\* The handles it gives out.
Session   == 1 :> (1 :> 11 @@ 2 :> 12)
Operation == 1 :> (1 :> 21 @@ 2 :> 22) @@ 2 :> 0 @@ 3 :> 1 @@ 4 :> 5

ServerId(h) == WriteStruct(<<WriteScalar(TEXT, 1, h[1]), WriteScalar(TEXT, 2, h[2])>>)

SUCCESS == 0
ERROR   == 3

ServerStatus(code, extra) == WriteStruct(extra \o <<WriteScalar(I32, 1, code)>>)

Reply(struct) == WriteMessage(2, WriteStruct(<<WriteField(STRUCT, 0, struct)>>))

\* Success first, then what the call was about.
Succeeded(fields, extra) ==
  WriteStruct(<<WriteField(STRUCT, 1, ServerStatus(SUCCESS, extra))>> \o extra \o fields)

Refusal == Reply(WriteStruct(<<WriteField(STRUCT, 1, ServerStatus(ERROR, <<>>))>>))

\* A call is understood when the handle in it is the one given out.
Answer(call, shape, handle, reply) ==
  LET request == ParseMessage(Shape(1 :> Nested(shape), {1}), 1, call)
  IN  IF request.ok /\ request.value[1] = handle THEN Reply(reply) ELSE Refusal

OpenSessionReply(extra) ==
  Reply(Succeeded(<<WriteField(STRUCT, 3, WriteStruct(extra \o <<WriteField(STRUCT, 1, ServerId(Session[1]))>>))>>, extra))

ServerMetadata(extra) ==
  WriteStruct(extra \o <<WriteScalar(BOOL, 1282, 0), WriteScalar(TEXT, 1283, 0)>>)

\* The n-th response of the result.
FetchResultsStruct(answers, n, extra) ==
  LET response == answers[n]
      Batch == WriteStruct(extra \o <<WriteScalar(TEXT, 1, 0), WriteScalar(I64, 2, 1)>>)
      Link  == WriteStruct(<<WriteScalar(TEXT, 1, 0)>> \o extra \o <<WriteScalar(I64, 4, 1)>>)
      Batches  == WriteList(STRUCT, IF response.inline THEN <<Batch>> ELSE <<>>)
      Links    == WriteList(STRUCT, [k \in 1..response.links |-> Link])
      Lists    == <<WriteField(LIST, 1281, Batches)>> \o extra \o <<WriteField(LIST, 1282, Links)>>
      Metadata == IF response.metadata THEN <<WriteField(STRUCT, 1281, ServerMetadata(extra))>> ELSE <<>>
  IN  Succeeded(
        <<WriteScalar(BOOL, 2, IF n < Len(answers) THEN 1 ELSE 0), WriteField(STRUCT, 3, WriteStruct(Lists))>>
          \o Metadata,
        extra)

ServerOperationStatus(extra) == Succeeded(<<WriteScalar(I32, 2, FINISHED)>>, extra)

\* Direct results: any of the state, the metadata and the first response, which
\* only a finished statement has.
DirectChoices ==
  {direct \in SUBSET {"finished", "metadata", "first"} : "first" \in direct => "finished" \in direct}

ServerDirectResults(answers, direct, extra) ==
  LET Given(part, id, struct) == IF part \in direct THEN <<WriteField(STRUCT, id, struct)>> ELSE <<>>
  IN  WriteStruct(
        extra \o Given("finished", 1, ServerOperationStatus(extra))
          \o Given("metadata", 2, ServerMetadata(extra))
          \o Given("first", 3, FetchResultsStruct(answers, 1, extra)))

ExecuteStatementReply(call, answers, direct, extra) ==
  LET Handle == <<WriteField(STRUCT, 1, ServerId(Operation[1]))>> \o extra
                  \o <<WriteScalar(I32, 2, Operation[2]), WriteScalar(BOOL, 3, Operation[3]),
                       WriteScalar(DOUBLE, 4, Operation[4])>>
  IN  Answer(call, SessionHandle, Session,
        Succeeded(
          <<WriteField(STRUCT, 2, WriteStruct(Handle)),
            WriteField(STRUCT, 1281, ServerDirectResults(answers, direct, extra))>>,
          extra))

GetOperationStatusReply(call, extra) ==
  Answer(call, OperationHandle, Operation, ServerOperationStatus(extra))

FetchResultsReply(call, answers, n, extra) ==
  Answer(call, OperationHandle, Operation, FetchResultsStruct(answers, n, extra))

\* Structs in structs, down to where the client gives up.
Nest[depth \in Nat] ==
  IF depth = 0 THEN <<WriteScalar(BOOL, 1, 0)>>
  ELSE <<WriteField(STRUCT, 99, WriteStruct(Nest[depth - 1]))>>

TooDeep == Nest[MaxSkipDepth + 1]

ApplicationException == WriteMessage(EXCEPTION, WriteStruct(<<WriteScalar(TEXT, 1, 0)>>))

\* A reply that ends early, says that something went wrong or nests too deeply.
DamagedReplies(call, answers, n) ==
  LET whole == FetchResultsReply(call, answers, n, <<>>)
  IN  {Refusal, ApplicationException, FetchResultsReply(call, answers, n, TooDeep)}
        \cup {SubSeq(whole, 1, k) : k \in {k \in Cuts : k < Len(whole)}}
=============================================================================
