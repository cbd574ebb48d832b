------------------------------ MODULE ThriftWire ------------------------------
(***************************************************************************)
(* thrift.rs: the calls the client writes and the replies it reads.         *)
(*                                                                         *)
(* A message is a sequence of words, one for each primitive a write_ puts   *)
(* into the buffer.  A read_ takes the next word; a word of another width,  *)
(* which in bytes would shift everything behind it, is an error at once.    *)
(* Contents are numbers, a bool is 0 or 1; UTF-8 and the non-strict framing *)
(* no server uses are left out.                                             *)
(***************************************************************************)
EXTENDS Integers, SequencesExt

CONSTANT MaxSkipDepth   \* Reader::MAX_SKIP_DEPTH

ASSUME SkipDepthAssumption == MaxSkipDepth \in Nat \ {0}

\* ttype, its STRING as TEXT
STOP   == 0
BOOL   == 2
BYTE   == 3
DOUBLE == 4
I16    == 6
I32    == 8
I64    == 10
TEXT   == 11
STRUCT == 12
MAP    == 13
SET    == 14
LIST   == 15

\* What a value of a type that does not nest takes up.
Width ==
  BOOL :> "i8" @@ BYTE :> "i8" @@ I16 :> "i16" @@ I32 :> "i32" @@ I64 :> "i64"
    @@ DOUBLE :> "i64" @@ TEXT :> "binary"

VERSION_1 == -2147418112
CALL      == 1
EXCEPTION == 3

-----------------------------------------------------------------------------
(* Writer                                                                   *)

Word(width, value) == [width |-> width, value |-> value]

WriteField(type, id, value) == <<Word("i8", type), Word("i16", id)>> \o value

WriteScalar(type, id, value) == WriteField(type, id, <<Word(Width[type], value)>>)

WriteStruct(fields) == FlattenSeq(fields) \o <<Word("i8", STOP)>>

WriteList(type, values) == <<Word("i8", type), Word("i32", Len(values))>> \o FlattenSeq(values)

\* A map of strings, given as its keys and values in turn.
WriteMap(words) ==
  <<Word("i8", TEXT), Word("i8", TEXT), Word("i32", Len(words) \div 2)>>
    \o [n \in DOMAIN words |-> Word("binary", words[n])]

WriteMessage(type, body) ==
  <<Word("i32", VERSION_1 + type), Word("binary", 0), Word("i32", 0)>> \o body

-----------------------------------------------------------------------------
(* Reader                                                                   *)

Broken == [ok |-> FALSE]

Got(value, rest) == [ok |-> TRUE, value |-> value, rest |-> rest]

\* `?'
Then(read, Use(_, _)) == IF read.ok THEN Use(read.value, read.rest) ELSE Broken

\* take: there is always more to come than the end of the message.
Read(width, in) ==
  IF in # <<>> /\ Head(in).width = width THEN Got(Head(in).value, Tail(in)) ELSE Broken

\* Mutant: a message that ends between two fields ends its structs.
ReadFieldBeginLenient(in) ==
  IF in = <<>> THEN Got([type |-> STOP, id |-> 0], <<>>)
  ELSE Then(Read("i8", in), LAMBDA type, rest :
         IF type = STOP THEN Got([type |-> STOP, id |-> 0], rest)
         ELSE Then(Read("i16", rest), LAMBDA id, more : Got([type |-> type, id |-> id], more)))

ReadFieldBegin(in) ==
  Then(Read("i8", in), LAMBDA type, rest :
    IF type = STOP THEN Got([type |-> STOP, id |-> 0], rest)
    ELSE Then(Read("i16", rest), LAMBDA id, more : Got([type |-> type, id |-> id], more)))

\* The types of the elements of a list, of the keys and values of a map.
ReadListBegin(in) ==
  Then(Read("i8", in), LAMBDA type, rest :
    Then(Read("i32", rest), LAMBDA size, more : Got([n \in 1..size |-> type], more)))

\* Mutant: one value for each entry of a map.
ReadMapBeginAsList(in) == Then(Read("i8", in), LAMBDA key, rest : ReadListBegin(rest))

ReadMapBegin(in) ==
  Then(Read("i8", in), LAMBDA key, rest :
    Then(ReadListBegin(rest), LAMBDA types, more : Got(FlattenSeq([n \in DOMAIN types |-> <<key, types[n]>>]), more)))

RECURSIVE SkipBounded(_, _, _), SkipFields(_, _)

SkipEach(types, in, depth) ==
  LET SkipNext(read, type) == Then(read, LAMBDA ignored, rest : SkipBounded(type, rest, depth))
  IN  FoldLeft(SkipNext, Got(0, in), types)

SkipFields(in, depth) ==
  Then(ReadFieldBegin(in), LAMBDA field, rest :
    IF field.type = STOP THEN Got(0, rest)
    ELSE Then(SkipBounded(field.type, rest, depth), LAMBDA ignored, more : SkipFields(more, depth)))

\* Past one value of the type, whatever is inside, down to MAX_SKIP_DEPTH.
SkipBounded(type, in, depth) ==
  LET SkipTypes(types, rest) == SkipEach(types, rest, depth + 1)
  IN  IF depth >= MaxSkipDepth THEN Broken
      ELSE CASE type \in DOMAIN Width -> Read(Width[type], in)
             [] type = STRUCT -> SkipFields(in, depth + 1)
             [] type \in {LIST, SET} -> Then(ReadListBegin(in), SkipTypes)
             [] type = MAP -> Then(ReadMapBegin(in), SkipTypes)
             [] OTHER -> Broken

Skip(type, in) == SkipBounded(type, in, 0)

-----------------------------------------------------------------------------
(* What the `read' functions have in common: a loop over the fields that    *)
(* keeps those it knows by id and type, skips the others and fails at the   *)
(* end when a field is missing.                                             *)

\* A field is a scalar, a struct, a list of structs, or only looked for.
Scalar(type)  == [type |-> type, inner |-> <<>>]
Nested(shape) == [type |-> STRUCT, inner |-> <<shape>>]
ListOf(shape) == [type |-> LIST, inner |-> <<shape>>]
Presence      == [type |-> STRUCT, inner |-> <<>>]

Shape(fields, required) == [fields |-> fields, required |-> required]

FieldOr(struct, id, default) == IF id \in DOMAIN struct THEN struct[id] ELSE default

RECURSIVE ReadFields(_, _, _)

ReadStruct(shape, in) == ReadFields(shape, <<>>, in)

ReadEach(shape, in) ==
  LET ReadNext(read, type) ==
        Then(read, LAMBDA structs, rest :
          Then(ReadStruct(shape, rest), LAMBDA struct, more : Got(Append(structs, struct), more)))
  IN  Then(ReadListBegin(in), LAMBDA types, rest : FoldLeft(ReadNext, Got(<<>>, rest), types))

ReadValue(field, in) ==
  IF field.inner = <<>> THEN Skip(field.type, in)
  ELSE IF field.type = STRUCT THEN ReadStruct(field.inner[1], in)
  ELSE ReadEach(field.inner[1], in)

Knows(shape, field) ==
  field.id \in DOMAIN shape.fields /\ shape.fields[field.id].type = field.type

ReadFields(shape, struct, in) ==
  Then(ReadFieldBegin(in), LAMBDA field, rest :
    CASE field.type = STOP ->
           IF shape.required \subseteq DOMAIN struct THEN Got(struct, rest) ELSE Broken
      [] Knows(shape, field) ->
           Then(ReadValue(shape.fields[field.id], rest), LAMBDA value, more :
             ReadFields(shape, (field.id :> value) @@ struct, more))
      [] OTHER ->
           Then(Skip(field.type, rest), LAMBDA ignored, more : ReadFields(shape, struct, more)))

-----------------------------------------------------------------------------
(* The structs                                                              *)

HandleId == Shape(1 :> Scalar(TEXT) @@ 2 :> Scalar(TEXT), {1, 2})

SessionHandle == Shape(1 :> Nested(HandleId), {1})

OperationHandle ==
  Shape(1 :> Nested(HandleId) @@ 2 :> Scalar(I32) @@ 3 :> Scalar(BOOL) @@ 4 :> Scalar(DOUBLE), {1, 2, 3})

Status == Shape(1 :> Scalar(I32) @@ 5 :> Scalar(TEXT) @@ 6 :> Scalar(TEXT), {})

ArrowBatch == Shape(1 :> Scalar(TEXT) @@ 2 :> Scalar(I64), {1})

ResultLink == Shape(1 :> Scalar(TEXT) @@ 4 :> Scalar(I64), {1})

RowSet == Shape(1281 :> ListOf(ArrowBatch) @@ 1282 :> ListOf(ResultLink), {})

ResultSetMetadata == Shape(1282 :> Scalar(BOOL) @@ 1283 :> Scalar(TEXT), {})

FetchResultsResp ==
  Shape(1 :> Nested(Status) @@ 2 :> Scalar(BOOL) @@ 3 :> Nested(RowSet) @@ 1281 :> Nested(ResultSetMetadata), {1})

OperationStatusResp ==
  Shape(1 :> Nested(Status) @@ 2 :> Scalar(I32) @@ 5 :> Scalar(TEXT) @@ 1281 :> Scalar(TEXT), {1})

DirectResults ==
  Shape(1 :> Nested(OperationStatusResp) @@ 2 :> Nested(ResultSetMetadata)
          @@ 3 :> Nested(FetchResultsResp) @@ 4 :> Presence, {})

ExecuteStatementResp ==
  Shape(1 :> Nested(Status) @@ 2 :> Nested(OperationHandle) @@ 1281 :> Nested(DirectResults), {1})

OpenSessionResp == Shape(1 :> Nested(Status) @@ 3 :> Nested(SessionHandle), {1})

\* status_code::SUCCESS, SUCCESS_WITH_INFO
StatusError(status) == FieldOr(status, 1, 0) \notin {0, 1}

FINISHED == 2
Refused  == {3, 4, 5, 8}   \* CANCELED, CLOSED, ERROR, TIMEDOUT

TerminalError(resp) == StatusError(resp[1]) \/ FieldOr(resp, 2, 0) \in Refused

IsFinished(resp) == FieldOr(resp, 2, 0) = FINISHED

-----------------------------------------------------------------------------
(* The messages                                                             *)

WriteHandleId(h) == WriteStruct(<<WriteScalar(TEXT, 1, h[1]), WriteScalar(TEXT, 2, h[2])>>)

WriteSessionHandle(h) == WriteStruct(<<WriteField(STRUCT, 1, WriteHandleId(h[1]))>>)

\* Mutant: the optional count is always written as a bool.
WriteOperationHandleMistyped(h) ==
  WriteStruct(
    <<WriteField(STRUCT, 1, WriteHandleId(h[1])), WriteScalar(I32, 2, h[2]), WriteScalar(BOOL, 3, h[3]),
      WriteScalar(BOOL, 4, FieldOr(h, 4, 0))>>)

WriteOperationHandle(h) ==
  WriteStruct(
    <<WriteField(STRUCT, 1, WriteHandleId(h[1])), WriteScalar(I32, 2, h[2]), WriteScalar(BOOL, 3, h[3])>>
      \o IF 4 \in DOMAIN h THEN <<WriteScalar(DOUBLE, 4, h[4])>> ELSE <<>>)

BuildCall(request) == WriteMessage(CALL, WriteStruct(<<WriteField(STRUCT, 1, request)>>))

\* The statement with its session, the options of the client and its parameters.
BuildExecuteStatement(session, statement, parameters) ==
  LET Parameter(value) ==
        WriteStruct(<<WriteScalar(TEXT, 2, 0), WriteField(STRUCT, 4, WriteStruct(<<WriteScalar(TEXT, 1, value)>>))>>)
      Native == WriteStruct([n \in 1..5 |-> WriteScalar(BOOL, n, IF n = 4 THEN 0 ELSE 1)])
  IN  BuildCall(WriteStruct(
        <<WriteField(STRUCT, 1, WriteSessionHandle(session)),
          WriteScalar(TEXT, 2, statement),
          WriteField(MAP, 3, WriteMap(<<0, 0>>)),
          WriteScalar(BOOL, 4, 1),
          WriteField(STRUCT, 1281, WriteStruct(<<WriteScalar(I64, 1, 0), WriteScalar(I64, 2, 0)>>)),
          WriteScalar(BOOL, 1282, 1), WriteScalar(BOOL, 1283, 1), WriteScalar(BOOL, 1284, 1),
          WriteField(STRUCT, 1286, Native)>>
          \o IF parameters = <<>> THEN <<>>
             ELSE <<WriteField(LIST, 1288, WriteList(STRUCT, [n \in DOMAIN parameters |-> Parameter(parameters[n])]))>>))

BuildGetOperationStatus(operation) ==
  BuildCall(WriteStruct(<<WriteField(STRUCT, 1, WriteOperationHandle(operation)), WriteScalar(BOOL, 2, 0)>>))

BuildFetchResults(operation) ==
  BuildCall(WriteStruct(
    <<WriteField(STRUCT, 1, WriteOperationHandle(operation)), WriteScalar(I32, 2, 0), WriteScalar(I64, 3, 0),
      WriteScalar(I16, 4, 0), WriteScalar(I64, 1281, 0), WriteScalar(BOOL, 1283, 1)>>))

\* The struct of type `shape' in field `id' of a message that is no exception.
ParseMessage(shape, id, in) ==
  Then(Read("i32", in), LAMBDA header, r1 :
    Then(Read("binary", r1), LAMBDA name, r2 :
      Then(Read("i32", r2), LAMBDA seqid, r3 :
        IF header % 256 = EXCEPTION THEN Broken
        ELSE Then(ReadStruct(Shape(id :> Nested(shape), {id}), r3), LAMBDA result, rest : Got(result[id], rest)))))

ParseReply(shape, in) == ParseMessage(shape, 0, in)
=============================================================================
