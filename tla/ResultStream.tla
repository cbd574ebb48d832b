----------------------------- MODULE ResultStream -----------------------------
(***************************************************************************)
(* ResultStream of pipeline/sea.rs under the calls of a PyResultSet: the    *)
(* chunks a source delivers in order are pulled in batches, decoded on      *)
(* blocking threads, buffered as record batches and handed out by           *)
(* fetchmany/fetchall.  A call can be abandoned wherever it is suspended,   *)
(* a streamed call is a task of its own watched by a HeartbeatWait, and     *)
(* whatever a call leaves behind is met by the next one.                    *)
(*                                                                         *)
(* The source is only what OrderedDelivery promises of it (ChunkFetch shows *)
(* that the SEA pool keeps that promise).  Rows are numbered through the    *)
(* result, a record batch is a run of them; a chunk decodes to one batch.   *)
(* The empty batch of a chunk without rows is left out of the buffer: it    *)
(* brings nothing but the schema.                                           *)
(***************************************************************************)
EXTENDS Integers, Sequences

CONSTANTS
  Plain,                  \* calls of fetchmany_arrow and fetchall_arrow
  Streamed,               \* calls of fetchall_arrow_streamed
  Wants,                  \* the row counts fetchmany is called with
  Results,                \* the results a statement may turn out to have
  Everything,             \* usize::MAX, the want of fetchall
  MaxChunksPerFetchBatch

\* The rows of the first k batches or chunks of s.
RowsUpTo(s) ==
  LET rows[k \in 0..Len(s)] == IF k = 0 THEN 0 ELSE rows[k - 1] + s[k].rows
  IN  rows

RowCount(s) == RowsUpTo(s)[Len(s)]

ASSUME CallsAssumption == Plain \cap Streamed = {} /\ Wants \subseteq Nat
\* Of each chunk, in result order: the rows it decodes to, and its row_count
\* in the manifest (0 when missing).
ASSUME ResultsAssumption ==
  /\ Results \subseteq Seq([rows : Nat, estimate : Nat])
  /\ MaxChunksPerFetchBatch \in Nat \ {0}
\* No result has as many rows as a usize can count.
ASSUME EverythingAssumption ==
  /\ Everything \in Nat
  /\ \A r \in Results : RowCount(r) < Everything

Calls == Plain \cup Streamed

VARIABLES
  chunks,       \* the result of the statement
  pulled,       \* history: the chunks ReorderBuffer::next has returned
  source,       \* what it has last said: reading, done, failed
  pending,      \* ResultStream.pending
  pendingRows,  \* ResultStream.pending_rows
  exhausted,    \* ResultStream.exhausted
  poisoned,     \* ResultStream.poisoned
  schema,       \* ResultStream.schema: known, or what its columns make of it
  handles,      \* decode_handles of the running fetch_at_least, as chunks
  estimated,    \* its estimated_new_rows
  call,         \* where each call stands
  want,         \* its want_rows
  result,       \* the batches a completed call has taken off the buffer
  wait,         \* the HeartbeatWait of a streamed call
  hint,         \* QueryStatsAccumulator.outcome
  reports       \* the outcomes StatsReporter has sent to the event sink

sourceVars == <<chunks, pulled, source>>
bufferVars == <<pending, pendingRows, schema>>
fetchVars  == <<handles, estimated>>
callVars   == <<call, want, result, wait>>
statsVars  == <<hint, reports>>
vars == <<sourceVars, bufferVars, exhausted, poisoned, fetchVars, callVars, statsVars>>

\* The rows of the first n chunks.
RowsBefore(n) == RowsUpTo(chunks)[n]
TotalRows == RowCount(chunks)

ChunkBlobs == [index : DOMAIN chunks, link : {1}]

Source == INSTANCE OrderedDelivery WITH
  blobs <- ChunkBlobs, delivered <- pulled, reader <- source

Fetching == {"pulling", "decoding"}
\* A streamed task that has ended is "ready" or "error" until a tick sees it.
Over == {"ready", "error", "answered", "failed", "abandoned"}
Outcomes == {"success", "error", "cancelled", "timeout"}

\* Known from Thrift's metadata or a decoded batch; otherwise the columns of
\* the manifest give one, cannot be converted, or are missing.
Schemas == {"known", "typed", "untypable", "none"}

Batches == [first : 0..TotalRows, rows : 1..TotalRows]

TypeOK ==
  /\ chunks \in Results
  /\ pulled \in Seq(ChunkBlobs)
  /\ source \in {"reading", "done", "failed"}
  /\ pending \in Seq(Batches)
  /\ pendingRows \in Nat
  /\ exhausted \in BOOLEAN
  /\ poisoned \in BOOLEAN
  /\ schema \in Schemas
  /\ handles \in Seq(DOMAIN chunks)
  /\ estimated \in Nat
  /\ call \in [Calls -> {"new", "waiting"} \cup Fetching \cup Over]
  /\ want \in [Calls -> Wants \cup {Everything}]
  /\ result \in [Calls -> Seq(Batches)]
  /\ wait \in [Streamed -> {"none", "live", "expiring", "dropped", "closed"}]
  /\ hint \in {"unset", "cancelled", "timeout"}
  /\ reports \in Seq(Outcomes)

Init ==
  /\ chunks \in Results
  /\ Source!Init
  /\ pending = <<>> /\ pendingRows = 0
  /\ schema \in Schemas
  /\ exhausted = FALSE
  /\ poisoned = FALSE
  /\ handles = <<>> /\ estimated = 0
  /\ call = [c \in Calls |-> "new"]
  /\ want = [c \in Calls |-> Everything]
  /\ result = [c \in Calls |-> <<>>]
  /\ wait = [c \in Streamed |-> "none"]
  /\ hint = "unset"
  /\ reports = <<>>

Become(c, state) == call' = [call EXCEPT ![c] = state]

-----------------------------------------------------------------------------
(* Mutants                                                                  *)

\* The straddling batch goes back whole instead of its tail.
RestUnsliced(s, n) ==
  SelectSeq(s, LAMBDA b : b.first + b.rows > s[1].first + n)

\* The guard only reports.
LeavePoisonNot == UNCHANGED poisoned

\* Success as soon as the source has ended, before the last decode.
PullEndReporting(c) ==
  /\ UNCHANGED chunks
  /\ Source!End
  /\ exhausted' = TRUE
  /\ reports' = IF reports = <<>> THEN <<"success">> ELSE reports
  /\ UNCHANGED <<bufferVars, poisoned, fetchVars, callVars, hint>>

\* The manifest's columns are not looked at.
SchemaUnresolved == schema

\* An overrun is only noticed by dropping the wait.
AbortedOnDropOnly(c) == wait[c] = "dropped"

\* A source that has ended is asked again.
PullsMoreForever(c) ==
  /\ pendingRows + estimated < want[c]
  /\ Len(handles) < MaxChunksPerFetchBatch

-----------------------------------------------------------------------------
(* The buffer: take                                                         *)

Min2(a, b) == IF a <= b THEN a ELSE b

\* How many batches the loop pops: it goes on while rows are missing.
Popped(s, n) ==
  CHOOSE k \in 0..Len(s) :
    /\ \A j \in 1..k : RowsUpTo(s)[j - 1] < n
    /\ k < Len(s) => n <= RowsUpTo(s)[k]

\* RecordBatch::slice
Slice(b, offset, rows) == [first |-> b.first + offset, rows |-> rows]

FirstRows(s, n) ==
  [k \in 1..Popped(s, n) |-> Slice(s[k], 0, Min2(s[k].rows, n - RowsUpTo(s)[k - 1]))]

\* The tail of the last batch popped goes back to the front.
RestOfRows(s, n) ==
  LET k    == Popped(s, n)
      over == RowsUpTo(s)[k] - n
      rest == SubSeq(s, k + 1, Len(s))
  IN  IF k > 0 /\ over > 0 THEN <<Slice(s[k], s[k].rows - over, over)>> \o rest ELSE rest

RowsTaken(n) == Min2(n, pendingRows)

Take(c) ==
  /\ result' = [result EXCEPT ![c] = FirstRows(pending, want[c])]
  /\ pending' = RestOfRows(pending, want[c])
  /\ pendingRows' = pendingRows - RowsTaken(want[c])

-----------------------------------------------------------------------------
(* Reporting and poisoning                                                  *)

\* StatsReporter::finish: the first outcome wins.
Finish(outcome) == reports' = IF reports = <<>> THEN <<outcome>> ELSE reports

\* QueryStatsAccumulator::store_outcome_if_unset, from the cancel hook.
StoreHint(outcome) == hint' = IF hint = "unset" THEN outcome ELSE hint

LeavePoison == poisoned' = TRUE

\* What ends with the future of fetch_at_least: its handles and its guard.
DropFetch ==
  /\ LeavePoison
  /\ handles' = <<>>
  /\ estimated' = 0

\* `return guard.fail(e)': a plain caller is told, a streamed task has ended.
Fail(c) ==
  /\ DropFetch
  /\ Finish("error")
  /\ Become(c, IF c \in Streamed THEN "error" ELSE "failed")
  /\ UNCHANGED <<want, result, wait, hint>>

-----------------------------------------------------------------------------
(* One call of fetchmany_arrow, fetchall_arrow or fetchall_arrow_streamed    *)

\* fetchmany(n), fetchall, or the task spawned by fetchall_arrow_streamed.
Start(c) ==
  /\ call[c] = "new"
  /\ Become(c, "waiting")
  /\ \E n \in (IF c \in Streamed THEN {} ELSE Wants) \cup {Everything} :
       want' = [want EXCEPT ![c] = n]
  /\ wait' = IF c \in Streamed THEN [wait EXCEPT ![c] = "live"] ELSE wait
  /\ UNCHANGED <<sourceVars, bufferVars, exhausted, poisoned, fetchVars, result, statsVars>>

LockFree == \A c \in Calls : call[c] \notin Fetching

\* `inner.lock().await', then the first check of fetch_at_least.
Enter(c) ==
  /\ call[c] = "waiting"
  /\ LockFree
  /\ Become(c, IF ~poisoned THEN "pulling" ELSE IF c \in Streamed THEN "error" ELSE "failed")
  /\ UNCHANGED <<sourceVars, bufferVars, exhausted, poisoned, fetchVars, want, result, wait, statsVars>>

\* The condition of the inner loop: one more chunk before decoding.
PullsMore(c) ==
  /\ pendingRows + estimated < want[c]
  /\ ~exhausted
  /\ Len(handles) < MaxChunksPerFetchBatch

\* The condition of the outer loop.
FetchesMore(c) == pendingRows < want[c] /\ ~exhausted

Pulling(c) == call[c] = "pulling" /\ PullsMore(c)

\* Ok(Some(item)): its decode starts on a blocking thread.
PullChunk(c) ==
  /\ UNCHANGED chunks
  /\ \E blob \in ChunkBlobs :
       /\ Source!Deliver(blob)
       /\ handles' = Append(handles, blob.index)
       /\ estimated' = estimated + chunks[blob.index].estimate
  /\ UNCHANGED <<bufferVars, exhausted, poisoned, callVars, statsVars>>

\* Ok(None)
PullEnd(c) ==
  /\ UNCHANGED chunks
  /\ Source!End
  /\ exhausted' = TRUE
  /\ UNCHANGED <<bufferVars, poisoned, fetchVars, callVars, statsVars>>

\* Err(e)
PullError(c) ==
  /\ UNCHANGED chunks
  /\ Source!Fail
  /\ Fail(c)
  /\ UNCHANGED <<bufferVars, exhausted>>

Pull(c) == Pulling(c) /\ (PullChunk(c) \/ PullEnd(c) \/ PullError(c))

StartDecoding(c) ==
  /\ call[c] = "pulling"
  /\ ~PullsMore(c)
  /\ Become(c, "decoding")
  /\ UNCHANGED <<sourceVars, bufferVars, exhausted, poisoned, fetchVars, want, result, wait, statsVars>>

Decoding(c) == call[c] = "decoding" /\ handles # <<>>

DecodedBatch(i) == [first |-> RowsBefore(i - 1), rows |-> chunks[i].rows]

DecodeOk(c) ==
  /\ pending' = IF chunks[Head(handles)].rows = 0 THEN pending
                ELSE Append(pending, DecodedBatch(Head(handles)))
  /\ pendingRows' = pendingRows + chunks[Head(handles)].rows
  /\ schema' = "known"
  /\ handles' = Tail(handles)
  /\ UNCHANGED <<sourceVars, exhausted, poisoned, estimated, callVars, statsVars>>

\* A corrupt chunk, or a panic on the blocking thread.
DecodeError(c) ==
  /\ Fail(c)
  /\ UNCHANGED <<sourceVars, bufferVars, exhausted>>

Decode(c) == Decoding(c) /\ (DecodeOk(c) \/ DecodeError(c))

BatchDecoded(c) == call[c] = "decoding" /\ handles = <<>>

PullAgain(c) ==
  /\ BatchDecoded(c)
  /\ FetchesMore(c)
  /\ estimated' = 0
  /\ Become(c, "pulling")
  /\ UNCHANGED <<sourceVars, bufferVars, exhausted, poisoned, handles, want, result, wait, statsVars>>

\* empty_manifest_schema: what a result without a single chunk is typed with.
ResolvedSchema == IF exhausted /\ schema = "typed" THEN "known" ELSE schema

\* The end of fetch_at_least and `take', with no suspension between them.
Complete(c) ==
  /\ BatchDecoded(c)
  /\ ~FetchesMore(c)
  /\ ~(exhausted /\ schema = "untypable")
  /\ schema' = ResolvedSchema
  /\ IF exhausted THEN Finish("success") ELSE UNCHANGED reports
  /\ Take(c)
  /\ estimated' = 0
  /\ Become(c, IF c \in Streamed THEN "ready" ELSE "answered")
  /\ UNCHANGED <<sourceVars, exhausted, poisoned, handles, want, wait, hint>>

\* An empty result whose manifest has a type with no Arrow counterpart.
SchemaError(c) ==
  /\ BatchDecoded(c)
  /\ exhausted
  /\ schema = "untypable"
  /\ Fail(c)
  /\ UNCHANGED <<sourceVars, bufferVars, exhausted>>

-----------------------------------------------------------------------------
(* Abandonment                                                              *)

AtAwait(c) == call[c] = "waiting" \/ Pulling(c) \/ Decoding(c)

\* The future is dropped at the await it stands at, and with it the lock and,
\* if it holds the lock, the armed PoisonOnDrop.
DropFuture(c) ==
  /\ AtAwait(c)
  /\ IF call[c] \in Fetching
     THEN DropFetch /\ Finish(IF hint = "unset" THEN "cancelled" ELSE hint)
     ELSE UNCHANGED <<poisoned, fetchVars, reports>>
  /\ Become(c, "abandoned")
  /\ UNCHANGED <<sourceVars, bufferVars, exhausted, want, result, wait, hint>>

\* task.cancel(), asyncio.wait_for
CancelPlain(c) == c \in Plain /\ DropFuture(c)

\* handle.abort() has been called: the task ends at its next suspension.
Aborted(c) == wait[c] \in {"expiring", "dropped"}

AbortTask(c) == c \in Streamed /\ Aborted(c) /\ DropFuture(c)

WaitBecomes(c, state) == wait' = [wait EXCEPT ![c] = state]

SetsWaitOnly == UNCHANGED <<sourceVars, bufferVars, exhausted, poisoned, fetchVars, want, result, reports>>

\* HeartbeatWait::tick finds the task ended; a heartbeat changes nothing.
TickResult(c) ==
  /\ wait[c] = "live"
  /\ call[c] \in {"ready", "error"}
  /\ WaitBecomes(c, "closed")
  /\ Become(c, IF call[c] = "ready" THEN "answered" ELSE "failed")
  /\ SetsWaitOnly
  /\ UNCHANGED hint

\* tick after total_timeout_s, before it looks at the task: hook, abort.
TickOverrun(c) ==
  /\ wait[c] = "live"
  /\ WaitBecomes(c, "expiring")
  /\ StoreHint("timeout")
  /\ SetsWaitOnly
  /\ UNCHANGED call

\* `let _ = handle.await': the timeout is only raised once the task is over.
OverrunRaised(c) ==
  /\ wait[c] = "expiring"
  /\ call[c] \in Over
  /\ WaitBecomes(c, "closed")
  /\ SetsWaitOnly
  /\ UNCHANGED <<call, hint>>

\* abort_on_drop: the iterator is collected or its consumer cancelled.
DropWait(c) ==
  /\ wait[c] = "live"
  /\ WaitBecomes(c, "dropped")
  /\ StoreHint("cancelled")
  /\ SetsWaitOnly
  /\ UNCHANGED call

-----------------------------------------------------------------------------
Proceed(c) ==
  \/ Enter(c)
  \/ StartDecoding(c)
  \/ PullAgain(c)
  \/ Complete(c)
  \/ SchemaError(c)

WatchStep(c) ==
  \/ AbortTask(c)
  \/ TickResult(c)
  \/ TickOverrun(c)
  \/ OverrunRaised(c)
  \/ DropWait(c)

Next ==
  \/ \E c \in Calls : Start(c) \/ Proceed(c) \/ Pull(c) \/ Decode(c)
  \/ \E c \in Plain : CancelPlain(c)
  \/ \E c \in Streamed : WatchStep(c)

Spec == Init /\ [][Next]_vars

\* The runtime polls every task that can go on.  A tick that has begun to wait
\* for an aborted task is polled as well.
TasksRun ==
  /\ \A c \in Calls : WF_vars(Proceed(c))
  /\ \A c \in Streamed : WF_vars(AbortTask(c)) /\ WF_vars(OverrunRaised(c))

FairSpec == Spec /\ TasksRun

\* Every chunk that is waited for comes, or its failure does, and every decode
\* ends (PatientReaderIsAnswered of ChunkFetch).
SourceAnswers == \A c \in Calls : WF_vars(Pull(c)) /\ WF_vars(Decode(c))

-----------------------------------------------------------------------------
(* Properties                                                               *)

RowsOf(b) == b.first .. (b.first + b.rows - 1)
RowsIn(s) == UNION {RowsOf(s[n]) : n \in DOMAIN s}

Ascending(s) ==
  \A m, n \in DOMAIN s : m < n => \A x \in RowsOf(s[m]), y \in RowsOf(s[n]) : x < y

\* A call is given consecutive rows of the result in their order, no row goes
\* to two calls, and what is still buffered follows all that was given (take,
\* fetch_at_least), whoever was abandoned before.
AnswersAreRuns ==
  /\ TypeOK
  /\ \A c \in Calls :
       /\ Ascending(result[c])
       /\ \A x, y \in RowsIn(result[c]) : x..y \subseteq RowsIn(result[c])
       /\ \A d \in Calls \ {c} : RowsIn(result[c]) \cap RowsIn(result[d]) = {}
       /\ \A x \in RowsIn(result[c]), y \in RowsIn(pending) : x < y
  /\ Ascending(pending)

AnsweredShort(c) == call[c] = "answered" /\ RowCount(result[c]) < want[c]

\* A call that is answered with fewer rows than it asked for has met the end:
\* every row of the result has been taken by some call.  A fetch that was
\* cancelled, timed out or failed on the way never leaves a shorter result
\* behind (PoisonOnDrop).  And it answers with the schema of the result if there
\* is one to be had: an empty result never becomes a table without columns, nor
\* one whose conversion failed in another call (fetch_at_least).
ShortAnswerMeansEnd ==
  (\E c \in Calls : AnsweredShort(c)) =>
    /\ UNION {RowsIn(result[c]) : c \in Calls} = 0..(TotalRows - 1)
    /\ ~poisoned
    /\ schema \in {"known", "none"}

\* The stream is poisoned exactly when its query has been reported as
\* anything but a success, and there is never a second report.
ReportTellsPoison ==
  /\ Len(reports) <= 1
  /\ poisoned = (\E outcome \in Outcomes \ {"success"} : reports = <<outcome>>)
  /\ reports = <<"success">> => source = "done" /\ handles = <<>>

\* A tick that has overrun total_timeout_s raises it, even when the download
\* the aborted task waits for hangs.  When the source answers, every call that was
\* started comes to an end, whatever its predecessors in the lock went through.
CallsEnd ==
  /\ \A c \in Streamed : wait[c] = "expiring" ~> wait[c] = "closed"
  /\ SourceAnswers => \A c \in Calls : call[c] = "waiting" ~> call[c] \in Over

\* "fetch_at_least checking `poisoned` up front turns that into a loud,
\* immediate error": no call is answered short after rows were taken by a call
\* that never handed them to its caller.
LostRowsAreLoud ==
  \A c \in Calls, d \in Streamed :
    AnsweredShort(c) /\ call[d] = "ready" /\ wait[d] \in {"dropped", "closed"} =>
      result[d] = <<>>

-----------------------------------------------------------------------------
(* The inductive invariant behind the three invariants.                     *)

RowRuns == [first : Nat, rows : Nat]

Typed ==
  /\ chunks \in Results
  /\ pulled \in Seq(ChunkBlobs) /\ handles \in Seq(DOMAIN chunks)
  /\ source \in {"reading", "done", "failed"}
  /\ pending \in Seq(RowRuns) /\ pendingRows \in Nat
  /\ exhausted \in BOOLEAN /\ poisoned \in BOOLEAN
  /\ schema \in Schemas
  /\ estimated \in Nat
  /\ call \in [Calls -> {"new", "waiting"} \cup Fetching \cup Over]
  /\ want \in [Calls -> Wants \cup {Everything}]
  /\ result \in [Calls -> Seq(RowRuns)]
  /\ wait \in [Streamed -> {"none", "live", "expiring", "dropped", "closed"}]
  /\ hint \in {"unset", "cancelled", "timeout"}

\* The chunks are pulled in their order, and those pulled last are decoded next.
Decoded == Len(pulled) - Len(handles)

SourceInv ==
  /\ Decoded \in Nat /\ Len(pulled) <= Len(chunks)
  /\ pulled = [n \in 1..Len(pulled) |-> [index |-> n, link |-> 1]]
  /\ handles = [n \in 1..Len(handles) |-> Decoded + n]
  /\ exhausted = (source = "done")
  /\ source = "done" => Len(pulled) = Len(chunks)
  /\ source = "failed" => poisoned

\* One call at a time is in fetch_at_least, and none gets in after a poisoning.
LockInv ==
  /\ \A c, d \in Calls : call[c] \in Fetching /\ call[d] \in Fetching => c = d
  /\ poisoned => LockFree
  /\ LockFree => handles = <<>>

\* After a success no call has anything left to fail at.
ReportInv ==
  /\ reports \in {<<>>} \cup {<<outcome>> : outcome \in Outcomes}
  /\ poisoned = (\E outcome \in Outcomes \ {"success"} : reports = <<outcome>>)
  /\ reports = <<"success">> => exhausted /\ handles = <<>> /\ schema # "untypable"

\* s is the rows from `from' up to, not including, `to'.
Run(s, from, to) ==
  /\ \A k \in 1..Len(s) : s[k].rows > 0
  /\ \A k \in 1..(Len(s) - 1) : s[k + 1].first = s[k].first + s[k].rows
  /\ s = <<>> => from = to
  /\ s # <<>> => s[1].first = from /\ s[Len(s)].first + s[Len(s)].rows = to

Completed(c) == call[c] \in {"ready", "answered"}

\* What has been given ends where the buffer begins, and the buffer ends where
\* the next chunk to be decoded begins.
BufferFrom(front) ==
  /\ Run(pending, front, front + pendingRows)
  /\ front + pendingRows <= TotalRows
  /\ ~poisoned => front + pendingRows = RowsBefore(Decoded)
  /\ UNION {RowsIn(result[c]) : c \in Calls} = 0..(front - 1)

BufferInv ==
  /\ \E front \in 0..TotalRows : BufferFrom(front)
  /\ \A c \in Calls :
       /\ \E from, to \in 0..TotalRows : Run(result[c], from, to)
       /\ ~Completed(c) => result[c] = <<>>
       /\ \A d \in Calls \ {c} : RowsIn(result[c]) \cap RowsIn(result[d]) = {}

ShortInv ==
  \A c \in Calls :
    Completed(c) /\ RowCount(result[c]) < want[c] =>
      /\ exhausted /\ ~poisoned /\ handles = <<>> /\ pendingRows = 0
      /\ schema \in {"known", "none"}

StreamInv == Typed /\ SourceInv /\ LockInv /\ ReportInv /\ BufferInv /\ ShortInv
=============================================================================
