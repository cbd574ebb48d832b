----------------------------- MODULE NdjsonStream -----------------------------
(***************************************************************************)
(* stream_query_json: PyNdjsonStreamIter of lib.rs over NdjsonStream of     *)
(* pipeline/ndjson.rs, with the HeartbeatWait of the submission and the     *)
(* HeartbeatStream of the pages (heartbeat.rs).                             *)
(*                                                                         *)
(* The caller asks (__anext__), is told a heartbeat, a page, the end or an  *)
(* error, may cancel what it asked, ask again, or drop the iterator.  The   *)
(* submission and every pull of a page are tasks of their own: they go on   *)
(* between two questions, and an aborted one ends at its next suspension,   *)
(* or before its first poll.                                                *)
(*                                                                         *)
(* The source of chunks is only what OrderedDelivery promises (ChunkFetch,  *)
(* ThriftFetch).  The submission posts one statement and polls it until it   *)
(* ends (InFlight; the inside is SeaStatement and ThriftSubmit).             *)
(***************************************************************************)
EXTENDS NdjsonEncode, InFlight

CONSTANTS
  Results,   \* what a statement may yield
  MaxCancels \* how often the caller cancels what it has asked

\* Of each chunk, the row counts of its record batches; together, all rows.
ASSUME ResultsAssumption == Results \subseteq Seq(Seq(Nat)) /\ MaxCancels \in Nat

VARIABLES
  chunks,       \* the result
  asString,     \* non_finite_as_string
  cut,          \* where arrow-json ends its first write of a page
  pulled,       \* history: the chunks ReorderBuffer::next has returned
  source,       \* reading, done, failed, or dropped with the NdjsonStream
  pending,      \* NdjsonStream.pending
  iter,         \* PyNdjsonStreamState, or dropped
  anext,        \* the __anext__ in progress
  cancels,      \* how many of them the caller has cancelled
  deadline,     \* of total_timeout_s: none, open or passed
  task,         \* the submission or the pull in flight, or its unread outcome
  aborted,      \* handle.abort() has been called on it
  page,         \* the batches of its page
  hook,         \* on_cancel of the HeartbeatStream: none, armed or fired
  hint,         \* QueryStatsAccumulator.outcome
  reports,      \* the outcomes sent to the event sink
  told,         \* how the iterator has ended for its caller
  given         \* history: the pages the caller has been given

sourceVars == <<chunks, pulled, source>>
fixedVars  == <<asString, cut, cancels>>
taskVars   == <<task, aborted, page>>
cancelVars == <<hook, hint>>
callerVars == <<told, given>>
vars == <<sourceVars, asString, cut, pending, iter, anext, cancels, deadline, taskVars, cancelVars, reports,
          inFlightVars, callerVars>>

ChunkBlobs == [index : DOMAIN chunks, link : {1}]

Source == INSTANCE OrderedDelivery WITH
  blobs <- ChunkBlobs, delivered <- pulled, reader <- source

\* The rows of a prefix, of batches or of chunks.
RowsUpTo(sizes) ==
  LET sum[n \in 0..Len(sizes)] == IF n = 0 THEN 0 ELSE sum[n - 1] + sizes[n] IN sum

RowCount(sizes) == RowsUpTo(sizes)[Len(sizes)]

\* The rows of a result are among those that are known.
ASSUME RowsAssumption ==
  \A result \in Results : RowCount([n \in DOMAIN result |-> RowCount(result[n])]) <= Len(Rows)

RowsBefore(i) == RowsUpTo([n \in DOMAIN chunks |-> RowCount(chunks[n])])[i - 1]
TotalRows == RowsBefore(Len(chunks) + 1)

\* decode_chunk_item: the batches of a chunk, as runs of rows.
DecodedBatches(i) ==
  [k \in DOMAIN chunks[i] |->
     [first |-> RowsBefore(i) + RowsUpTo(chunks[i])[k - 1] + 1, rows |-> chunks[i][k]]]

Submission == {"submit", "posting", "polling"}
Pull == {"pull", "pulling", "decoding", "encoding"}
\* How a task may be over before anybody has looked.
Over == {"ready", "page", "end", "error", "gone"}
Outcomes == {"success", "error", "cancelled", "timeout"}

TypeOK ==
  /\ chunks \in Results
  /\ asString \in BOOLEAN /\ cut \in Cuts
  /\ source \in {"reading", "done", "failed", "dropped"}
  /\ iter \in {"pending", "submitting", "running", "done", "dropped"}
  /\ anext \in {"idle", "entered", "waiting", "expiring"}
  /\ cancels \in 0..MaxCancels
  /\ deadline \in {"none", "open", "passed"}
  /\ task \in {"none"} \cup Submission \cup Pull \cup Over
  /\ aborted \in BOOLEAN
  /\ hook \in {"none", "armed", "fired"}
  /\ hint \in {"unset", "cancelled", "timeout"}
  /\ reports \in {<<>>} \cup {<<o>> : o \in Outcomes}
  /\ InFlightTypeOK
  /\ told \in {"nothing", "end", "error", "timeout"}

Init ==
  /\ chunks \in Results
  /\ asString \in BOOLEAN /\ cut \in Cuts
  /\ Source!Init
  /\ pending = <<>>
  /\ iter = "pending" /\ anext = "idle" /\ cancels = 0
  /\ deadline \in {"none", "open"}
  /\ task = "none" /\ aborted = FALSE /\ page = <<>>
  /\ hook = "none" /\ hint = "unset" /\ reports = <<>>
  /\ InFlightInit
  /\ told = "nothing" /\ given = <<>>

-----------------------------------------------------------------------------
(* Statistics and cancellation                                              *)

\* StatsReporter::finish: the first outcome wins.
Finish(outcome) == reports' = IF reports = <<>> THEN <<outcome>> ELSE reports

\* cancel_hook: the hint first, then the request to the server.  The statement
\* has finished before there is a hook, so the request finds nothing running.
Fire(outcome) ==
  IF hook = "armed"
  THEN hook' = "fired" /\ hint' = IF hint = "unset" THEN outcome ELSE hint
  ELSE UNCHANGED cancelVars

\* The last owner of the NdjsonStream is gone, and its receiver with it.
DropStream == source' = IF source = "reading" THEN "dropped" ELSE source

-----------------------------------------------------------------------------
(* Mutants                                                                  *)

LeavesTask == UNCHANGED <<sourceVars, fixedVars, pending, deadline, task, page, reports, inFlightVars, given>>

\* The hook is forgotten when the deadline has passed.
CheckDeadlineUnhinted ==
  /\ anext = "entered"
  /\ anext' = IF deadline = "passed" THEN "expiring" ELSE "waiting"
  /\ aborted' = (aborted \/ deadline = "passed")
  /\ UNCHANGED <<iter, told, cancelVars>>
  /\ LeavesTask

\* The task is only waited for.
CheckDeadlineUnaborted ==
  /\ anext = "entered"
  /\ IF deadline = "passed"
     THEN anext' = "expiring" /\ Fire("timeout")
     ELSE anext' = "waiting" /\ UNCHANGED cancelVars
  /\ UNCHANGED <<iter, told, aborted>>
  /\ LeavesTask

\* The timeout is raised while the aborted task is still there.
RaiseAtOnce ==
  /\ anext = "expiring"
  /\ iter' = "done" /\ told' = "timeout" /\ anext' = "idle"
  /\ UNCHANGED <<aborted, cancelVars>>
  /\ LeavesTask

\* "JoinHandle::drop alone does not abort the task".
DropIterDetached ==
  /\ anext = "idle"
  /\ iter # "dropped"
  /\ iter' = "dropped"
  /\ UNCHANGED <<anext, aborted, cancelVars, told>>
  /\ LeavesTask

-----------------------------------------------------------------------------
(* The iterator: __anext__                                                  *)

TaskIsOver == task \in Over

StartTask(first) == task' = first /\ aborted' = FALSE /\ page' = <<>>

\* Pending: the submission starts, and the time of total_timeout_s with it.
StartSubmission ==
  /\ iter = "pending"
  /\ iter' = "submitting"
  /\ StartTask("submit")

\* tick: a pull is started unless one is in flight.
ResumeOrPull ==
  /\ iter \in {"submitting", "running"}
  /\ UNCHANGED iter
  /\ IF task = "none" THEN StartTask("pull") ELSE UNCHANGED taskVars

Anext ==
  /\ anext = "idle"
  /\ anext' = "entered"
  /\ StartSubmission \/ ResumeOrPull
  /\ UNCHANGED <<sourceVars, fixedVars, pending, deadline, cancelVars, reports, inFlightVars, callerVars>>

\* check_deadline_or_wait: after the deadline, the hook and then the abort.
CheckDeadline ==
  /\ anext = "entered"
  /\ IF deadline = "passed"
     THEN anext' = "expiring" /\ aborted' = TRUE /\ Fire("timeout")
     ELSE anext' = "waiting" /\ UNCHANGED <<aborted, cancelVars>>
  /\ UNCHANGED <<sourceVars, fixedVars, pending, iter, deadline, task, page, reports, inFlightVars, callerVars>>

\* The iterator becomes Done and is told why; what it held is dropped.
Stop(why) ==
  /\ iter' = "done"
  /\ told' = why
  /\ anext' = "idle"
  /\ task' = "none"
  /\ DropStream
  /\ UNCHANGED <<chunks, pulled, fixedVars, pending, deadline, aborted, page, cancelVars, reports,
                 inFlightVars, given>>

\* `let _ = handle.await': the timeout is raised when the task is over.
RaiseTimeout == anext = "expiring" /\ TaskIsOver /\ Stop("timeout")

\* The submission is over: Running, and the first pull without a suspension.
BeginRunning ==
  /\ task = "ready"
  /\ iter' = "running"
  /\ hook' = "armed"
  /\ StartTask("pull")
  /\ anext' = "entered"
  /\ UNCHANGED <<sourceVars, fixedVars, pending, deadline, hint, reports, inFlightVars, callerVars>>

HandOver ==
  /\ task = "page"
  /\ given' = Append(given, page)
  /\ task' = "none"
  /\ anext' = "idle"
  /\ UNCHANGED <<sourceVars, fixedVars, pending, iter, deadline, aborted, page, cancelVars, reports,
                 inFlightVars, told>>

StopAsUsual == task \in {"end", "error"} /\ Stop(task)

TickResult == anext = "waiting" /\ (BeginRunning \/ HandOver \/ StopAsUsual)

OnlyAnext == UNCHANGED <<sourceVars, asString, cut, pending, iter, deadline, taskVars, cancelVars, reports,
                         inFlightVars, callerVars>>

\* The interval is over first: HEARTBEAT, and the task goes on.
Heartbeat == anext = "waiting" /\ anext' = "idle" /\ UNCHANGED cancels /\ OnlyAnext

\* The caller cancels its __anext__ at one of its awaits; the state stays.
CancelAnext ==
  /\ anext \in {"waiting", "expiring"}
  /\ cancels < MaxCancels
  /\ cancels' = cancels + 1
  /\ anext' = "idle"
  /\ OnlyAnext

\* abort_on_drop, with the iterator: the hook only fires for a task in flight,
\* or one whose outcome nobody has read.
DropIter ==
  /\ anext = "idle"
  /\ iter # "dropped"
  /\ iter' = "dropped"
  /\ aborted' = (task # "none")
  /\ IF task # "none" THEN Fire("cancelled") ELSE UNCHANGED cancelVars
  /\ IF task \in {"none"} \cup Over THEN DropStream ELSE UNCHANGED source
  /\ UNCHANGED <<chunks, pulled, fixedVars, pending, anext, deadline, task, page, reports, inFlightVars,
                 callerVars>>

\* Time passes, also while nobody asks.
Expire ==
  /\ deadline = "open"
  /\ iter \in {"submitting", "running"}
  /\ deadline' = "passed"
  /\ UNCHANGED <<sourceVars, fixedVars, pending, iter, anext, taskVars, cancelVars, reports, inFlightVars,
                 callerVars>>

-----------------------------------------------------------------------------
(* The submission                                                           *)

SubmitVars == <<sourceVars, fixedVars, pending, iter, anext, deadline, aborted, page, cancelVars, callerVars>>

\* First poll: the warehouse, a session, and the request that is not repeated.
Submit ==
  /\ task = "submit"
  /\ task' = "posting"
  /\ UNCHANGED <<SubmitVars, reports, inFlightVars>>

StatementAccepted ==
  /\ task = "posting"
  /\ task' = "polling"
  /\ Heard
  /\ UNCHANGED <<SubmitVars, reports>>

SubmitOk ==
  /\ task = "polling" /\ statement = "finished"
  /\ task' = "ready"
  /\ UNCHANGED <<SubmitVars, reports, inFlightVars>>

\* report_submit_error, of a request whose answer may be lost; of a statement that
\* has failed; of a poll that has, which leaves the statement in flight.
SubmitError ==
  /\ \/ task = "posting" /\ Unheard
     \/ task = "polling" /\ statement = "finished" /\ UNCHANGED inFlightVars
     \/ task = "polling" /\ CancelInFlight
  /\ task' = "error"
  /\ Finish("error")
  /\ UNCHANGED SubmitVars

\* The future is dropped: nothing is reported, and what is in flight is cancelled
\* if its handle is known.
AbortSubmission ==
  /\ aborted
  /\ \/ task = "submit" /\ UNCHANGED inFlightVars
     \/ task = "posting" /\ AbandonPost
     \/ task = "polling" /\ CancelInFlight
  /\ task' = "gone"
  /\ UNCHANGED <<SubmitVars, reports>>

ServerFinishes == StatementEnds /\ UNCHANGED <<SubmitVars, task, reports>>

\* What was spawned for the statement goes on by itself.
CleanUp == CleanupStep /\ UNCHANGED <<SubmitVars, task, reports>>

-----------------------------------------------------------------------------
(* A pull: next_chunk                                                       *)

PullVars == <<fixedVars, iter, anext, deadline, aborted, cancelVars, inFlightVars, callerVars>>

\* take_page and the start of encode_ndjson_lines, no suspension between them.
StartEncoding(batches) ==
  /\ task' = "encoding"
  /\ page' = TakePage(batches).page
  /\ pending' = TakePage(batches).rest

\* First poll: the guard is armed; a chunk that is not paged out comes first.
StartPull ==
  /\ task = "pull"
  /\ IF pending = <<>> THEN task' = "pulling" /\ UNCHANGED <<pending, page>> ELSE StartEncoding(pending)
  /\ UNCHANGED <<sourceVars, reports, PullVars>>

\* `return guard.fail(e)'
PullFails == task' = "error" /\ Finish("error")

PullChunk ==
  /\ UNCHANGED chunks
  /\ \E blob \in ChunkBlobs : Source!Deliver(blob)
  /\ task' = "decoding"
  /\ UNCHANGED <<pending, page, reports, PullVars>>

PullEnd ==
  /\ UNCHANGED chunks
  /\ Source!End
  /\ task' = "end"
  /\ Finish("success")
  /\ UNCHANGED <<pending, page, PullVars>>

\* Mutant: a source that failed looks like one that has ended.
PullErrorAsEnd ==
  /\ UNCHANGED chunks
  /\ Source!Fail
  /\ task' = "end"
  /\ UNCHANGED <<pending, page, reports, PullVars>>

PullError ==
  /\ UNCHANGED chunks
  /\ Source!Fail
  /\ PullFails
  /\ UNCHANGED <<pending, page, PullVars>>

PullStep == task = "pulling" /\ (PullChunk \/ PullEnd \/ PullError)

DecodeOk ==
  /\ StartEncoding(DecodedBatches(pulled[Len(pulled)].index))
  /\ UNCHANGED <<sourceVars, reports, PullVars>>

\* A corrupt chunk or page, or a panic on the blocking thread.
WorkFails ==
  /\ PullFails
  /\ UNCHANGED <<sourceVars, pending, page, PullVars>>

DecodeStep == task = "decoding" /\ (DecodeOk \/ WorkFails)

EncodeOk ==
  /\ task' = "page"
  /\ UNCHANGED <<sourceVars, pending, page, reports, PullVars>>

EncodeStep == task = "encoding" /\ (EncodeOk \/ WorkFails)

\* The future is dropped: its ReportOnDrop reports, unless the abort was there
\* before the first poll and there is no guard yet.  A dropped iterator has left
\* the NdjsonStream to the task.
AbortPull ==
  /\ task \in Pull
  /\ aborted
  /\ task' = "gone"
  /\ IF task = "pull" THEN UNCHANGED reports
     ELSE Finish(IF hint = "unset" THEN "cancelled" ELSE hint)
  /\ IF iter = "dropped" THEN DropStream ELSE UNCHANGED source
  /\ UNCHANGED <<chunks, pulled, pending, page, PullVars>>

\* A task whose iterator is gone ends, and lets go of the stream with it.
OrphanEnds ==
  /\ iter = "dropped"
  /\ TaskIsOver
  /\ source = "reading"
  /\ DropStream
  /\ UNCHANGED <<chunks, pulled, fixedVars, pending, iter, anext, deadline, taskVars, cancelVars, reports,
                 inFlightVars, callerVars>>

-----------------------------------------------------------------------------
CallerStep == Anext \/ CancelAnext \/ DropIter
TickStep == CheckDeadline \/ TickResult \/ RaiseTimeout
Abort == AbortSubmission \/ AbortPull
Work == Submit \/ StartPull \/ DecodeStep \/ EncodeStep \/ OrphanEnds
Answer == StatementAccepted \/ ServerFinishes \/ SubmitOk \/ SubmitError \/ PullStep

Next == CallerStep \/ TickStep \/ Heartbeat \/ Expire \/ Abort \/ Work \/ Answer \/ CleanUp

Spec == Init /\ [][Next]_vars

\* The runtime polls ready tasks, an aborted one as well; blocking threads end;
\* an __anext__ that is not cancelled is polled; time passes, for the interval of
\* a heartbeat and for total_timeout_s; the requests of a clean-up have a timeout
\* and bounded retries.  A task that is over and an interval that is over are a
\* random choice of select!, which cannot go one way for ever.
TasksRun ==
  /\ WF_vars(TickStep) /\ SF_vars(TickResult) /\ WF_vars(Abort) /\ WF_vars(Work)
  /\ WF_vars(Heartbeat) /\ WF_vars(Expire) /\ WF_vars(CleanUp)

\* The caller asks again after every answer, for as long as it keeps the
\* iterator.
CallerAsks == WF_vars(Anext)

\* Server and source are only assumed to answer (timeouts and bounded retries,
\* PatientReaderIsAnswered) where there is no total_timeout_s.
SourceAnswers == WF_vars(deadline = "none" /\ Answer)

FairSpec == Spec /\ TasksRun /\ CallerAsks /\ SourceAnswers

-----------------------------------------------------------------------------
(* Properties                                                               *)

\* encode_ndjson_lines, page by page: a pure function of the batches, so it is
\* looked at here and not in the step that hands the page over.
LinesGiven ==
  FlattenSeq([n \in DOMAIN given |-> EncodeNdjsonLines(given[n], cut, asString)])

Sizes(batches) == [n \in DOMAIN batches |-> batches[n].rows]
RowsOf(batches) == RowCount(Sizes(batches))

PageSizes == [n \in DOMAIN given |-> RowsOf(given[n])]
RowsGiven == RowCount(PageSizes)

\* The rows that come next after the first `before'.
RunFrom(batches, before) ==
  \A k \in DOMAIN batches : batches[k].first = before + RowsUpTo(Sizes(batches))[k - 1] + 1

\* The pages the caller has been given are the first rows of the result, each once
\* and in order, however the batches fall on pages.
PagesInOrder ==
  /\ RowsGiven <= TotalRows
  /\ \A n \in DOMAIN given : RunFrom(given[n], RowsUpTo(PageSizes)[n - 1])

\* However batches fall on pages, pieces on lines and pages on questions that
\* were cancelled, what the caller has been given are the lines of the first
\* rows of the result, each row once, in order and with its own values.
LinesAreRows ==
  /\ TypeOK
  /\ PagesInOrder
  /\ LinesGiven = [n \in 1..RowsGiven |-> LineOf(n, asString)]

\* The event sink hears at most one outcome, and one the caller's agrees with.
\* A pull that was given up is never reported as done, nor an overrun as a
\* cancellation.  Where a caller that was too late to read the outcome of a pull
\* is told a timeout, the sink has heard that outcome, or nothing at all.  And an
\* iterator that stops without an exception has given every row: a page lost with a
\* cancelled or failed pull is never followed by a clean end.
ReportAgrees ==
  /\ told = "end" => RowsGiven = TotalRows
  /\ Len(reports) <= 1
  /\ reports = <<"success">> => source = "done" /\ pending = <<>>
  /\ told = "end" => reports = <<"success">>
  /\ told = "error" => reports = <<"error">>
  /\ reports = <<"timeout">> => deadline = "passed" /\ told \in {"nothing", "timeout"}
  /\ reports = <<"cancelled">> => iter = "dropped"

\* When a timeout reaches the caller, nothing of the query is left behind that the
\* client knows of: the task is gone, the download has lost its reader, and a
\* statement that still runs is being cancelled.  Only one whose handle has not
\* arrived, or whose cancellation has failed, may run on.
TimeoutLeavesNothing ==
  told = "timeout" => task = "none" /\ source # "reading" /\ LetGo

\* An iterator that has ended or was dropped lets go of the download, and the
\* statement ends as well, unless it cannot be cancelled: its handle will never
\* reach the client, or the request has failed.
AbandonedStreamLetsGo ==
  iter \in {"done", "dropped"} ~> source # "reading" /\ LetGoForGood

\* A caller that keeps asking comes to an end: because the server answers, or
\* because total_timeout_s is over, wherever the query then hangs.
PatientCallerEnds == iter = "submitting" ~> iter \in {"done", "dropped"}

-----------------------------------------------------------------------------
(* The inductive invariant                                                  *)

Runs == [first : Nat, rows : Nat]

Typed ==
  /\ TypeOK
  /\ pending \in Seq(Runs) /\ page \in Seq(Runs) /\ given \in Seq(Seq(Runs))

\* Which task belongs to which state of the iterator and of its caller; an
\* iterator that is still held aborts only when its time is over.
TaskInv ==
  /\ iter \in {"pending", "done"} => task = "none"
  /\ iter = "submitting" => task \in Submission \cup {"ready", "error", "gone"}
  /\ iter = "running" => task \notin Submission \cup {"ready"}
  /\ anext # "idle" => iter \in {"submitting", "running"} /\ task # "none"
  /\ anext = "waiting" => ~aborted
  /\ anext = "expiring" => aborted
  /\ task = "gone" => aborted
  /\ aborted /\ task # "none" /\ iter # "dropped" => deadline = "passed" /\ hook # "armed"
  /\ told # "nothing" => iter \in {"done", "dropped"} /\ task = "none" /\ source # "reading"
  /\ iter = "pending" \/ task \in {"submit", "posting"} => statement = "none" /\ cleanup = "none"
  /\ task = "polling" => cleanup = "none"
  /\ statement = "running" /\ cleanup = "none" => task = "polling"

\* What the cancel hook has said, and when.
HookInv ==
  /\ iter \in {"pending", "submitting"} => hook = "none"
  /\ iter = "running" => hook # "none"
  /\ hook # "fired" => hint = "unset"
  /\ hook = "fired" => hint # "unset"
  /\ hint = "timeout" => deadline = "passed"
  /\ hint = "cancelled" => iter = "dropped"

\* A query that still goes on has reported nothing.
ReportInv ==
  /\ task \in Submission \cup Pull \cup {"ready", "page"} => reports = <<>>
  /\ task = "none" /\ told = "nothing" => reports = <<>>
  /\ task \in {"pulling", "decoding"} => pending = <<>>
  /\ task = "end" => reports = <<"success">>
  /\ task = "error" => reports = <<"error">>
  /\ told = "end" => reports = <<"success">>
  /\ told = "error" => reports = <<"error">>
  /\ reports = <<"success">> => source = "done" /\ pending = <<>>
  /\ reports = <<"timeout">> => deadline = "passed" /\ told \in {"nothing", "timeout"}
  /\ reports = <<"cancelled">> => iter = "dropped"

SourceInv ==
  /\ pulled = [n \in 1..Len(pulled) |-> [index |-> n, link |-> 1]]
  /\ Len(pulled) \in 0..Len(chunks)
  /\ task = "decoding" => Len(pulled) > 0
  /\ source = "done" => Len(pulled) = Len(chunks)

Decoded == IF task = "decoding" THEN Len(pulled) - 1 ELSE Len(pulled)
InPage == IF task \in {"encoding", "page"} THEN page ELSE <<>>

\* No pull has failed or was given up, and no page was thrown away.
Flowing == task \notin {"error", "gone"} /\ told \in {"nothing", "end"}

\* What was decoded is given, in the page or pending, in this order.
RowsInv ==
  /\ PagesInOrder
  /\ Flowing =>
       /\ RunFrom(InPage, RowsGiven)
       /\ RunFrom(pending, RowsGiven + RowsOf(InPage))
       /\ RowsGiven + RowsOf(InPage) + RowsOf(pending) = RowsBefore(Decoded + 1)

StreamInv == Typed /\ TaskInv /\ HookInv /\ ReportInv /\ SourceInv /\ RowsInv
=============================================================================
