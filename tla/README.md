# Formal models of arrowbricks

arrowbricks is a Databricks SQL client: a Rust core (`src/rust/arrowbricks_core`)
with a thin Python package (`src/src/arrowbricks`) over it. A statement is
submitted over SEA (REST) or Thrift, its result is downloaded from cloud storage
as numbered chunks by a pool of workers, put back in order, decoded on blocking
threads and handed out as Arrow batches, NDJSON pages or heartbeats while the
caller waits. This directory holds TLA+ models of that core, the TLC
configurations that check them on small instances, and proofs for TLAPS.

Source paths below are relative to `src/rust/arrowbricks_core/src/`.

## The system

| Component | State | Operations | Talks to |
|---|---|---|---|
| Reorder buffer, `pipeline/reorder.rs` | `pending` by chunk index, `next_idx`, `exhausted` | `next` | receives from the channel of a fetch pool; called by ResultStream and the NDJSON stream |
| SEA chunk fetch pool, `client/sea.rs` | shared queue of chunk metadata, bounded channel, worker handles | worker loop, driver | HTTP downloads; sends to the reorder buffer |
| Thrift fetch loop, `pipeline/thrift_exec.rs` | link queue, workers, compression flag | FetchResults loop, download workers, cleanup | as above; CloseOperation, CloseSession |
| ResultStream, `pipeline/sea.rs` | `pending` batches, `pending_rows`, `exhausted`, `poisoned`, `schema` | `fetch_at_least`, `take`, `fetchall_arrow` | reorder buffer, blocking decode threads, stats |
| Heartbeat wait and stream, `heartbeat.rs` | task handle, deadline, closed flag | `tick`, overrun, drop | spawned fetch task, cancel hook |
| Stats and outcome, `pipeline/stats.rs`, `client/model.rs` | outcome hint, finished flag, poison guard | `finish`, `fail`, guard drop | event sink |
| Session pool, `client.rs` | `idle` stacks, `total` counts, two locks | take, reserve, release, put, checkin, drain | Thrift submit, close_all |
| Thrift submit, `pipeline/thrift_exec.rs`, `client/thrift_rpc.rs` | session, guards, retry flag | checkout, submit, poll, checkin, retry, cancel | pool, server |
| SEA statement, `client/sea.rs` | statement id, guards | submit, poll, prefer_inline, cancel | server |
| Retry and warehouse start, `client.rs`, `client/error.rs` | warehouse cache with TTL | `retry_call`, `ensure_warehouse_running` | server, token provider |
| Call context, token provider, event sink, `client/call_context.rs`, `lib.rs` | `last_known` of each LoopResolver | `get_token`, `on_event` | the caller's event loops |
| Volume files, `client/volume.rs` | none | upload, delete | server |
| Thrift wire protocol, `thrift.rs` | none | Writer, Reader, `read` and `write` of each struct, `build_*`, `parse_*` | Thrift submit and fetch loop |
| Downloads, `client/download.rs` | `download_slots`, the permits for requests | whole and ranged GET, LZ4 | cloud storage |
| NDJSON stream, `pipeline/ndjson.rs`, `lib.rs` | page being built, state of the iterator, shared deadline | `__anext__`, next page, encode | reorder buffer, heartbeat stream |
| Agent, `agent/` | renderer, interrupt flag, deadline | query, render, error_json | ResultStream |
| JSON conversion, allocator, Arrow FFI, Python package | none shared | conversions | all of the above |

What is hard here: workers, driver and reader run concurrently and any of them
may fail, panic or be dropped at any await; a caller may be cancelled, time out
or abandon an iterator while a task of its own goes on; a pool is shared under
two locks by queries that are cancelled half way; sessions go stale on the
server. What makes the components correct:

* pool and reorder buffer: each blob once and in order; the end only after the
  last one; a failed worker is never a clean end; abandoned workers stop; a
  reader that keeps asking is answered.
* Thrift fetch: the same for inline batches and links; no link is decompressed on
  a guess that a later response could correct; an abandoned operation is closed.
* ResultStream: whatever sequence of calls and abandonments, the rows handed out
  are consecutive, disjoint runs, and a short answer means the result has ended.
* reporting: one outcome per query, and it agrees with the poison of the stream.
* session pool and Thrift submit: the count adds up, sessions are not shared
  concurrently, not forgotten, statements are not run twice, nobody waits for a
  session.
* SEA statement: however requests fail and whoever gives up, the caller's SQL
  commits once, and what nobody waits for any more is cancelled.
* downloads: permits add up, a split stays within its own, no file waits for ever,
  and the parts make up the file.
* calls of a client: a query gets past a warehouse that stops while it waits, what
  runs in Python for a call runs on its caller's loop, an exception says no more
  than the retries have shown, and what a caller is told of a file is so.
* Thrift protocol: what a newer server adds is skipped to the byte, and a reply of
  which only the beginning arrived is not taken for a complete one.
* NDJSON stream: the lines are the rows, each once, whatever pages, chunks and
  writes end where; a timeout leaves nothing behind that the client could end; the
  report agrees.
* agent: the answer keeps its budget and tells the truth about what it omits,
  there is one outcome, and no worker is left behind, nor a statement that could
  be cancelled.

## The modules

**ReorderBuffer** is `ReorderBuffer::next`: the channel (bounded, with its count
of senders), `pending`, `nextIdx`, and the history `delivered` of what the reader
was given. `PopNext`, `DrainLowest`, `ReachEnd`, `ReceiveItem`, `ReceiveError` and
`ReceiveClosed` are the branches of its loop. A blob is its chunk index and its
number among the links of that chunk.

**OrderedDelivery** is the abstract specification of a result source: blobs in
order, each once, the end after the last, a failure at any time before.

**ChunkFetch** extends ReorderBuffer with the workers and the driver of
`fetch_chunks_with_backpressure`, and with what comes before: the links that the
statement's own response carries (`Embedded`), sorted into `PreResolved` by chunk
as `execute_statement` does, the empty ones dropped. A worker takes chunk
metadata (`TakeMeta`), asks for the links it does not have (`Resolve`), downloads
(`FetchOk`, `FetchErr`, `FetchPanic`), sends blob by blob (`SendBlob`), and is
stopped when the receiver is gone (`StopWorker`, the biased `select!`). The driver
joins all workers (`DriverJoin`), drops its sender or sends the first error. The
download of one chunk is a single step with an outcome: what happens inside is
the downloads component. The links that are embedded are assumed to be all of a
chunk's, in order, or none of them: the code takes what it finds for complete.

**ThriftWire** is `thrift.rs`: a message is a sequence of words, one for each
primitive that a `write_` puts into the buffer, and a `read_` takes the next word
or fails. A word of another width stands for bytes that would shift all that
follows. `SkipBounded` is the bounded skip; the `read` functions have one shape,
a loop over the fields, which is `ReadStruct` over a table for each struct: the
fields it keeps with their types, and the required ones. `Build...` and
`ParseReply` are the calls and replies of the fetch. **ThriftServer** is the other
end, external: what it reads from a call, the replies it writes, the fields of a
later version that it may put into any struct, and replies that are damaged.
**ThriftConversation** is what the client makes of the replies: `Submission` is
`submit_and_await_thrift_statement` up to ThriftStatementReady (a refusal, a poll
for a statement that has not finished, the direct results, any part of which may
be missing), `Understood` is `thrift_fetch_results_raw`.

**ThriftFetch** is the other source, `run_thrift_fetch_loop`, over the same
ReorderBuffer. It sees of that conversation what comes out, by three constants:
`Submissions`, `Fetches` and `Damages` say what a submission, a FetchResults and a
damaged reply may come to. The MC module gives them the operators of
ThriftConversation, so that TLC reads every word; the proofs leave them open. It
begins with `Submit`. Then `producer` says where the loop stands: it asks for a response
(`FetchResults`, or `TakeInitial` for the one that came with the statement),
decodes what is inline (`DecodeInline`, `SendInline`), and queues the links
(`QueueLink`), or holds them back until a response has brought metadata
(`HoldLink`, `QueueHeldBack`, which is also the flush at the end). What the server
will answer is chosen in `ThriftInit` and stays hidden until it is asked; how many
batches and links a response holds, and whether more follow, is known only from
the outcome of its call. `closed()` is `reader = "dropped"`, and the biased `select!`s
look at it first. A worker's failed download is an error in the channel and the
worker goes on; a panic ends it silently, `JoinWorkers` sees it and `ReportPanic`
says so. `CleanUp` stands for the two requests behind `drop(tx)`; which sessions
they close is in ThriftSubmit. `fault` is a history variable: something has
really gone wrong. Whether the statement was retried or cancelled is ThriftSubmit.

**Downloads** is `fetch_link_bytes_budgeted` with `fetch_link_bytes_split`: the
base permit (`Acquire`, first come first served as tokio's semaphore is), the
spare ones seen and then claimed all or none (`SeeSpare`, `ClaimSpare`: another
download may come between), the probe, the parts that start with its headers,
the head, and the joining. `Share` is the part of the budget that
`run_thrift_fetch_loop` allots to each link of a response. A body is the interval
of the file it holds; a request whose answer has the wrong range or length is a
failed one. Aborted parts are counted until their tasks are gone, which is what
`shutdown().await` waits for before the probe is retried. The concurrency of a
query is that of the client here; the agent's queries use one, and never split.

**ResultStream** takes OrderedDelivery as its source (an INSTANCE, refined by
ChunkFetch when no chunk but the last carries more than one blob) and models the calls of a result set: the lock,
the two loops of `fetch_at_least`, the decode handles, `take` and the end of a
call, `PoisonOnDrop`, the single report of `StatsReporter`, the cancel hook's
hint, and for streamed calls the `HeartbeatWait` with overrun, abort and drop.
Rows are numbered and a record batch is a run of them, so that "which rows" is
decided, and Arrow data is not. `Complete` joins the end of `fetch_at_least` and
`take` because no await lies between them. A batch without rows only brings the
schema, and is left out of the buffer. A plain call that completes has answered:
the hand-over of its value to asyncio belongs to the binding library.

**SessionPool** is `Pool<T>` of `client.rs`, one operator per critical section;
the drains take two locks one after the other, so they are two operators.
**ThriftSubmit** uses it for `submit_thrift_with_concurrency`: checkout,
OpenSession, submit and poll, checkin or discard, the retry after a stale
session, the throwaway session of a full pool, the fetch loop's end with
CloseOperation and CloseSession, `close_all_thrift_sessions` as two steps, and
the guards of a dropped future at each await. The server is external: it creates
sessions, forgets them when closed or restarted, and takes the open operations
of a closed session along. A lost OpenSession answer may leave a session nobody
knows; it is counted in `strays`, as are the closes that a cancelled caller never
sends. A request that closes a session arrives once it is sent.

**SeaStatement** uses SessionPool too, for `submit_and_poll` of `client/sea.rs`:
checkout (a pool that is full, or a session that cannot be created, means a
submission without a session), the POST with its retries, polling, and
`SessionCheckin` and `CancelInFlightOnDrop`, which `Leave` joins because no await
lies between them. `execute_arrow_statement_prefer_inline` is the same path with
`inline`, and `FallBack` sends it round again when the byte limit was
exceeded. `HandOver` is what the caller gets and what is reported of it: a stream
over links (`AnswerExternal`), rows that came inline (`AnswerInline`), or an
inline answer that cannot be used (`ReportUnusable`). The server's statements are a sequence of records, so that a second
submission of the same query is seen. A submission that ends in a 5xx, a broken
answer or a timeout may have been accepted (`Unheard`). What the code says of the
server is assumed: 401, 403, 408 and 429 have run nothing, a FAILED or CANCELED
statement has committed nothing. CLOSED is SUCCEEDED to the code and here.
`close_all_sessions` takes the idle sessions (`CloseAll`), corrects the counts
(`DiscountAll`), and deletes them one by one (`DeleteDrained`). Its future may be
dropped between two deletions (`CancelClose`, of a cancelled `aclose()`): the pool no
longer knows of the rest, and nothing else deletes them. They go to `strays`, as
does a session whose creation was never answered, and the server's own timeout
reaps both. A deletion that is sent counts as done, whatever becomes of it: the code
calls it best effort.
**Retry** holds which failures `retry_call_tracked` repeats.

**Requests** is what every request of a client has in common: each attempt asks
the token provider (`GetToken`, `CoroutineEnds`), is sent, and is repeated as
Retry says (`AttemptFails`); `Fail` is the exception the caller gets. An async
provider's coroutine needs an event loop, and so does an async `on_event`:
`Resolved` and `Learnt` are `LoopResolver::resolve`, over the call's context, the
task's locals and `last_known`. Loops may be closed and tokens rotated.
**Warehouse** is `ensure_warehouse_running` with its TTL cache over Requests and a
warehouse with a life of its own; **VolumeFiles** is upload and delete on one path,
which is what the server knows of it (`place`: a file, no file, or not even the
volume) and which others write to, drop and create. An attempt does its work and is
answered, is answered with a 404 (`NotFound`), is refused, or fails with its work
done or not; `took` and `told` are the histories that FileAnswersHold compares with what
the caller hears. **ClientCalls** joins them. They are apart from SeaStatement
and ThriftSubmit, where a query gets past the warehouse or not: they share no
other state.

**NdjsonEncode** is the data side of `pipeline/ndjson.rs`: `take_page`,
`LineCollector` and the patching of non-finite floats, on bytes that are classes
(a quote, a backslash, a colon, ...), all that the scanner tells apart.
arrow-json is external: it writes a row as an object and ends its writes anywhere.
A value is the marks outside its strings and the strings, of any characters, which it
escapes; all the module assumes of a value is that its brackets match and that a key
in it is inside one (`IsValue`), and of a token, that its column is a float whose
value was written as `null`. The pieces of a page become lines byte by byte, which is what
`memchr` and the copies of `LineCollector` come to.
**NdjsonStream** is `PyNdjsonStreamIter` with the two clocks below it, the
HeartbeatWait of the submission and the HeartbeatStream of the pages: a question
(`Anext`) may be answered by a heartbeat, a page, the end or an error, may be
cancelled and asked again; the task of the submission or of a pull goes on
meanwhile, and its outcome waits to be read. `hook`, `hint` and `reports` are the
cancel hook, the outcome hint and the event sink. Its source is OrderedDelivery
once more.

**InFlight** is the statement of one submission and what the client can still do
about it; NdjsonStream and AgentQuery extend it. `Heard` is `set_in_flight`. Before it,
the POST is out and there is no handle: SEA's may wait for `wait_timeout`, and
`docs/usage.md:332` says that a query abandoned inside that window cannot be cancelled;
Thrift's ExecuteStatement goes on in a task of its own, and the cancel comes behind
its reply (`AbandonPost`, `HandleArrives`). A POST that fails may have been accepted all
the same (`Unheard`). After it, CancelInFlightOnDrop spawns the cancel request, of a
future that is dropped and of a poll that fails (`CancelInFlight`); the request arrives
some time later, or fails in all its attempts (`CancelEnds`). The properties of the two
modules say what is left over: `LetGo`, a statement that still runs has a cancellation
on its way or cannot be cancelled, and `LetGoForGood`, it ends unless it cannot be.

**AgentRender** and **AgentDiagnostics** are the renderer and `error_json` as counts
of bytes, a character being the class that decides its escape; one step of the
renderer is one character, so that **AgentQuery** can interrupt it between two.
AgentQuery is `query` of `agent/mod.rs`: submission, `fetchmany_arrow` in batches,
the blocking worker, the look at one row beyond the last shown, `Decide`, which
defuses the hook or lets it cancel the statement, the deadline and the drop of the
future at every await.

The `MC` modules only name constant values.
The variants `...Forgetting`, `...Keeping` and the like under the heading
"Mutants" are plausible mistakes; each property of a passing run is violated when
its mutant takes the place of the definition (`mutants` in PROJECT.json).

## The runs

`tlc -config X.cfg M`, with M the MC module. All runs switch the deadlock check
off, because the systems end: every query, call and pool terminates.

| Run | Question | Bounds |
|---|---|---|
| ChunkFetch_pool | ordered delivery is implemented: each blob once, links of a chunk in order, error last, nothing silently truncated; abandoned pool ends, reader is answered | 3 workers, indexes 0, 1, 2, 4 listed as 1, 0, 4, 2 with 1, 1, 0, 2 links; those of 1 and 4 embedded, an empty one of 0, one of a chunk that is not listed |
| ChunkFetch_two_links | is delivery ordered with two links per chunk? no | 2 workers, chunks with 2 and 1 links |
| ResultStream_calls | answers, short answers, the schema of an empty result, poison and report, termination | two plain calls, one streamed call; chunks of 3, 0, 1 rows estimated as 2, 0, 2, or no chunk at all; decode batches of 2 |
| ResultStream_lost | is the loss of a taken result loud? no | one plain, one streamed call, two rows |
| ThriftSubmit_pool | the pool is exact, sessions are owned, single execution, queries end | two queries, one key, cap 2, two idle sessions, 4 sessions in all (an OpenSession beyond them fails), 1 restart, aclose |
| ThriftSubmit_shared | does a session outlive the fetch of its operation? no | two queries, cap 1 |
| SeaStatement_queries | commits once, cancelled when abandoned, one statement per session and no session lost | two queries on one key, one with prefer_inline, cap 1, an idle session of a second key, 4 sessions and 3 statements in all, 2 attempts, no token refresh, one aclose, which may be cancelled |
| Client_calls | callers' loops, earned errors, true answers about files, queries get past the wait | two calls on two loops, one through a spawned task; 2 attempts; one trouble: a token rotated, a loop closed, the warehouse stopped or deleted |
| ThriftFetch_results | ordered delivery is implemented, no error is the client's own, no compression guessed; abandoned fetch ends, reader is answered | 2 workers, seven results of up to three responses and five blobs; a server with or without fields of its own in every struct; MaxSkipDepth 4 |
| Downloads_budget | permits add up and suffice, a batch does not starve itself, the parts are the file, downloads end | a query with one link, one with two, 5 permits, split in 5 at most, files of one and of five and a half part sizes, 2 attempts |
| Ndjson_pages | lines are rows, report agrees, a timeout and an abandoned stream leave nothing that could be ended, patient callers end | four rows of three columns in pages of 2, or an empty result; writes that end after 9, 26 or 40 bytes; 2 cancelled questions |
| Agent_query | budget, error budget, truthful footer, one outcome, nothing left that could be cancelled, queries end | thirteen results of up to four rows, 3 rows at most in batches of 2, 256 bytes, 8 characters per cell; both formats |

The invariants that a run lists are conjunctions of named parts: `PoolIsExact` is
`SlotsAddUp` and `NeverShared`, `SessionsOwned` is `EverySessionOwned` and
`ThrowawayOutlivesFetch`, `SessionsAccounted` holds one statement per session as
well, `ShortAnswerMeansEnd` the schema of an empty answer, `BudgetIsKept` the
permits, the requests and the waiting of a batch. Each module's type invariant is
part of one of them where it is not listed by itself.

Why the bounds are enough to be interesting: in ChunkFetch the channel holds as
many items as there are workers, so four blobs fill it and overtake each other; the gap in the indexes makes the reorder buffer drain. In
ResultStream three calls are the abandoned one, the one it blocks, and the one
that finds what was left behind; the chunk sizes make a batch straddle a call,
an empty chunk, an estimate too low and one too high. In ThriftSubmit two queries
meet on a pool of their size or smaller; `MaxSessions` bounds what the server
creates (an OpenSession beyond it fails, which a query survives or
reports as it does any failed OpenSession), `MaxRestarts` the restarts. In SeaStatement three
statements are a fallback beside another query's, and one that nobody heard of;
three sessions are one for each submission, the bounds make later ones fail, and the
fourth is the idle one of the other key, so that `aclose()` may have two to delete.
In ThriftFetch five links are one more than the link queue
and the workers hold, and three more than the channel. In Downloads `SplitLimit`
is 5 for the single link and 3 and 2 for the pair, so that a split meets waiting
files; `MaxSplitParts` is 5 for 8 and `PartSize` 2 for 1 MiB: a file of 11 under
five permits is the head and three parts of 3, where a fourth would start at the
end and is not sent, and under three permits the head, a part of 5 and one of 4.
The damaged replies of ThriftFetch end within the header, between two fields of
the response, inside its row set, and behind it; the foreign fields nest a set
of lists and a map in a struct, and reuse the id of a known field with another type. The code's
MAX_SKIP_DEPTH is 64; with 4 the fields of a server still pass, and one level more does not.
In Ndjson_pages a batch straddles two pages, a chunk has no rows and one no
batches, the names and values hold quotes, backslashes, colons and nulls, and the
cuts fall into a row, near the end of one, and into the second; a text holds a newline,
which arrow-json escapes. In Agent_query 256
bytes leave 96 for header and rows, and the results end one byte below, at and
above each of the budgets. In Client_calls one trouble meets one call or lies
between the two; more of them take the run beyond five minutes, and two calls
see each other only through `last_known`, the cache and the file.

Idle sessions at the start (`Warm`) stand for what earlier queries have left.

### What the runs that fail show

* **ChunkFetch_two_links**: `ReorderBuffer::next` advances `next_idx` after the
  first blob of an index; the second stays behind until the channel closes and
  its rows come last. The documentation promises order. `LinksInOrder` (each
  chunk's own links stay in order) holds.
* **ResultStream_lost**: a streamed task that has completed, and whose wait is
  dropped or overruns before it is asked, takes its rows with it; the stream is
  not poisoned and the next call is short without an error.
* **ThriftSubmit_shared**: a pooled session is checked in before its operation
  has been fetched, and a second query's failure or cancellation closes it.
  `ThrowawayOutlivesFetch` shows that sessions outside the pool are safe.

### Disagreements that no run shows

Met while modelling; each is a matter of reading two places of the source.

* `client/sea.rs:530-531` says that the chunks buffered at peak stay at about the
  concurrency. The channel is bounded so; `pending` behind it is not, and a slow
  chunk lets the rest of the result pile up.
* A consumer slower than `total_timeout_s`: the next tick of the HeartbeatStream
  spawns a pull and aborts it before its first poll (`heartbeat.rs:284`), so that
  nothing is reported, while `docs/usage.md:312` promises one snapshot per query.
  For the same reason a pull that has ended may have reported "success" or an
  error, and its caller, who comes too late to read it, is told a timeout.
* An agent query whose error meets its deadline reports "error" and answers with a
  timeout. A query that is abandoned while it is submitted reports nothing
  (`pipeline/stats.rs:301-310` says so).
* `client/sea.rs:246-249` says that an inline answer without `data_array` falls back
  to a resubmission; the code makes it an error (311-328).
* The documentation of TransientError names 5xx, but a 5xx on a request that is not
  idempotent is a plain ArrowbricksError.
* An async token provider with a Cursor that is executed in one `asyncio.run` and
  read in another: on SEA the workers of the fetch find only the closed loop, which
  is an AuthError unless another loop is last known.
* `lib.rs:811-816` and `client/sea.rs:240-242` describe a second execution of a statement
  whose inline columns cannot be converted; the code makes that an error, as
  `docs/usage.md:369` says.
* A cancelled `aclose()` (`client/sea.rs:200-204`, `client/thrift_rpc.rs:161-165`) forgets the
  sessions it has drained and not yet closed; the comments speak only of a close
  that fails.
* A SEA statement in the state CLOSED counts as a success.
* `agent/render.rs:267-271` and `agent/diagnostics.rs:96-98` are never reached: the
  reserve, and the least max_bytes, exclude their conditions.
* SEA's downloads use `fetch_link_bytes` directly (`client/sea.rs:521`) and take no
  permit, though `client.rs:196` says "Every link download takes one permit".

### Fairness

* ChunkFetch: weak fairness of worker, driver and reader steps. The tokio runtime
  polls ready tasks, and a download ends, well or not, since every request has an
  HTTP timeout and a bounded number of retries. `PatientReaderIsAnswered` is
  stated for a reader that keeps calling `next` and assumes it so;
  `AbandonedPoolEnds` for one that has gone.
* ResultStream: `TasksRun` (ready tasks are polled; an aborted task ends at its
  next suspension). Only `CallsEnd` assumes that the source answers: `OverrunEnds`
  must hold when the download hangs. Ticks, cancellations and drops are the
  caller's and never fair.
* ThriftFetch: the producer's steps, a decode on its blocking thread, the cleanup,
  and what a worker does short of its download. `AbandonedFetchEnds` needs no more:
  FetchResults and downloads may hang. `PatientReaderIsAnswered` assumes that they
  end (they have timeouts and bounded retries) and that the reader keeps asking.
  `ServersAnswer` says of the calls that no one of them is waited for for ever,
  because its own enabling condition would have to read the messages.
* Downloads: tasks are polled and requests end. Cancellation is not fair.
* SeaStatement: none, its properties are safety properties.
* ClientCalls: requests end, sleeping tasks wake up, a coroutine on an open loop
  runs; a warehouse that stops or starts gets there. The deadline
  (`warehouse_start_timeout`) is not fair, so QueriesGetThrough does not rest on
  queries that give up; it promises nothing to a coroutine whose loop is closed.
* NdjsonStream: tasks are polled, time passes, the caller keeps asking, and what
  was spawned to cancel a statement ends, since its requests have a timeout and
  bounded retries (`CleanUp`); that it succeeds is not assumed. `select!`
  picks at random between a tick and the task, so that a result that stays ready
  is picked at last: strong fairness of `TickResult`. The source answers only
  where there is no `total_timeout_s`; with one, the deadline must be enough.
* AgentQuery: time passes, the timer is polled, the blocking worker runs. The
  server and the source are never assumed to answer.
* ThriftSubmit: the steps of each query; requests end because of
  `http_timeout` and `retry_attempts`. Restarts, cancellation and aclose are not fair.

## The proofs

`ChunkFetchProofs` proves, for every set of indexes, links per chunk, embedded
links, manifest order and concurrency that satisfy the assumptions of ChunkFetch:

* `TypeCorrect`: `Spec => []TypeOK`. One step per action of workers, driver and
  reader. `LinksOfChunk` and `PreResolvedIsAll` say what the links that came with
  the statement are: all those of their chunk, in order.
* `EndIsComplete`: `Spec => []NoSilentTruncation`. When the reader has been told
  the end, every blob has been delivered. That is not inductive: nothing in it
  says where a blob is before. `CompletenessInv` does: each blob is in the queue, with a
  worker, in the channel, in `pending` or delivered, unless a worker failed; a
  failure is still with its worker, with the driver, or in the channel as an
  error; the channel closes only when all workers have ended. TLC has checked
  it, and the proof shows that each action preserves it.
* `PoolDeliversInOrder`: the pool with its reorder buffer implements OrderedDelivery,
  `Spec => DeliversInOrder`, if every chunk but the last is one blob
  (`SingleLinks`). ChunkFetch_pool satisfies the hypothesis, and ChunkFetch_two_links shows
  that it is needed. `OrderInv` says that a chunk has one holder, that
  its blobs are sent from the first on, each once, that those delivered come
  before those in `pending` and these before those in the channel, and that a chunk
  which `nextIdx` has passed is delivered, the last one excepted. From it every
  step of the reader is a step of the abstract source (`StepKeepsPromise`), and
  every step of workers and driver stutters.

`AgentQueryProofs` proves, for every set of results, budgets of at least 256 bytes
(what `AgentOptions::validate` demands), batch size and messages:

* `TypeCorrect`: `Spec => []TypeOK`, and with it that no unsigned subtraction of
  the renderer goes below zero. `RenderInv` is what makes it inductive: the bytes
  that are left for the row, and in it for the cell, cover every piece that may
  still be written (`Room`), among them a delimiter and a clipping mark for each
  cell to come.
* `AnswersAreWithinBudget`: `Spec => []WithinBudget`, from RenderInv and
  `FooterFits`: the longest footer fits the reserve.
* `OneOutcome`: `Spec => []OutcomeAgrees`, and `NothingIsLeft`:
  `Spec => []StatementNotLeft`. `Life` relates the place of the future, the hook, the hint,
  the statement with its clean-up, and the reports at every await; the steps of the
  server and of the clean-up go on when the query is over, and keep `LetGo`.
* `FooterIsTrue`: `Spec => []SaysWhatItShows`. `Told` keeps the books of the rows: those
  taken from the stream are the rendered ones, those of the batches with the
  worker, and the one that was looked at beyond the last (`Ledger`); and it says for
  what reason a preview has ended (`Reasons`).
* `ErrorsKeepTheBudget`: `Spec => []ErrorFits`, which is `ErrorJsonFits`, about
  `error_json` for every message. `Before` and the search are recursive functions: that they exist,
  that a longer prefix takes no fewer bytes in JSON, and that the search ends at a
  byte whose prefix fits, is shown by induction. The prover cannot be given the
  library's induction rule, so the induction is over sets: a set that has 0 and,
  with a number, its successor, has them all (`SetInduction`, from the
  well-foundedness of the natural numbers). What is shown of a function is the set
  of the numbers for which it holds.

`ThriftSubmitProofs` proves, for every set of queries and keys, cap of the pool,
warm sessions, and number of sessions and restarts:

* `TypeCorrect`: `Spec => []TypeOK`, with `HoldsOne`: a query past the checkout
  holds a session.
* `RunsOnce`: `Spec => []RunsAtMostOnce`. `Once` says why: a query that may still
  submit has run nothing, because the only answer that leads back to a submission
  is the one that says the server did not know the session.
* `SessionsNeverShared` and `SessionsKeptTrackOf`: `Spec => []NeverShared` and
  `Spec => []SessionsOwned`. Neither is inductive. `Apart` is: idle sessions (`Parked`),
  sessions on their way out (`Going`) and the sessions queries own are disjoint and
  nothing is in one of them twice; `Accounted` says that the server knows no others.
  `NoNewOwner` and `NoPoolStep` reduce most steps to who gives a session away.
  Without a restart no close reaches the operation of an owner (`KeepsOperation`).
* `PoolStaysExact`: `Spec => []PoolIsExact`, the count of each key. `CountInv` adds that
  drains in progress hold disjoint sessions, so that what `Discount` subtracts is
  what was taken, and the saturating subtraction never saturates. `CountMoves`
  is the arithmetic of one slot, `CountDrain` and `CountDiscount` are the two halves of a
  drain, with steps of other queries in between.

What `Take`, `Put`, the sweeps and the drains of the pool do to `PoolTyped` and to the set
of parked sessions (`TakeParked`, `PutParked`, `RemoveParked`, `ParkedMembers`), which keep the
stacks disjoint (`StacksApart`), comes first, and is stated of SessionPool alone.
`SeaStatementProofs` begins with the same lemmas, since the pool's other user has
other variables, and proves, for every set of queries and keys, cap, number of
sessions and of statements, and number of attempts of a POST:

* `TypeCorrect`: `Spec => []TypeOK`.
* `RunsOnce`: `Spec => []CommitsOnce`. `Once` is what makes it inductive: until a
  submission is accepted nothing of the query may commit, while a statement is
  polled it alone may, and it was submitted on the session the query holds.
* `RunnersAreLookedAfter`: `Spec => []NothingRunsForNobody`, which is inductive given
  the types and `Once`.
* `SessionsAreAccounted`: `Spec => []SessionsAccounted`. `PlaceInv` says that the places a
  session can be in are disjoint and that every session is in one; `BusyInv` that a
  session with a running statement is held by the query that polls it, or has been
  sent its deletion, so that no other query is ever given it; `CountInv` is the count
  of each key, with `CountMoves` as the arithmetic of one slot again.

`ResultStreamProofs` proves, for every set of calls, every result, whatever the calls
want and however the decoded chunks are bounded:

* `ReportsTellPoison`: `Spec => []ReportTellsPoison`.
* `AnswersAreAlwaysRuns`: `Spec => []AnswersAreRuns`.
* `ShortAnswersMeanEnd`: `Spec => []ShortAnswerMeansEnd`.

All three come from one invariant, `StreamInv`, because none is inductive alone: who
holds the lock, and what a call that holds it may have under way; that the stream
is poisoned when its query was reported as anything but a success; that the rows of
the buffer, of the decoders and of the source are one run that begins where the
last answer ended, until it is poisoned; and that a call which is short has met the
end of them. What a sequence of batches
holds is a sum over a sequence; `RunSums`, `RunAppend`, `FirstRowsRun` and `RestOfRowsRun` are
the lemmas about it, by `SetInduction` again. `fetchall` wants `usize::MAX` rows: the constant
`Everything`, assumed to be more than any result has.

`ClientCallsProofs` proves, for every set of calls and loops, number of attempts and
troubles: `CallersLoopIsFound` (`Spec => []CallersLoop`), `ErrorsAreAlwaysEarned`
(`Spec => []ErrorsAreEarned`) and `FileAnswersAlwaysHold` (`Spec => []FileAnswersHold`). The
invariant, `CallsInv`, has two parts. `RequestsInv` is about the attempts of every call,
and is stated call by call (`CallByCall`), since a step moves one call, and the rest is
the provider and the loops (`OneCallMoves`): a token that is not static is at least
as new as what was valid when it was asked for, and a call resolves to its own loop
while that is open. `FilesInv` is about the files: what a call has been told by the
server, together with what its attempts have done, decides how it may end, and a
call about a file never becomes a query (`KindsInv`). Assumed: `NoLoop` is not a loop.

`DownloadsProofs` proves, for every set of batches, budget, number of parts, file and
part size that satisfy the assumptions of Downloads (each batch is a sequence of
links, each link is in one of them, once):

* `TheBudgetIsKept`: `Spec => []BudgetIsKept`. `DownloadsInv` counts the permits as a set
  of pairs, the download and the number of its permit, so that what a step gives
  or takes is a set difference; the queue holds whoever waits, once; and what a
  download holds and has under way is bounded phase by phase, by its share
  (`SplitLimit`) at most. That a batch does not starve itself (`NobodyStarves`) is a count:
  if only downloads of the batch are under way, what they hold fits into its
  `Slots` permits with the place of the one that waits left over, and then tokio
  would have granted it.
* `FilesAreWhole`: `Spec => []AssembledIsFile`. The parts that are sent are the first ones,
  up to the end of the file, adjacent by the arithmetic of `CeilDiv` (`RangesFacts`,
  `PartsCoverFile`); there is one ascending order of them (`OnlyOneOrder`), whatever the
  order in which they arrived.

`NdjsonStreamProofs` proves, for every result, whatever its batches and chunks, every
page size and every number of cancelled questions:

* `TimeoutIsClean`: `Spec => []TimeoutLeavesNothing`, the statement as far as it can be
  cancelled.
* `ReportsAlwaysAgree`: `Spec => []ReportAgrees`.
* `PagesAlwaysInOrder`: `Spec => []PagesInOrder`, the part of LinesAreRows that is about
  rows and not about bytes.
* `LinesAlwaysRows`: `Spec => []LinesAreRows`, for any columns, names and values that satisfy
  `EncodeAssumption`, and rows that are known (`RowsAssumption`).

All follow from `StreamInv`. `TaskInv` says which task belongs to which state of the
iterator and of its caller, and that an iterator which is still held aborts its
task only when its time is over, after the hook; `HookInv` when the hook has said
what; `ReportInv` that a query which goes on has reported nothing. They are
inductive together (`Control`). That a clean end has given every row is a matter of
data: what was pulled is the first chunks (`DeliversNext`, from OrderedDelivery's
promise), and `RowsInv` says that what was decoded has been given, is on the page, or
is pending, in this order, as long as no pull has failed or was given up (`Flowing`).
`TakePageFacts` is what the proof needs of `take_page`: the page and what is put back
are the rows it was given, in order, at most one batch cut in two. A failed or
aborted pull throws its page away, which is why `RowsInv` speaks of `Flowing` only, and
why such a query never reports a success.

That the lines are the rows is then a matter of bytes, in four steps. What a
recursive function or `FlattenSeq` makes of one element more is proved once of all
of them: a sequence that takes the steps exists (`FoldExists`), and there is only one
(`FoldIsUnique`); with `SeqInduction` this stands in for induction over data.
The collector: where a write ends makes no difference (`WriteConcat`), and a row is one
line, since what arrow-json escapes holds no newline (`WriteLine`, `RowsAreLines`). The scanner:
it is outside of strings with one bracket open after a name, after a string, whatever
it ends in (`ScanText`), and after a value, whose keys are all deeper (`ScanJson`); so
it comes to the n-th key with n - 1 keys counted (`ScanBefore`) and finds the `null`
(`NullFound`). The patch: a column that is replaced leaves the cells around it, and so the
columns that come after it, where they are (`AroundCell`, `PatchOne`, `PatchAll`); this
is where it matters that the columns are all different. The pages: their lines are one run of
lines (`PageIsEncoded`, `PagesAreLines`), because their rows are one run (`PagesInOrder`).

`DownloadsProofs` proves of ThriftFetch too, for every set of results, any number of
workers and any conversation, provided `RepliesAreUnderstood`: a call is answered
with what the server has to say, and a damaged reply is refused or says just that.
TLC checks this hypothesis, reading every word, for the results of
ThriftFetch_results, where it is the first part of `FailuresAreReal`. It cannot be
proved of ThriftConversation, because ThriftWire reads nested data with RECURSIVE
operators, which the prover cannot reason about.

* `LoopIsTyped`: `ThriftSpec => []TypeOK`. What makes it inductive is `Discovered`:
  `chunk_index`, with what the present response still has (`Undiscovered`), is the
  number of blobs of the responses so far. `BlobsUpTo` is that sum, a recursive
  function: that it exists, and that a prefix has no more blobs than the whole, is
  shown by `SetInduction`.
* `CompressionIsKnownFirst`: `ThriftSpec => []CompressionIsKnown`. `ConfirmedFirst` says
  that until it is confirmed nothing is queued while discovery goes on.
* `LoopFailuresAreReal`: `ThriftSpec => []FailuresAreReal`. `Troubled` lists where a
  failure can be on its way to the reader, and `TroubleStep` shows of every step that
  it makes none up and loses none before the reader has left.
* `LoopDeliversInOrder`: `ThriftSpec => DeliversInOrder`, the refinement. `Placed` says that each index
  given out is in exactly one of seven places, from the producer's hands to
  `next_idx`, unless the reader has left or a failure is on its way (`Excused`); a step
  leaves the places alone, or takes one index from a place to another (`Stays`,
  `Moves`, `PlacesKept`). That the end comes after the last blob needs the order in
  which things are closed, `QueueEnds` and `ChannelEnds`, and that discovery has gone
  through the result, `AllDiscovered`: a source that has ended without an excuse
  has every blob in the buffer or delivered (`SourceIsWhole`). Hence the gap
  drain of the reorder buffer never runs (`NothingDrained`), and each `PopNext`
  is the delivery that is due.

Only model-checked: the liveness properties (temporal reasoning under fairness
and ENABLED is beyond the prover), and `RepliesAreUnderstood`, as said.

## Not modelled

Left out for good: the conversion of JSON arrays to Arrow (`json_convert.rs`), the
allocator and the Arrow C interface (data without shared state, and cells of
types that no property tells apart), and the Python package (sequential wrappers).
Of `thrift.rs`: UTF-8, the non-strict framing that no server uses, a second
`success` field, `parameters_from_json`, and the requests of OpenSession and of
the best-effort closes and cancels. Of `lib.rs`: argument conversion, and the
hand-over of a completed future to asyncio, which belongs to the binding library
(a fetch that was cancelled just then has taken its rows). `run_pipeline` is used by
tests only. Requests of a download that has failed or was cancelled may linger
until their tasks are polled, while its permits are back already; `BudgetIsKept` is
about downloads that go on.
`is_stale_session` looks for a text in the message of any error (`client/error.rs:138`); in
ThriftSubmit only the server's refusal of a session has it.
Also abstracted: durations and byte counts in the statistics, the effect of the
cancel hook on the server (the statement behind it is terminal), the backoff between retries, and the wait of a
CloseSession that fails (its session is left to the server's idle timeout).

## Plan

1. *(done)* ReorderBuffer, OrderedDelivery, ChunkFetch: the order and completeness
   of results; first proofs.
2. *(done)* ResultStream with HeartbeatWait and outcome reporting.
3. *(done)* SessionPool and ThriftSubmit.
4. *(done)* ThriftFetch, on ReorderBuffer, implementing OrderedDelivery as well,
   and the conversation below it (ThriftWire, ThriftServer).
5. *(done)* SeaStatement with Retry: submit, poll, prefer_inline, abandonment, and
   what is handed over and reported.
6. *(done)* Requests, Warehouse, VolumeFiles, ClientCalls: attempts, tokens, loops.
7. *(done)* Downloads: the budget and the split.
8. *(done)* NdjsonEncode and NdjsonStream with HeartbeatStream; AgentRender,
   AgentDiagnostics and AgentQuery, with proofs.
9. *(done)* Proofs: types, pools, statements and sessions; the order of chunks; the
   stream's answers and poison; the calls of a client; the budget and the files of
   downloads; the agent's footer and errors.
10. *(done)* Proofs: the report, the timeout, the pages and the lines of NdjsonStream.
11. *(done)* Proofs: the Thrift fetch loop, with its wire as a parameter: types,
   compression, failures, and the order of its delivery.
