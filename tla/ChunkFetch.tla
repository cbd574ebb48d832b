------------------------------ MODULE ChunkFetch ------------------------------
(***************************************************************************)
(* DbClient::fetch_chunks_with_backpressure_limit of client/sea.rs, feeding *)
(* the reorder buffer: a fixed pool of worker tasks shares a queue of chunk *)
(* metas and sends each chunk's blobs into a bounded channel; a driver task *)
(* joins the workers and, if one failed, sends the error as the channel's   *)
(* last message before it drops its own Sender.  The links of a chunk came  *)
(* with the statement (execute_statement) or are asked for by the worker.   *)
(*                                                                         *)
(* A worker's `select!' polls `worker_tx.closed()' before its work loop, so *)
(* a poll that starts after the receiver is gone does nothing but return.   *)
(***************************************************************************)
EXTENDS ReorderBuffer

CONSTANTS
  Manifest,              \* the chunk_index values in manifest order
  Embedded,              \* the external_links that came with the statement
  ChunkFetchConcurrency  \* DbClient::chunk_fetch_concurrency

ASSUME ManifestAssumption ==
  /\ Manifest \in Seq(Indexes)
  /\ \A i \in Indexes : \E n \in DOMAIN Manifest : Manifest[n] = i
  /\ \A m, n \in DOMAIN Manifest : Manifest[m] = Manifest[n] => m = n
ASSUME ConcurrencyAssumption == ChunkFetchConcurrency \in Nat

\* The external_link is an empty string.
NoLink == 0

EmbeddedOf(i) ==
  LET ForChunk(entry) == entry.index = i /\ entry.link # NoLink
  IN  SelectSeq(Embedded, ForChunk)

\* The server embeds all links of a chunk, in order, or none.
ASSUME EmbeddedAssumption ==
  \A i \in Indexes :
    EmbeddedOf(i) \in {<<>>, [k \in 1..LinkCount[i] |-> [index |-> i, link |-> k]]}

AtLeastOne(n) == IF n < 1 THEN 1 ELSE n

\* `concurrency.clamp(1, chunk_metas.len().max(1))'
Concurrency ==
  IF ChunkFetchConcurrency > AtLeastOne(Len(Manifest))
  THEN AtLeastOne(Len(Manifest))
  ELSE AtLeastOne(ChunkFetchConcurrency)

Workers == 1..Concurrency

VARIABLES
  queue,    \* the chunk metas no worker has taken yet
  worker,   \* where each worker task stands
  chunk,    \* the meta a worker is busy with
  links,    \* the links it has of that chunk
  link,     \* the position of the next blob a sending worker sends
  driver    \* where the task that joins the workers stands

poolVars == <<queue, worker, chunk, links, link, driver>>
vars == <<reorderVars, poolVars>>

Busy    == {"resolving", "fetching", "sending"}
Running == {"idle"} \cup Busy
Failed  == {"error", "panic"}
WorkerStates == Running \cup Failed \cup {"ok"}
DriverStates == {"joining", "reporting", "ended"}

NoChunk == -1

PoolTypeOK ==
  /\ queue \in Seq(Indexes)
  /\ worker \in [Workers -> WorkerStates]
  /\ chunk \in [Workers -> Indexes \cup {NoChunk}]
  /\ links \in [Workers -> Seq(Nat)]
  /\ link \in [Workers -> Nat]
  /\ driver \in DriverStates
  /\ \A w \in Workers : worker[w] \in Busy => chunk[w] \in Indexes

TypeOK == ReorderTypeOK /\ PoolTypeOK

Init ==
  /\ ReorderInit
  /\ queue = Manifest
  /\ worker = [w \in Workers |-> "idle"]
  /\ chunk = [w \in Workers |-> NoChunk]
  /\ links = [w \in Workers |-> <<>>]
  /\ link = [w \in Workers |-> 1]
  /\ driver = "joining"

Become(w, state) == worker' = [worker EXCEPT ![w] = state]

-----------------------------------------------------------------------------
(* Mutants                                                                  *)

\* join_first_error as it once was: a panicked task is not an error.
WorkerFailedUnlessPanic == \E w \in Workers : worker[w] = "error"

\* The receiver is only looked at between two chunks.
StopBetweenChunks(w) ==
  /\ reader = "dropped"
  /\ worker[w] = "idle"
  /\ Become(w, "ok")
  /\ UNCHANGED <<reorderVars, queue, chunk, links, link, driver>>

\* The meta is taken but not kept.
TakeMetaForgetting(w) ==
  /\ worker[w] = "idle"
  /\ reader # "dropped"
  /\ queue # <<>>
  /\ Become(w, "resolving")
  /\ queue' = Tail(queue)
  /\ UNCHANGED <<reorderVars, chunk, links, link, driver>>

\* A plain map entry for each index: the last link of a chunk replaces the others.
PreResolvedLast(i) ==
  IF EmbeddedOf(i) = <<>> THEN <<>> ELSE <<EmbeddedOf(i)[Len(EmbeddedOf(i))].link>>

\* A clone of the Sender outlives the driver's block.
DriverJoinKeepingSender ==
  /\ driver = "joining"
  /\ \A w \in Workers : worker[w] \notin Running
  /\ driver' = IF \E w \in Workers : worker[w] \in Failed THEN "reporting" ELSE "ended"
  /\ UNCHANGED <<senders, channel, bufferVars, readerVars, queue, worker, chunk, links, link>>

-----------------------------------------------------------------------------
(* The worker tasks                                                         *)

\* ChunkMeta::pre_resolved_links, a Vec for each index.
PreResolved(i) == [n \in 1..Len(EmbeddedOf(i)) |-> EmbeddedOf(i)[n].link]

\* `queue.lock().unwrap().pop_front()', then the fetch starts.
TakeMeta(w) ==
  /\ worker[w] = "idle"
  /\ reader # "dropped"
  /\ queue # <<>>
  /\ Become(w, IF PreResolved(Head(queue)) = <<>> THEN "resolving" ELSE "fetching")
  /\ chunk' = [chunk EXCEPT ![w] = Head(queue)]
  /\ links' = [links EXCEPT ![w] = PreResolved(Head(queue))]
  /\ link' = [link EXCEPT ![w] = 1]
  /\ queue' = Tail(queue)
  /\ UNCHANGED <<reorderVars, driver>>

\* `let Some(meta) = meta else { return Ok(()) }'
QueueDrained(w) ==
  /\ worker[w] = "idle"
  /\ reader # "dropped"
  /\ queue = <<>>
  /\ Become(w, "ok")
  /\ UNCHANGED <<reorderVars, queue, chunk, links, link, driver>>

\* Server: the external_links of a chunk.
AllLinks(i) == [k \in 1..LinkCount[i] |-> k]

\* fetch_chunk_index: the GET that asks for them.
Resolve(w) ==
  /\ worker[w] = "resolving"
  /\ Become(w, "fetching")
  /\ links' = [links EXCEPT ![w] = AllLinks(chunk[w])]
  /\ UNCHANGED <<reorderVars, queue, chunk, link, driver>>

\* Whether a blob of the fetched chunk follows the one at link[w].
MoreLinks(w) == link[w] < Len(links[w])

\* Every link of the chunk was downloaded, after the retries inside
\* fetch_link_bytes.  A chunk without links leaves nothing to send.
FetchOk(w) ==
  /\ worker[w] = "fetching"
  /\ Become(w, IF links[w] = <<>> THEN "idle" ELSE "sending")
  /\ UNCHANGED <<reorderVars, queue, chunk, links, link, driver>>

\* The GET or a link failed for good: the worker returns the error, none of the chunk's
\* blobs is sent, the siblings carry on.
FetchErr(w) ==
  /\ worker[w] \in {"resolving", "fetching"}
  /\ Become(w, "error")
  /\ UNCHANGED <<reorderVars, queue, chunk, links, link, driver>>

\* The task panics while it fetches; the runtime turns it into a JoinError.
FetchPanic(w) ==
  /\ worker[w] \in {"resolving", "fetching"}
  /\ Become(w, "panic")
  /\ UNCHANGED <<reorderVars, queue, chunk, links, link, driver>>

\* `worker_tx.send(Ok(item)).await': waits for a free slot of the channel.
SendBlob(w) ==
  /\ worker[w] = "sending"
  /\ reader # "dropped"
  /\ Len(channel) < Concurrency
  /\ channel' = Append(channel, Item(chunk[w], links[w][link[w]]))
  /\ IF MoreLinks(w)
     THEN link' = [link EXCEPT ![w] = @ + 1] /\ UNCHANGED worker
     ELSE Become(w, "idle") /\ UNCHANGED link
  /\ UNCHANGED <<senders, bufferVars, readerVars, queue, chunk, links, driver>>

\* `() = worker_tx.closed() => Ok(())': wherever the work loop is suspended,
\* its future (a fetch, a blocked send) is dropped with it.
StopWorker(w) ==
  /\ reader = "dropped"
  /\ worker[w] \in Running
  /\ Become(w, "ok")
  /\ UNCHANGED <<reorderVars, queue, chunk, links, link, driver>>

-----------------------------------------------------------------------------
(* The driver task                                                          *)

AllJoined == \A w \in Workers : worker[w] \notin Running

WorkerFailed == \E w \in Workers : worker[w] \in Failed

\* join_first_error: waits for every worker, a panic counts as an error.
\* Without an error the task ends and drops the last Sender.
DriverJoin ==
  /\ driver = "joining"
  /\ AllJoined
  /\ IF WorkerFailed
     THEN driver' = "reporting" /\ UNCHANGED senders
     ELSE driver' = "ended" /\ senders' = FALSE
  /\ UNCHANGED <<channel, bufferVars, readerVars, queue, worker, chunk, links, link>>

\* `let _ = tx.send(Err(e)).await': to nobody if the receiver is gone.
DriverReport ==
  /\ driver = "reporting"
  /\ Len(channel) < Concurrency
  /\ channel' = IF reader = "dropped" THEN channel ELSE Append(channel, Failure)
  /\ driver' = "ended"
  /\ senders' = FALSE
  /\ UNCHANGED <<bufferVars, readerVars, queue, worker, chunk, links, link>>

-----------------------------------------------------------------------------
WorkerStep(w) ==
  \/ TakeMeta(w)
  \/ QueueDrained(w)
  \/ Resolve(w)
  \/ FetchOk(w)
  \/ FetchErr(w)
  \/ FetchPanic(w)
  \/ SendBlob(w)
  \/ StopWorker(w)

DriverStep == DriverJoin \/ DriverReport

ReaderMoves == (ReaderStep \/ DropReceiver) /\ UNCHANGED poolVars

Next ==
  \/ \E w \in Workers : WorkerStep(w)
  \/ DriverStep
  \/ ReaderMoves

Spec == Init /\ [][Next]_vars

\* What a task can do by itself it eventually does.  Nothing is assumed about
\* a download: a server may leave a connection hanging.
TasksRun ==
  /\ \A w \in Workers :
       WF_vars(TakeMeta(w)) /\ WF_vars(QueueDrained(w)) /\ WF_vars(SendBlob(w)) /\ WF_vars(StopWorker(w))
  /\ WF_vars(DriverStep)

FairSpec == Spec /\ TasksRun

\* Every download ends one way or another: an attempt is bounded by the HTTP
\* timeout, the attempts by retry_attempts.
DownloadsEnd == \A w \in Workers : WF_vars(Resolve(w) \/ FetchOk(w) \/ FetchErr(w) \/ FetchPanic(w))

\* A reader that keeps calling `next' until it is told the end or an error.
PatientReader == WF_vars(ReaderStep /\ UNCHANGED poolVars)

-----------------------------------------------------------------------------
(* Properties                                                               *)

\* The reader is told the end of the result only when it has been given every
\* blob of it: a failed or panicked worker never looks like a clean end, and
\* no blob is stranded behind a gap (join_first_error, ReorderBuffer::next).
NoSilentTruncation == reader = "done" => DeliveredBlobs = Blobs /\ ~WorkerFailed

Promise == INSTANCE OrderedDelivery WITH blobs <- Blobs

\* The pool and the buffer together keep the promise of OrderedDelivery.  It
\* holds of results in which no chunk but the last carries more than one blob.
DeliversInOrder == Promise!Spec

\* If downloads end, a reader that keeps reading is told the end or an error:
\* no blob it waits for is stuck behind the full channel.
PatientReaderIsAnswered ==
  DownloadsEnd /\ PatientReader => <>(reader # "reading")

\* Dropping the result stops every task of the pool, even while a download
\* hangs and while a worker or the driver is blocked on the full channel.
AbandonedPoolEnds == (reader = "dropped") ~> (AllJoined /\ driver = "ended")

-----------------------------------------------------------------------------
(* The inductive invariant behind NoSilentTruncation.                       *)

\* Where the k-th blob of chunk i is, unless a worker has failed.
Accounted(i, k) ==
  \/ i \in Elements(queue)
  \/ \E w \in Workers :
       /\ worker[w] \in Busy
       /\ chunk[w] = i
       /\ link[w] <= k
  \/ Item(i, k) \in Elements(channel)
  \/ Item(i, k) \in Elements(pending[i])
  \/ Item(i, k) \in Elements(delivered)
  \/ WorkerFailed

NothingLost ==
  reader # "dropped" => \A i \in Indexes : \A k \in 1..LinkCount[i] : Accounted(i, k)

\* A worker only returns Ok to a live reader over an empty queue.
OkMeansDrained ==
  reader # "dropped" => \A w \in Workers : worker[w] = "ok" => queue = <<>>

DriverWaits ==
  /\ driver # "joining" => AllJoined
  /\ senders = (driver # "ended")

FailureOnItsWay ==
  driver = "ended" /\ WorkerFailed =>
    reader \in {"failed", "dropped"} \/ Failure \in Elements(channel)

EndIsReal ==
  /\ exhausted /\ reader # "dropped" => channel = <<>> /\ ~senders /\ reader # "failed"
  /\ reader = "done" => exhausted /\ NothingLeft

\* The conjunction is inductive (with the types), its parts are not alone.
CompletenessInv ==
  /\ NothingLost
  /\ OkMeansDrained
  /\ DriverWaits
  /\ FailureOnItsWay
  /\ EndIsReal

-----------------------------------------------------------------------------
(* The inductive invariant behind DeliversInOrder, on top of the other one.  *)

\* A chunk is with one worker, or in one place of the queue, or done with.
OneHolder ==
  /\ \A m, n \in DOMAIN queue : queue[m] = queue[n] => m = n
  /\ \A w \in Workers :
       worker[w] \in Busy =>
         /\ chunk[w] \notin Elements(queue)
         /\ \A v \in Workers : worker[v] \in Busy /\ chunk[v] = chunk[w] => v = w

Sent(b) ==
  b \in Elements(channel) \cup Elements(pending[b.index]) \cup Elements(delivered)

\* A chunk's blobs before b.
Earlier(b) == {a \in Blobs : a.index = b.index /\ a.link < b.link}

\* A chunk's blobs are sent from its first on, each once.
SentInTurn ==
  /\ \A b \in Blobs :
       Sent(b) =>
         /\ b.index \notin Elements(queue)
         /\ \A w \in Workers : worker[w] \in Busy /\ chunk[w] = b.index => b.link < link[w]
         /\ \A a \in Earlier(b) : Sent(a)
  /\ \A w \in Workers :
       worker[w] = "sending" => \A a \in Earlier(Item(chunk[w], link[w])) : Sent(a)

\* a comes before b if both are of one chunk.
Before(a, b) == a.index = b.index => a.link < b.link

\* What is delivered of a chunk comes before what is buffered of it, and that
\* before what is in the channel.
StagesInLine ==
  \A a, b \in Blobs :
    \/ /\ a \in Elements(delivered)
       /\ b \in Elements(pending[b.index]) \cup Elements(channel)
    \/ /\ a \in Elements(pending[a.index])
       /\ b \in Elements(channel)
    => Before(a, b)

ChannelInLine ==
  \A m, n \in DOMAIN channel :
    m < n /\ channel[m] # Failure /\ channel[n] # Failure => Before(channel[m], channel[n])

PendingInLine ==
  \A i \in Indexes :
    /\ \A b \in Elements(pending[i]) : b.index = i
    /\ \A m, n \in DOMAIN pending[i] : m < n => pending[i][m].link < pending[i][n].link

\* All but the last chunk are delivered when the buffer moves past them.
PassedIsDelivered ==
  \A b \in Blobs :
    b.index < nextIdx /\ (\E j \in Indexes : b.index < j) => b \in Elements(delivered)

InLine == StagesInLine /\ ChannelInLine /\ PendingInLine

OrderInv ==
  reader # "dropped" => OneHolder /\ SentInTurn /\ InLine /\ PassedIsDelivered
=============================================================================
