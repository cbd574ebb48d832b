----------------------------- MODULE ThriftFetch -----------------------------
(***************************************************************************)
(* run_thrift_fetch_loop of pipeline/thrift_exec.rs, feeding the reorder    *)
(* buffer: a producer asks for one FetchResults response after the other,   *)
(* decodes the batches it carries inline and queues its links for a fixed   *)
(* pool of workers, holding them back until a response has confirmed the    *)
(* compression.  drive_thrift_fetch_loop cleans up behind it.               *)
(*                                                                         *)
(* Before that the statement is submitted; its session pool, its retries     *)
(* and its polling are in ThriftSubmit, here it is what the loop starts      *)
(* from.  What the client makes of a reply is a parameter, given its value   *)
(* by ThriftConversation.                                                   *)
(*                                                                         *)
(* Both select!s and the workers' own are biased towards `closed()': once   *)
(* the receiver is gone, nothing else happens at those awaits.              *)
(***************************************************************************)
EXTENDS ReorderBuffer

CONSTANTS
  Results,                \* the results to choose from, as responses of the server
  ChunkFetchConcurrency,  \* DbClient::chunk_fetch_concurrency
  Submissions(_),         \* what submitting a statement with these responses comes to
  Fetches(_, _, _),       \* what is made of the reply with the n-th of them
  Damages(_, _, _)        \* the same for a reply that arrives damaged

\* What one FetchResults has to say: whether batches come inline, how many
\* links, and whether it comes with the metadata.
Response == [inline : BOOLEAN, links : Nat, metadata : BOOLEAN]

BlobsIn(response) == response.links + IF response.inline THEN 1 ELSE 0

BlobsUpTo(answers) ==
  LET upTo[n \in 0..Len(answers)] == IF n = 0 THEN 0 ELSE upTo[n - 1] + BlobsIn(answers[n])
  IN  upTo

BlobCount(answers) == BlobsUpTo(answers)[Len(answers)]

ASSUME ThriftAssumption ==
  /\ Results \subseteq Seq(Response) \ {<<>>}
  /\ \A answers \in Results : 0..BlobCount(answers) - 1 \subseteq Indexes
  /\ \A i \in Indexes : LinkCount[i] = 1
  /\ ChunkFetchConcurrency \in Nat \ {0}

Workers == 1..ChunkFetchConcurrency

VARIABLES
  responses,    \* server: what FetchResults will answer, one after the other
  producer,     \* where run_thrift_fetch_loop stands
  operation,    \* the OperationHandle
  initial,      \* initial_rowset, if any
  answered,     \* how many responses it has got
  links,        \* links of the current response still to be handed on
  hasMore,      \* has_more
  chunkIndex,   \* chunk_index
  confirmed,    \* metadata_confirmed, and with it compressed_flag
  unconfirmed,  \* pending_until_confirmed
  linkQueue,    \* contents of the link channel
  queueOpen,    \* whether link_tx is alive
  worker,       \* where each worker stands
  work,         \* the chunk index it is busy with
  guessing,     \* whether it read compressed_flag before it was confirmed
  fault         \* history: whether the server, a download or a task has failed

responseVars == <<responses, operation, initial, answered, links, hasMore, chunkIndex, confirmed>>
queueVars    == <<unconfirmed, linkQueue, queueOpen>>
workerVars   == <<worker, work, guessing, fault>>
thriftVars == <<reorderVars, producer, responseVars, queueVars, workerVars>>

Discovering == {"fetching", "decoding", "sending", "linking"}
Producing   == Discovering \cup {"failing", "flushing", "joining", "reporting"}
Busy        == {"idle", "fetching", "sending", "sending_error"}

TypeOK ==
  /\ ReorderTypeOK
  /\ responses \in Results
  /\ producer \in Producing \cup {"submitting", "closing", "ended"}
  /\ initial \in Seq([inline : BOOLEAN, links : Nat, hasMore : BOOLEAN])
  /\ answered \in 0..Len(responses)
  /\ links \in Nat
  /\ {hasMore, confirmed, queueOpen, fault} \subseteq BOOLEAN
  /\ chunkIndex \in 0..BlobCount(responses)
  /\ unconfirmed \in Seq(Indexes) /\ linkQueue \in Seq(Indexes)
  /\ worker \in [Workers -> Busy \cup {"panicked", "ended"}]
  /\ work \in [Workers -> Indexes \cup {-1}]
  /\ guessing \in [Workers -> BOOLEAN]

-----------------------------------------------------------------------------
(* Mutants                                                                  *)

\* The chunk counter starts again with every response.
NextResponseRestarting == answered' = answered + 1 /\ chunkIndex' = 0

\* A link is handed to a worker as soon as it is known.
HoldsBackNothing == FALSE

\* `let _ = handle.await'
WorkerPanickedUnnoticed == FALSE

\* The task that feeds the queue keeps its receiving end as well.
QueueAbandonedNever == FALSE

\* The receiver is only looked at between two downloads.
StopWorkerBetweenLinks(w) ==
  /\ reader = "dropped"
  /\ worker[w] = "idle"
  /\ worker' = [worker EXCEPT ![w] = "ended"]
  /\ UNCHANGED <<reorderVars, producer, responseVars, queueVars, work, guessing, fault>>

-----------------------------------------------------------------------------
FirstIndex == 0

ThriftInit ==
  /\ ReorderInit
  /\ responses \in Results
  /\ producer = "submitting"
  /\ operation = <<>> /\ initial = <<>>
  /\ answered = 0 /\ links = 0 /\ hasMore = FALSE
  /\ chunkIndex = FirstIndex
  /\ confirmed = FALSE
  /\ unconfirmed = <<>> /\ linkQueue = <<>> /\ queueOpen = TRUE
  /\ worker = [w \in Workers |-> "idle"]
  /\ work = [w \in Workers |-> -1]
  /\ guessing = [w \in Workers |-> FALSE]
  /\ fault = FALSE

ProducerAt(p) == producer' = p

HasRoom == Len(channel) < ChunkFetchConcurrency

Send(message) == channel' = Append(channel, message)

-----------------------------------------------------------------------------
(* submit_thrift_and_start_fetch, as far as what the server says goes       *)

\* ThriftStatementReady
Ready(outcome) ==
  /\ operation' = outcome.operation
  /\ initial' = outcome.initial
  /\ confirmed' = outcome.confirmed
  /\ ProducerAt("fetching")
  /\ UNCHANGED <<nextIdx, exhausted, reader, delivered>>

\* The statement fails: there is nothing to read.
SubmitFails ==
  /\ ProducerAt("ended")
  /\ reader' = "failed"
  /\ UNCHANGED <<nextIdx, exhausted, delivered, operation, initial, confirmed>>

Submit ==
  /\ producer = "submitting"
  /\ \E outcome \in Submissions(responses) : IF outcome.ok THEN Ready(outcome) ELSE SubmitFails
  /\ UNCHANGED <<channelVars, pending, responses, answered, links, hasMore, chunkIndex, queueVars, workerVars>>

-----------------------------------------------------------------------------
(* Discovery                                                                *)

NextResponse == answered' = answered + 1 /\ UNCHANGED chunkIndex

Begin(contents) ==
  /\ NextResponse
  /\ links' = contents.links
  /\ hasMore' = contents.hasMore
  /\ ProducerAt(IF contents.inline THEN "decoding" ELSE "linking")

\* `pending.take()': its metadata was looked at when the statement was run.
TakeInitial ==
  /\ producer = "fetching"
  /\ initial # <<>>
  /\ initial' = <<>>
  /\ Begin(initial[1])
  /\ UNCHANGED <<reorderVars, responses, operation, confirmed, queueVars, workerVars>>

\* thrift_fetch_results_raw has an answer: it is refused, or it is a response.
Answered(outcome) ==
  IF outcome.ok
  THEN /\ Begin(outcome.contents)
       /\ confirmed' = (confirmed \/ outcome.metadata)
       /\ UNCHANGED <<responses, operation, initial>>
  ELSE ProducerAt("failing") /\ UNCHANGED responseVars

MayFetch == producer = "fetching" /\ initial = <<>> /\ reader # "dropped"

FetchResults ==
  /\ MayFetch
  /\ \E outcome \in Fetches(operation, responses, answered + 1) : Answered(outcome)
  /\ UNCHANGED <<reorderVars, queueVars, workerVars>>

\* The call fails, or its answer arrives damaged.
FetchFails ==
  /\ MayFetch
  /\ fault' = TRUE
  /\ \/ ProducerAt("failing") /\ UNCHANGED responseVars
     \/ \E outcome \in Damages(operation, responses, answered + 1) : Answered(outcome)
  /\ UNCHANGED <<reorderVars, queueVars, worker, work, guessing>>

\* `() = tx.closed() => break 'discover'
StopDiscovery ==
  /\ producer = "fetching" /\ initial = <<>> /\ reader = "dropped"
  /\ ProducerAt("flushing")
  /\ UNCHANGED <<reorderVars, responseVars, queueVars, workerVars>>

\* build_inline_blob on a blocking thread, with what is known of the compression.
DecodeInline ==
  /\ producer = "decoding"
  /\ \/ ProducerAt("sending") /\ chunkIndex' = chunkIndex + 1
     \/ ProducerAt("failing") /\ UNCHANGED chunkIndex
  /\ fault' = (fault \/ producer' = "failing")
  /\ UNCHANGED <<reorderVars, responses, operation, initial, answered, links, hasMore, confirmed, queueVars>>
  /\ UNCHANGED <<worker, work, guessing>>

SendInline ==
  /\ producer = "sending"
  /\ \/ reader = "dropped" /\ ProducerAt("flushing") /\ UNCHANGED channel
     \/ reader # "dropped" /\ HasRoom /\ Send(Item(chunkIndex - 1, 1)) /\ ProducerAt("linking")
  /\ UNCHANGED <<senders, bufferVars, readerVars, responseVars, queueVars, workerVars>>

\* The error of a response, or of its decoding, is sent and ends discovery.
SendFailure ==
  /\ producer = "failing"
  /\ \/ reader = "dropped" /\ UNCHANGED channel
     \/ reader # "dropped" /\ HasRoom /\ Send(Failure)
  /\ ProducerAt("flushing")
  /\ UNCHANGED <<senders, bufferVars, readerVars, responseVars, queueVars, workerVars>>

-----------------------------------------------------------------------------
(* The links of a response, and queue_link                                  *)

HoldsBack == ~confirmed

\* `pending_until_confirmed.push(work)'
HoldLink ==
  /\ producer = "linking" /\ links > 0
  /\ HoldsBack
  /\ unconfirmed' = Append(unconfirmed, chunkIndex)
  /\ links' = links - 1
  /\ chunkIndex' = chunkIndex + 1
  /\ UNCHANGED <<reorderVars, producer, responses, operation, initial, answered, hasMore, confirmed, linkQueue, queueOpen, workerVars>>

\* Only the workers hold the receiving end.
QueueAbandoned == \A w \in Workers : worker[w] \notin Busy

\* queue_link says false.
MayNotQueue == reader = "dropped" \/ QueueAbandoned

MayQueue == ~MayNotQueue /\ Len(linkQueue) < ChunkFetchConcurrency

QueueLink ==
  /\ producer = "linking" /\ links > 0
  /\ ~HoldsBack
  /\ chunkIndex' = chunkIndex + 1
  /\ \/ MayQueue /\ linkQueue' = Append(linkQueue, chunkIndex) /\ links' = links - 1 /\ UNCHANGED producer
     \/ MayNotQueue /\ ProducerAt("flushing") /\ UNCHANGED <<linkQueue, links>>
  /\ UNCHANGED <<reorderVars, responses, operation, initial, answered, hasMore, confirmed, unconfirmed, queueOpen, workerVars>>

\* Held back links follow once they are confirmed, or when discovery has ended
\* without.  A failed queue_link drops the rest of the drain with it.
QueueHeldBack ==
  /\ unconfirmed # <<>>
  /\ \/ producer = "linking" /\ links = 0 /\ confirmed
     \/ producer = "flushing"
  /\ \/ /\ MayQueue
        /\ linkQueue' = Append(linkQueue, Head(unconfirmed))
        /\ unconfirmed' = Tail(unconfirmed)
        /\ UNCHANGED producer
     \/ MayNotQueue /\ unconfirmed' = <<>> /\ ProducerAt("flushing") /\ UNCHANGED linkQueue
  /\ UNCHANGED <<reorderVars, responseVars, queueOpen, workerVars>>

\* `if !has_more { break; }'
ResponseDone ==
  /\ producer = "linking" /\ links = 0
  /\ confirmed => unconfirmed = <<>>
  /\ ProducerAt(IF hasMore THEN "fetching" ELSE "flushing")
  /\ UNCHANGED <<reorderVars, responseVars, queueVars, workerVars>>

-----------------------------------------------------------------------------
(* The end of the loop, and drive_thrift_fetch_loop                         *)

CloseQueue ==
  /\ producer = "flushing"
  /\ unconfirmed = <<>>
  /\ queueOpen' = FALSE
  /\ ProducerAt("joining")
  /\ UNCHANGED <<reorderVars, responseVars, unconfirmed, linkQueue, workerVars>>

WorkerPanicked == \E w \in Workers : worker[w] = "panicked"

\* first_worker_panic; without one, `drop(tx)' closes the channel.
JoinWorkers ==
  /\ producer = "joining"
  /\ \A w \in Workers : worker[w] \notin Busy
  /\ IF WorkerPanicked
     THEN ProducerAt("reporting") /\ UNCHANGED senders
     ELSE ProducerAt("closing") /\ senders' = FALSE
  /\ UNCHANGED <<channel, bufferVars, readerVars, responseVars, queueVars, workerVars>>

ReportPanic ==
  /\ producer = "reporting"
  /\ \/ reader = "dropped" /\ UNCHANGED channel
     \/ reader # "dropped" /\ HasRoom /\ Send(Failure)
  /\ senders' = FALSE
  /\ ProducerAt("closing")
  /\ UNCHANGED <<bufferVars, readerVars, responseVars, queueVars, workerVars>>

\* CloseOperation and CloseSession, after the channel has been closed.
CleanUp ==
  /\ producer = "closing"
  /\ ProducerAt("ended")
  /\ UNCHANGED <<reorderVars, responseVars, queueVars, workerVars>>

-----------------------------------------------------------------------------
(* The workers                                                              *)

Become(w, state) == worker' = [worker EXCEPT ![w] = state]

TakeLink(w) ==
  /\ worker[w] = "idle" /\ reader # "dropped"
  /\ linkQueue # <<>>
  /\ work' = [work EXCEPT ![w] = Head(linkQueue)]
  /\ linkQueue' = Tail(linkQueue)
  /\ guessing' = [guessing EXCEPT ![w] = ~confirmed]
  /\ Become(w, "fetching")
  /\ UNCHANGED <<reorderVars, producer, responseVars, unconfirmed, queueOpen, fault>>

QueueDrained(w) ==
  /\ worker[w] = "idle" /\ reader # "dropped"
  /\ linkQueue = <<>> /\ ~queueOpen
  /\ Become(w, "ended")
  /\ UNCHANGED <<reorderVars, producer, responseVars, queueVars, work, guessing, fault>>

\* fetch_thrift_link: its error is sent like a blob, the worker carries on.
FetchLink(w) ==
  /\ worker[w] = "fetching"
  /\ \E state \in {"sending", "sending_error", "panicked"} : Become(w, state) /\ fault' = (fault \/ state # "sending")
  /\ UNCHANGED <<reorderVars, producer, responseVars, queueVars, work, guessing>>

SendBlob(w) ==
  /\ worker[w] \in {"sending", "sending_error"} /\ reader # "dropped"
  /\ HasRoom
  /\ Send(IF worker[w] = "sending" THEN Item(work[w], 1) ELSE Failure)
  /\ Become(w, "idle")
  /\ UNCHANGED <<senders, bufferVars, readerVars, producer, responseVars, queueVars, work, guessing, fault>>

\* `() = out_tx.closed() => {}'
StopWorker(w) ==
  /\ reader = "dropped"
  /\ worker[w] \in Busy
  /\ Become(w, "ended")
  /\ UNCHANGED <<reorderVars, producer, responseVars, queueVars, work, guessing, fault>>

-----------------------------------------------------------------------------
\* What the producer does without waiting for the server or a blocking thread.
ProducerStep ==
  \/ TakeInitial \/ StopDiscovery \/ SendInline \/ SendFailure
  \/ HoldLink \/ QueueLink \/ QueueHeldBack \/ ResponseDone
  \/ CloseQueue \/ JoinWorkers \/ ReportPanic

ReaderMoves ==
  /\ ReaderStep \/ DropReceiver
  /\ producer # "submitting"
  /\ UNCHANGED <<producer, responseVars, queueVars, workerVars>>

ThriftNext ==
  \/ ProducerStep
  \/ Submit
  \/ FetchResults \/ FetchFails \/ DecodeInline \/ CleanUp
  \/ \E w \in Workers : TakeLink(w) \/ QueueDrained(w) \/ FetchLink(w) \/ SendBlob(w) \/ StopWorker(w)
  \/ ReaderMoves

ThriftSpec == ThriftInit /\ [][ThriftNext]_thriftVars

\* Ready tasks are polled, a blocking thread finishes its decoding, the two
\* best-effort requests of the cleanup end.
FairThriftSpec ==
  /\ ThriftSpec
  /\ WF_thriftVars(ProducerStep) /\ WF_thriftVars(DecodeInline) /\ WF_thriftVars(CleanUp)
  /\ \A w \in Workers : WF_thriftVars(TakeLink(w) \/ QueueDrained(w) \/ SendBlob(w) \/ StopWorker(w))

\* No call goes unanswered for ever, nor does a download: both are bounded by
\* their timeouts and retries.
ServersAnswer ==
  /\ []<>~(producer = "submitting" \/ MayFetch)
  /\ \A w \in Workers : WF_thriftVars(FetchLink(w))

PatientReader == WF_thriftVars(ReaderStep /\ UNCHANGED <<producer, responseVars, queueVars, workerVars>>)

-----------------------------------------------------------------------------
(* Properties                                                               *)

ResultBlobs == {Item(i, 1) : i \in 0..BlobCount(responses) - 1}

Promise == INSTANCE OrderedDelivery WITH blobs <- ResultBlobs

\* Inline batches and links, downloaded in any order, reach the reader in the
\* order the responses have them (chunk_index is "assigned once,
\* deterministically, at discovery time").
DeliversInOrder == Promise!Spec

\* "no link is handed to a download worker before compression is
\* authoritatively known at least once", unless discovery has ended without.
CompressionIsKnown ==
  /\ TypeOK
  /\ \A w \in Workers : worker[w] = "fetching" /\ guessing[w] => producer \notin Discovering

\* What the n-th response has to say.
Said(answers, n) ==
  [inline |-> answers[n].inline, links |-> answers[n].links, hasMore |-> n < Len(answers)]

\* The client and the server understand each other about a result: a call is
\* answered, a reply is read as what the server has to say, a damaged one is
\* refused or read so.
Understands(answers) ==
  \A ready \in Submissions(answers) :
    /\ ready.ok
    /\ ready.confirmed \in BOOLEAN
    /\ ready.initial \in {<<>>, <<Said(answers, 1)>>}
    /\ \A n \in DOMAIN answers :
         LET fetched == Fetches(ready.operation, answers, n)
         IN  /\ \A outcome \in fetched : outcome.ok
             /\ \A outcome \in fetched \cup Damages(ready.operation, answers, n) :
                  outcome.ok => outcome.contents = Said(answers, n) /\ outcome.metadata \in BOOLEAN

RepliesAreUnderstood == \A answers \in Results : Understands(answers)

\* No reply of the server is misread, whatever a later version has added to it,
\* and no call of the client is misunderstood (Reader::skip, the `read' and
\* `write' functions); hence the reader is told an error only when something
\* has failed.
FailuresAreReal ==
  /\ producer = "submitting" => Understands(responses)
  /\ reader = "failed" => fault

\* A result nobody reads any more stops being discovered and downloaded, and its
\* operation is closed, even while FetchResults or a download hangs and whatever
\* queue is full.
AbandonedFetchEnds == reader = "dropped" ~> producer = "ended"

\* A reader that keeps reading is told the end or an error, even when every
\* worker has panicked with links left to queue.
PatientReaderIsAnswered == ServersAnswer /\ PatientReader => <>(reader # "reading")
=============================================================================
