------------------------------ MODULE Downloads ------------------------------
(***************************************************************************)
(* fetch_link_bytes_budgeted of client/download.rs: the cloud-fetch         *)
(* downloads of a client share the permits of download_slots; one that      *)
(* finds spare permits splits its file into parallel Range requests behind  *)
(* a probe that learns the file's size.                                     *)
(*                                                                         *)
(* A request with its retries is one step, but for the probe: its retry     *)
(* starts the parts anew.  A body is the interval of the file it holds.     *)
(***************************************************************************)
EXTENDS Integers, SequencesExt

CONSTANTS
  Batches,         \* the links of a response of FetchResults, for each query
  Slots,           \* chunk_fetch_concurrency: permits of download_slots
  MaxSplitParts,   \* MAX_SPLIT_PARTS
  PartSize,        \* 1 << 20
  Sizes,           \* the sizes files may have
  RetryAttempts

Links == UNION {Range(Batches[n]) : n \in DOMAIN Batches}

ASSUME DownloadsAssumption ==
  /\ Batches \in Seq(Seq(Links))
  /\ \A m, n \in DOMAIN Batches : IsInjective(Batches[n]) /\ (Range(Batches[m]) \cap Range(Batches[n]) # {} => m = n)
  /\ {Slots, MaxSplitParts, PartSize, RetryAttempts} \subseteq Nat \ {0}
  /\ Sizes \subseteq Nat \ {0}

VARIABLES
  permits,   \* available_permits()
  waiters,   \* tasks queued in acquire(), first come first served
  phase,     \* where each download stands
  want,      \* the extra permits it has seen
  held,      \* the permits it holds
  attempt,   \* of retry_call_tracked for the probe
  size,      \* total, 0 while unknown
  parts,     \* the JoinSet: the state of each part's request
  joined,    \* the parts join_next has returned, in that order
  aborted    \* how many aborted requests of it are not gone yet

slotVars == <<permits, waiters, held>>
fileVars == <<attempt, size, parts, joined, aborted>>
vars == <<slotVars, phase, want, fileVars>>

Ended == {"done", "failed", "cancelled"}

Least(a, b) == IF a <= b THEN a ELSE b
Most(a, b)  == IF a >= b THEN a ELSE b
CeilDiv(a, b) == (a + b - 1) \div b

Init ==
  /\ permits = Slots
  /\ waiters = <<>>
  /\ phase = [l \in Links |-> "new"]
  /\ want = [l \in Links |-> 0]
  /\ held = [l \in Links |-> 0]
  /\ attempt = [l \in Links |-> 1]
  /\ size = [l \in Links |-> 0]
  /\ parts = [l \in Links |-> <<>>]
  /\ joined = [l \in Links |-> <<>>]
  /\ aborted = [l \in Links |-> 0]

-----------------------------------------------------------------------------
(* The share of a link, and the ranges of a split                           *)

BatchOf(l) == CHOOSE batch \in Range(Batches) : l \in Range(batch)
Position(l) == CHOOSE i \in DOMAIN BatchOf(l) : BatchOf(l)[i] = l

\* Mutant: every link may take the whole budget.
ShareUnshared(concurrency, position, count) == concurrency

\* The concurrency shared out among the links of a batch, the remainder to the
\* first of them.
Share(concurrency, position, count) ==
  Most(1, concurrency \div count + IF position - 1 < concurrency % count THEN 1 ELSE 0)

\* ThriftLinkWork.split_limit
SplitLimit == [l \in Links |-> Share(Slots, Position(l), Len(BatchOf(l)))]

\* Mutant: the probe is not counted among the parts.
PartCountBesidesProbe(total, parallel) ==
  IF total <= PartSize THEN 0 ELSE Least(CeilDiv(total - PartSize, PartSize), parallel)

\* Mutant: the rest is divided downwards.
PartLengthRoundedDown(total, parallel) ==
  (total - PartSize) \div Least(CeilDiv(total - PartSize, PartSize), parallel - 1)

\* n_rest
PartCount(total, parallel) ==
  IF total <= PartSize THEN 0 ELSE Least(CeilDiv(total - PartSize, PartSize), parallel - 1)

\* rest_size
PartLength(total, parallel) == CeilDiv(total - PartSize, PartCount(total, parallel))

FirstOf(total, parallel, n) == PartSize + n * PartLength(total, parallel)

\* The parts start before the end of the file, the last one is cut off there.
Ranges(total, parallel) ==
  [n \in {n \in 0..PartCount(total, parallel) - 1 : FirstOf(total, parallel, n) < total} |->
     <<FirstOf(total, parallel, n),
       Least(FirstOf(total, parallel, n) + PartLength(total, parallel) - 1, total - 1)>>]

Head0(total) == <<0, Least(PartSize, total) - 1>>

-----------------------------------------------------------------------------
(* tokio's Semaphore                                                        *)

\* Permits that come back go to the queue first.
GiveBack(n, queue) ==
  LET granted == Least(n, Len(queue))
  IN  /\ permits' = permits + n - granted
      /\ waiters' = SubSeq(queue, granted + 1, Len(queue))

Granted(n, queue) == {queue[i] : i \in 1..Least(n, Len(queue))}

Running(l) == {n \in DOMAIN parts[l] : parts[l][n] = "running"}

\* Aborted requests go away when their tasks are next polled.
Abort(l) == aborted' = [aborted EXCEPT ![l] = @ + Cardinality(Running(l))]

\* Download l ends as p: n of its permits come back, its JoinSet is dropped
\* and with it the parts, and whatever else the future holds.
Finish(l, p, n, queue) ==
  /\ GiveBack(n, queue)
  /\ Abort(l)
  /\ want' = [want EXCEPT ![l] = 0]
  /\ attempt' = [attempt EXCEPT ![l] = 1]
  /\ size' = [size EXCEPT ![l] = 0]
  /\ parts' = [parts EXCEPT ![l] = <<>>]
  /\ joined' = [joined EXCEPT ![l] = <<>>]
  /\ held' = [k \in Links |-> CASE k = l -> held[l] - n
                                [] k \in Granted(n, queue) \ {l} -> 1
                                [] OTHER -> held[k]]
  /\ phase' = [k \in Links |-> CASE k = l -> p
                                 [] k \in Granted(n, queue) \ {l} -> "granted"
                                 [] OTHER -> phase[k]]

-----------------------------------------------------------------------------
(* Mutants                                                                  *)

\* Only the base permit comes back from a failed download.
ReleaseBase(l, p) == Finish(l, p, IF held[l] = 0 THEN 0 ELSE 1, waiters)

\* The permits are forgotten.
ReleaseNothing(l, p) == Finish(l, p, 0, waiters)

\* The retry does not wait for the parts of the attempt before.
PartsStoppedUnawaited(l) == TRUE

\* The parts are joined in the order they arrive.
AssembledAsJoined(l) == joined[l]

MoveTo(l, p) == phase' = [phase EXCEPT ![l] = p]

-----------------------------------------------------------------------------
(* The permits of a download                                                *)

\* `download_slots.acquire().await'
Acquire(l) ==
  /\ phase[l] = "new"
  /\ IF permits > 0
     THEN /\ permits' = permits - 1
          /\ held' = [held EXCEPT ![l] = 1]
          /\ MoveTo(l, "granted")
          /\ UNCHANGED waiters
     ELSE /\ waiters' = Append(waiters, l)
          /\ MoveTo(l, "waiting")
          /\ UNCHANGED <<permits, held>>
  /\ UNCHANGED <<want, fileVars>>

Spare(l) == Least(Least(MaxSplitParts, Most(SplitLimit[l], 1)) - 1, permits)

\* available_permits() may be out of date when the permits are claimed.
SeeSpare(l) ==
  /\ phase[l] = "granted"
  /\ want' = [want EXCEPT ![l] = Spare(l)]
  /\ MoveTo(l, "claiming")
  /\ UNCHANGED <<slotVars, fileVars>>

\* try_acquire_many takes all it wants or nothing.
ClaimSpare(l) ==
  /\ phase[l] = "claiming"
  /\ IF 0 < want[l] /\ want[l] <= permits
     THEN /\ permits' = permits - want[l]
          /\ held' = [held EXCEPT ![l] = 1 + want[l]]
          /\ MoveTo(l, "probing")
     ELSE /\ MoveTo(l, "whole")
          /\ UNCHANGED <<permits, held>>
  /\ UNCHANGED <<waiters, want, fileVars>>

\* The queue without l.
Others(l) ==
  IF phase[l] = "waiting" THEN RemoveAt(waiters, CHOOSE i \in DOMAIN waiters : waiters[i] = l) ELSE waiters

\* The permits are dropped with the future of the download.
Release(l, p) == Finish(l, p, held[l], Others(l))

-----------------------------------------------------------------------------
(* fetch_link_bytes and fetch_link_bytes_split                              *)

FetchWhole(l) ==
  /\ phase[l] = "whole"
  /\ Release(l, "done") \/ Release(l, "failed")

RetryProbe(l) ==
  /\ attempt[l] < RetryAttempts
  /\ attempt' = [attempt EXCEPT ![l] = @ + 1]
  /\ UNCHANGED <<slotVars, want, size, parts, joined, aborted>>

\* The headers of the probe: a 206 of the right range starts the parts.
ProbeRanged(l) ==
  /\ phase[l] = "probing"
  /\ \E total \in Sizes :
       /\ size[l] \in {0, total}
       /\ size' = [size EXCEPT ![l] = total]
       /\ parts' = [parts EXCEPT ![l] = [n \in DOMAIN Ranges(total, held[l]) |-> "running"]]
  /\ MoveTo(l, "heading")
  /\ UNCHANGED <<slotVars, want, attempt, joined, aborted>>

\* A 200 carries the whole file; anything else is an error or is tried again.
ProbeOtherwise(l) ==
  /\ phase[l] = "probing"
  /\ \/ Release(l, "done")
     \/ Release(l, "failed")
     \/ RetryProbe(l) /\ UNCHANGED phase

\* A part's request, with the check of its length.
PartEnds(l, n) ==
  /\ n \in Running(l)
  /\ \E to \in {"ok", "failed"} : parts' = [parts EXCEPT ![l][n] = to]
  /\ UNCHANGED <<slotVars, phase, want, attempt, size, joined, aborted>>

HeadArrives(l) ==
  /\ phase[l] = "heading"
  /\ MoveTo(l, "joining")
  /\ UNCHANGED <<slotVars, want, fileVars>>

\* `downloads.shutdown().await', for a body that breaks off or has the wrong
\* length.
HeadFails(l) ==
  /\ phase[l] = "heading"
  /\ MoveTo(l, "aborting")
  /\ Abort(l)
  /\ parts' = [parts EXCEPT ![l] = <<>>]
  /\ UNCHANGED <<slotVars, want, attempt, size, joined>>

AbortedEnds(l) ==
  /\ aborted[l] > 0
  /\ aborted' = [aborted EXCEPT ![l] = @ - 1]
  /\ UNCHANGED <<slotVars, phase, want, attempt, size, parts, joined>>

PartsStopped(l) == aborted[l] = 0

AfterShutdown(l) ==
  /\ phase[l] = "aborting"
  /\ PartsStopped(l)
  /\ \/ Release(l, "failed")
     \/ RetryProbe(l) /\ MoveTo(l, "probing")

\* `downloads.join_next().await', in any order; the first error drops the rest.
JoinPart(l, n) ==
  /\ phase[l] = "joining"
  /\ n \notin Range(joined[l])
  /\ \/ /\ parts[l][n] = "ok"
        /\ joined' = [joined EXCEPT ![l] = Append(@, n)]
        /\ UNCHANGED <<slotVars, phase, want, attempt, size, parts, aborted>>
     \/ parts[l][n] = "failed" /\ Release(l, "failed")

\* `parts.sort_unstable_by_key(|(index, _)| *index)'
Assembled(l) ==
  CHOOSE s \in [1..Cardinality(Range(joined[l])) -> Range(joined[l])] :
    \A i, j \in DOMAIN s : i < j => s[i] < s[j]

AssembleParts(l) ==
  /\ phase[l] = "joining"
  /\ Range(joined[l]) = DOMAIN parts[l]
  /\ Release(l, "done")

\* The future is dropped: the fetch is abandoned, or its worker stopped.
Cancel(l) ==
  /\ phase[l] \notin Ended
  /\ Release(l, "cancelled")

-----------------------------------------------------------------------------
Step(l) ==
  \/ Acquire(l) \/ SeeSpare(l) \/ ClaimSpare(l)
  \/ FetchWhole(l)
  \/ ProbeRanged(l) \/ ProbeOtherwise(l)
  \/ HeadArrives(l) \/ HeadFails(l) \/ AfterShutdown(l)
  \/ \E n \in DOMAIN parts[l] : JoinPart(l, n)
  \/ AssembleParts(l)

RequestEnds(l) == AbortedEnds(l) \/ \E n \in DOMAIN parts[l] : PartEnds(l, n)

Next == \E l \in Links : Step(l) \/ RequestEnds(l) \/ Cancel(l)

Spec == Init /\ [][Next]_vars

\* Tasks are polled and every request ends (http_timeout, retry_attempts).
FairSpec == Spec /\ \A l \in Links : WF_vars(Step(l) \/ RequestEnds(l))

-----------------------------------------------------------------------------
(* Properties                                                               *)

\* The permits of every download that is under way.
PermitsHeld == UNION {{l} \X (1..held[l]) : l \in {l \in Links : phase[l] \notin Ended}}

\* No permit is lost or made up, however downloads end, and none is idle while
\* a download waits for one.
PermitsAddUp ==
  /\ permits + Cardinality(PermitsHeld) = Slots
  /\ waiters # <<>> => permits = 0

Requests(l) ==
  (IF phase[l] \in {"whole", "probing", "heading"} THEN 1 ELSE 0)
    + Cardinality(Running(l)) + aborted[l]

\* A download never has more requests under way than permits, those that a
\* retried probe has aborted included ("Finish cancelling the old parts before
\* retrying the probe under the same download-slot budget").
RequestsWithinPermits == \A l \in Links : phase[l] \notin Ended => Requests(l) <= held[l]

\* A link only ever waits for the requests of another batch: the shares of its
\* own leave it a permit ("Otherwise the first workers can claim eight slots each
\* while the remaining files wait without even starting a request").
BatchNeverWaitsForItself ==
  \A l \in Range(waiters) :
    Len(BatchOf(l)) <= Slots => \E k \in Links \ Range(BatchOf(l)) : phase[k] \notin {"new"} \cup Ended

\* The budget of requests is shared as it should be: nothing is lost or made up,
\* nobody goes beyond what it was given, nobody starves its own batch.
BudgetIsKept == PermitsAddUp /\ RequestsWithinPermits /\ BatchNeverWaitsForItself

\* The probe and the parts, as they are put together, are the file: every byte
\* once and in order.
AssembledIsFile ==
  \A l \in Links :
    phase[l] = "joining" /\ Range(joined[l]) = DOMAIN parts[l] =>
      LET ranges == Ranges(size[l], held[l])
          pieces == <<Head0(size[l])>> \o [i \in DOMAIN Assembled(l) |-> ranges[Assembled(l)[i]]]
      IN  /\ pieces[1][1] = 0 /\ pieces[Len(pieces)][2] = size[l] - 1
          /\ \A i \in 1..Len(pieces) - 1 : pieces[i + 1][1] = pieces[i][2] + 1
          /\ \A i \in DOMAIN pieces : pieces[i][1] <= pieces[i][2]

\* Every download ends: the extra requests of others starve none.
DownloadsEnd == <>(\A l \in Links : phase[l] \in Ended)

-----------------------------------------------------------------------------
(* The inductive invariant                                                  *)

Phases == {"new", "waiting", "granted", "claiming", "whole", "probing", "heading", "aborting", "joining"} \cup Ended

Typed ==
  /\ permits \in Nat
  /\ waiters \in Seq(Links)
  /\ phase \in [Links -> Phases]
  /\ {want, held, attempt, size, aborted} \subseteq [Links -> Nat]
  /\ DOMAIN parts = Links /\ DOMAIN joined = Links

\* The queue holds whoever waits, once.
QueueInv == IsInjective(waiters) /\ Range(waiters) = {l \in Links : phase[l] = "waiting"}

\* What a download holds and has under way, phase by phase: no more permits than
\* its share of the budget, a part for each of them but the probe's, and no part of
\* an attempt that is over.
DownloadInv(l) ==
  /\ phase[l] \in {"new", "waiting"} => held[l] = 0
  /\ phase[l] \in {"granted", "claiming", "whole"} => held[l] = 1
  /\ phase[l] = "claiming" => want[l] < SplitLimit[l]
  /\ phase[l] \in {"probing", "heading", "aborting", "joining"} => held[l] \in 2..SplitLimit[l]
  /\ IF phase[l] \in {"heading", "joining"}
     THEN size[l] \in Sizes /\ DOMAIN parts[l] = DOMAIN Ranges(size[l], held[l])
     ELSE DOMAIN parts[l] = {}
  /\ phase[l] = "aborting" => aborted[l] < held[l]
  /\ phase[l] \notin {"aborting"} \cup Ended => aborted[l] = 0

DownloadsInv ==
  /\ Typed
  /\ QueueInv
  /\ IsFiniteSet(PermitsHeld) /\ PermitsAddUp
  /\ \A l \in Links : DownloadInv(l)
=============================================================================
