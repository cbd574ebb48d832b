---------------------------- MODULE ReorderBuffer ----------------------------
(***************************************************************************)
(* The consuming half of every streamed result: the bounded mpsc channel   *)
(* the fetch workers send chunk blobs into, and the `ReorderBuffer' of     *)
(* pipeline/reorder.rs that turns arrival order back into chunk_index      *)
(* order.  The producing halves (the SEA worker pool, the Thrift fetch     *)
(* loop) extend this module with their own variables and actions.          *)
(*                                                                         *)
(* One iteration of the loop in `ReorderBuffer::next' is one action: the   *)
(* future only suspends at `rx.recv().await', and the arms of the loop     *)
(* touch nothing that another task can see.  A blob is named by its chunk  *)
(* and its position among the chunk's links; its bytes are abstracted.     *)
(***************************************************************************)
EXTENDS Integers, Sequences, FiniteSets

CONSTANTS
  Indexes,     \* the chunk_index values of the result
  LinkCount    \* how many blobs (external_links) each chunk_index carries

ASSUME IndexesAssumption == Indexes \subseteq Nat /\ IsFiniteSet(Indexes)
ASSUME LinkCountAssumption == LinkCount \in [Indexes -> Nat]

Item(i, k) == [kind |-> "item", index |-> i, link |-> k]
Failure    == [kind |-> "error"]

\* Every blob of the result.
Blobs == UNION {{Item(i, k) : k \in 1..LinkCount[i]} : i \in Indexes}

Messages == Blobs \cup {Failure}

VARIABLES
  channel,    \* contents of the mpsc channel, oldest first
  senders,    \* whether some Sender of the channel is still alive
  pending,    \* ReorderBuffer.pending; an absent key is the empty deque
  nextIdx,    \* ReorderBuffer.next_idx
  exhausted,  \* ReorderBuffer.exhausted
  reader,     \* what the consumer has last been told, or that it is gone
  delivered   \* history: the blobs `next' has returned, in order

channelVars == <<channel, senders>>
bufferVars  == <<pending, nextIdx, exhausted>>
readerVars  == <<reader, delivered>>
reorderVars == <<channelVars, bufferVars, readerVars>>

ReaderStates == {"reading", "done", "failed", "dropped"}

Elements(s) == {s[n] : n \in DOMAIN s}

DeliveredBlobs == Elements(delivered)

HasPending(i) == i \in Indexes /\ pending[i] # <<>>

ReorderTypeOK ==
  /\ channel \in Seq(Messages)
  /\ senders \in BOOLEAN
  /\ pending \in [Indexes -> Seq(Blobs)]
  /\ nextIdx \in Nat
  /\ exhausted \in BOOLEAN
  /\ reader \in ReaderStates
  /\ delivered \in Seq(Blobs)

ReorderInit ==
  /\ channel = <<>>
  /\ senders = TRUE
  /\ pending = [i \in Indexes |-> <<>>]
  /\ nextIdx = 0
  /\ exhausted = FALSE
  /\ reader = "reading"
  /\ delivered = <<>>

-----------------------------------------------------------------------------
(* Mutants: plausible slips in the definitions that follow, each substituted *)
(* for the definition it resembles to show that a property would notice.     *)

\* The lowest buffered chunk is handed out without waiting for the source.
MayDrainEagerly == TRUE

\* The index advances before the blob is taken off its deque.
PopKeeping(i) ==
  /\ delivered' = Append(delivered, Head(pending[i]))
  /\ UNCHANGED pending

\* A closed channel is taken for the end even with blobs still buffered.
NothingLeftIgnoringBuffer == ~HasPending(nextIdx)

-----------------------------------------------------------------------------
(* ReorderBuffer::next                                                      *)

\* `self.pending.entry(item.chunk_index).or_default().push_back(item)'
Store(item) == pending' = [pending EXCEPT ![item.index] = Append(@, item)]

\* pop_pending: the oldest blob of index i is returned to the caller.
Pop(i) ==
  /\ delivered' = Append(delivered, Head(pending[i]))
  /\ pending' = [pending EXCEPT ![i] = Tail(@)]

\* The gap drain is only for a source that has ended.
MayDrain == exhausted

NothingLeft == \A i \in Indexes : ~HasPending(i)

\* next_idx is buffered: return its oldest blob, advance once none is left.
PopNext ==
  /\ reader = "reading"
  /\ HasPending(nextIdx)
  /\ Pop(nextIdx)
  /\ nextIdx' = IF Len(pending[nextIdx]) = 1 THEN nextIdx + 1 ELSE nextIdx
  /\ UNCHANGED <<channelVars, exhausted, reader>>

\* The source has ended before next_idx arrived: return the lowest index left.
DrainLowest ==
  /\ reader = "reading"
  /\ ~HasPending(nextIdx)
  /\ MayDrain
  /\ \E i \in Indexes :
       /\ HasPending(i)
       /\ \A j \in Indexes : HasPending(j) => i <= j
       /\ Pop(i)
  /\ UNCHANGED <<channelVars, nextIdx, exhausted, reader>>

\* Ok(None): source ended and nothing buffered.
ReachEnd ==
  /\ reader = "reading"
  /\ exhausted
  /\ NothingLeft
  /\ reader' = "done"
  /\ UNCHANGED <<channelVars, bufferVars, delivered>>

\* `rx.recv()' is only reached with next_idx not buffered and the source open.
Receiving ==
  /\ reader = "reading"
  /\ ~HasPending(nextIdx)
  /\ ~exhausted

ReceiveItem ==
  /\ Receiving
  /\ channel # <<>>
  /\ Head(channel) # Failure
  /\ Store(Head(channel))
  /\ channel' = Tail(channel)
  /\ UNCHANGED <<senders, nextIdx, exhausted, readerVars>>

\* Err(e) goes straight to the caller; both callers stop pulling at once
\* (ResultStream poisons itself, the NDJSON iterator becomes Done).
ReceiveError ==
  /\ Receiving
  /\ channel # <<>>
  /\ Head(channel) = Failure
  /\ channel' = Tail(channel)
  /\ reader' = "failed"
  /\ UNCHANGED <<senders, bufferVars, delivered>>

\* recv() yields None once the channel is empty and every Sender is gone.
ReceiveClosed ==
  /\ Receiving
  /\ channel = <<>>
  /\ ~senders
  /\ exhausted' = TRUE
  /\ UNCHANGED <<channelVars, pending, nextIdx, readerVars>>

\* The owner (ResultStream, NdjsonStream) is dropped: the Receiver closes and
\* discards what the channel holds, the buffered blobs are freed.
DropReceiver ==
  /\ reader # "dropped"
  /\ reader' = "dropped"
  /\ channel' = <<>>
  /\ pending' = [i \in Indexes |-> <<>>]
  /\ UNCHANGED <<senders, nextIdx, exhausted, delivered>>

\* One call of `next' makes one of these steps at a time.
ReaderStep ==
  \/ PopNext
  \/ DrainLowest
  \/ ReachEnd
  \/ ReceiveItem
  \/ ReceiveError
  \/ ReceiveClosed
=============================================================================
