-------------------------- MODULE ChunkFetchProofs --------------------------
(***************************************************************************)
(* Theorems about ChunkFetch, for every manifest, every number of links a   *)
(* chunk carries and every concurrency.                                     *)
(***************************************************************************)
EXTENDS ChunkFetch, TLAPS

-----------------------------------------------------------------------------
(* Sequences seen as the set of their elements.                             *)

LEMMA ElementsAppend ==
  ASSUME NEW S, NEW s \in Seq(S), NEW x \in S
  PROVE  Elements(Append(s, x)) = Elements(s) \cup {x}
<1>1. /\ DOMAIN Append(s, x) = 1..(Len(s) + 1)
      /\ DOMAIN s = 1..Len(s)
      /\ Append(s, x)[Len(s) + 1] = x
      /\ \A n \in DOMAIN s : Append(s, x)[n] = s[n]
      /\ Len(s) \in Nat
  OBVIOUS
<1>2. \A n \in DOMAIN Append(s, x) : n = Len(s) + 1 \/ n \in DOMAIN s
  BY <1>1
<1>3. Len(s) + 1 \in DOMAIN Append(s, x) /\ DOMAIN s \subseteq DOMAIN Append(s, x)
  BY <1>1
<1>4. ASSUME NEW y \in Elements(Append(s, x)) PROVE y \in Elements(s) \cup {x}
  BY <1>1, <1>2, <1>4 DEF Elements
<1>5. ASSUME NEW y \in Elements(s) \cup {x} PROVE y \in Elements(Append(s, x))
  BY <1>1, <1>3, <1>5 DEF Elements
<1>. QED
  BY <1>4, <1>5

LEMMA ElementsTail ==
  ASSUME NEW S, NEW s \in Seq(S), s # <<>>
  PROVE  Elements(s) = Elements(Tail(s)) \cup {Head(s)}
<1>1. /\ DOMAIN s = 1..Len(s)
      /\ Len(s) \in Nat /\ Len(s) > 0
      /\ DOMAIN Tail(s) = 1..(Len(s) - 1)
      /\ Head(s) = s[1]
      /\ \A n \in 1..(Len(s) - 1) : Tail(s)[n] = s[n + 1]
  OBVIOUS
<1>2. \A n \in DOMAIN s : n = 1 \/ (n - 1 \in DOMAIN Tail(s) /\ Tail(s)[n - 1] = s[n])
  BY <1>1
<1>3. 1 \in DOMAIN s /\ \A n \in DOMAIN Tail(s) : n + 1 \in DOMAIN s
  BY <1>1
<1>4. ASSUME NEW y \in Elements(s) PROVE y \in Elements(Tail(s)) \cup {Head(s)}
  BY <1>1, <1>2, <1>4 DEF Elements
<1>5. ASSUME NEW y \in Elements(Tail(s)) \cup {Head(s)} PROVE y \in Elements(s)
  BY <1>1, <1>3, <1>5 DEF Elements
<1>. QED
  BY <1>4, <1>5

LEMMA ElementsEmpty == Elements(<<>>) = {}
  BY DEF Elements

-----------------------------------------------------------------------------
(* Blobs, chunks and workers.                                               *)

LEMMA ItemInBlobs ==
  ASSUME NEW i \in Indexes, NEW k \in 1..LinkCount[i]
  PROVE  Item(i, k) \in Blobs
  BY DEF Blobs

LEMMA BlobIsItem ==
  ASSUME NEW b \in Blobs
  PROVE  \E i \in Indexes : \E k \in 1..LinkCount[i] : b = Item(i, k)
  BY DEF Blobs

LEMMA BlobFacts ==
  ASSUME NEW b \in Blobs
  PROVE  b.index \in Indexes /\ b # Failure /\ b \in Messages
<1>1. PICK i \in Indexes : \E k \in 1..LinkCount[i] : b = Item(i, k)
  BY BlobIsItem
<1>2. b.index = i /\ DOMAIN b # DOMAIN Failure
  BY <1>1 DEF Item, Failure
<1>. QED
  BY <1>2 DEF Messages

LEMMA ConcurrencyIsPositive == Concurrency \in Nat /\ Concurrency >= 1
  BY ManifestAssumption, ConcurrencyAssumption DEF Concurrency, AtLeastOne

LEMMA LinksOfChunk ==
  ASSUME NEW i \in Indexes
  PROVE  /\ AllLinks(i) \in Seq(Nat)
         /\ Len(AllLinks(i)) = LinkCount[i] /\ LinkCount[i] \in Nat
         /\ \A k \in 1..LinkCount[i] : AllLinks(i)[k] = k
         /\ AllLinks(i) = <<>> => LinkCount[i] = 0
<1>1. LinkCount[i] \in Nat
  BY LinkCountAssumption
<1>2. AllLinks(i) \in Seq(Nat) /\ Len(AllLinks(i)) = LinkCount[i]
  BY <1>1 DEF AllLinks
<1>3. \A k \in 1..LinkCount[i] : AllLinks(i)[k] = k
  BY DEF AllLinks
<1>. QED
  BY <1>1, <1>2, <1>3

\* What came with the statement for a chunk is nothing or all.
LEMMA PreResolvedIsAll ==
  ASSUME NEW i \in Indexes
  PROVE  PreResolved(i) = <<>> \/ PreResolved(i) = AllLinks(i)
<1>1. CASE EmbeddedOf(i) = <<>>
  BY <1>1 DEF PreResolved
<1>2. CASE EmbeddedOf(i) = [k \in 1..LinkCount[i] |-> [index |-> i, link |-> k]]
  <2>1. LinkCount[i] \in Nat
    BY LinkCountAssumption
  <2>2. Len(EmbeddedOf(i)) = LinkCount[i]
    BY <1>2, <2>1
  <2>3. \A n \in 1..LinkCount[i] : EmbeddedOf(i)[n].link = n
    BY <1>2
  <2>. QED
    BY <2>2, <2>3 DEF PreResolved, AllLinks
<1>. QED
  BY <1>1, <1>2, EmbeddedAssumption

\* A worker is at its chunk's first link until it sends, and has all its links
\* when it fetches.
LinkInRange ==
  \A w \in Workers :
    /\ worker[w] \in {"resolving", "fetching"} => link[w] = 1
    /\ worker[w] \in {"fetching", "sending"} => links[w] = AllLinks(chunk[w])
    /\ worker[w] = "sending" => link[w] \in 1..LinkCount[chunk[w]]

Typed == TypeOK /\ LinkInRange

LEMMA InitTyped == Init => Typed
<1>. SUFFICES ASSUME Init PROVE Typed
  OBVIOUS
<1>1. ReorderTypeOK
  <2>1. \A S : <<>> \in Seq(S)
    OBVIOUS
  <2>. QED
    BY <2>1 DEF Init, ReorderInit, ReorderTypeOK, ReaderStates
<1>2. PoolTypeOK /\ LinkInRange
  <2>1. \A w \in Workers : worker[w] = "idle"
    BY DEF Init
  <2>2. \A S : <<>> \in Seq(S)
    OBVIOUS
  <2>. QED
    BY <2>1, <2>2, ManifestAssumption
    DEF Init, PoolTypeOK, LinkInRange, WorkerStates, DriverStates, Running, Busy
<1>. QED
  BY <1>1, <1>2 DEF Typed, TypeOK

-----------------------------------------------------------------------------
(* Typed is preserved by every step of the reader.                          *)

LEMMA PopTyped ==
  ASSUME ReorderTypeOK, NEW i \in Indexes, HasPending(i), Pop(i)
  PROVE  delivered' \in Seq(Blobs) /\ pending' \in [Indexes -> Seq(Blobs)]
<1>1. pending[i] \in Seq(Blobs) /\ pending[i] # <<>>
  BY DEF ReorderTypeOK, HasPending
<1>2. Head(pending[i]) \in Blobs /\ Tail(pending[i]) \in Seq(Blobs)
  BY <1>1
<1>. QED
  BY <1>2 DEF Pop, ReorderTypeOK

LEMMA ReaderTyped ==
  ASSUME ReorderTypeOK, ReaderStep \/ DropReceiver
  PROVE  ReorderTypeOK'
<1>. USE DEF ReorderTypeOK, ReaderStates, channelVars, bufferVars, readerVars
<1>1. CASE PopNext
  <2>1. nextIdx \in Indexes /\ HasPending(nextIdx) /\ Pop(nextIdx)
    BY <1>1 DEF PopNext, HasPending
  <2>2. delivered' \in Seq(Blobs) /\ pending' \in [Indexes -> Seq(Blobs)]
    BY <2>1, PopTyped
  <2>. QED
    BY <1>1, <2>2 DEF PopNext
<1>2. CASE DrainLowest
  <2>1. PICK i \in Indexes : HasPending(i) /\ Pop(i)
    BY <1>2 DEF DrainLowest
  <2>2. delivered' \in Seq(Blobs) /\ pending' \in [Indexes -> Seq(Blobs)]
    BY <2>1, PopTyped
  <2>. QED
    BY <1>2, <2>2 DEF DrainLowest
<1>3. CASE ReachEnd
  BY <1>3 DEF ReachEnd
<1>4. CASE ReceiveItem
  <2>1. Head(channel) \in Blobs /\ Tail(channel) \in Seq(Messages)
    BY <1>4 DEF ReceiveItem, Messages
  <2>2. Head(channel).index \in Indexes
    BY <2>1, BlobFacts
  <2>3. Append(pending[Head(channel).index], Head(channel)) \in Seq(Blobs)
    BY <2>1, <2>2
  <2>. QED
    BY <1>4, <2>1, <2>2, <2>3 DEF ReceiveItem, Store
<1>5. CASE ReceiveError
  BY <1>5 DEF ReceiveError
<1>6. CASE ReceiveClosed
  BY <1>6 DEF ReceiveClosed
<1>7. CASE DropReceiver
  BY <1>7 DEF DropReceiver
<1>. QED
  BY <1>1, <1>2, <1>3, <1>4, <1>5, <1>6, <1>7 DEF ReaderStep

-----------------------------------------------------------------------------
(* Typed is preserved by every step of the pool.                            *)

LEMMA WorkerTyped ==
  ASSUME Typed, NEW w \in Workers, WorkerStep(w)
  PROVE  Typed'
<1>. USE DEF Typed, TypeOK, ReorderTypeOK, PoolTypeOK, LinkInRange, Become,
             WorkerStates, Running, Busy, Failed, DriverStates, ReaderStates,
             reorderVars, channelVars, bufferVars, readerVars
<1>1. CASE TakeMeta(w)
  <2>1. Head(queue) \in Indexes /\ Tail(queue) \in Seq(Indexes)
    BY <1>1 DEF TakeMeta
  <2>2. PICK i \in Indexes : i = Head(queue)
    BY <2>1
  <2>3. PreResolved(i) = <<>> \/ PreResolved(i) = AllLinks(i)
    BY PreResolvedIsAll
  <2>4. PreResolved(i) \in Seq(Nat)
    <3>1. AllLinks(i) \in Seq(Nat)
      BY LinksOfChunk
    <3>2. <<>> \in Seq(Nat)
      OBVIOUS
    <3>. HIDE DEF Typed
    <3>. QED
      BY <2>3, <3>1, <3>2, Zenon
  <2>5. /\ worker' = [worker EXCEPT ![w] = IF PreResolved(i) = <<>> THEN "resolving" ELSE "fetching"]
        /\ chunk' = [chunk EXCEPT ![w] = i]
        /\ links' = [links EXCEPT ![w] = PreResolved(i)]
        /\ link' = [link EXCEPT ![w] = 1]
    BY <1>1, <2>2 DEF TakeMeta
  <2>a. queue' \in Seq(Indexes) /\ UNCHANGED <<reorderVars, driver>>
    BY <1>1, <2>1 DEF TakeMeta
  <2>6. PoolTypeOK'
    BY <2>4, <2>5, <2>a
  <2>7. LinkInRange'
    BY <2>3, <2>5, <2>a
  <2>. QED
    BY <2>6, <2>7, <2>a
<1>2. CASE QueueDrained(w)
  BY <1>2 DEF QueueDrained
<1>3. CASE Resolve(w)
  <2>1. chunk[w] \in Indexes /\ link[w] = 1
    BY <1>3 DEF Resolve
  <2>2. AllLinks(chunk[w]) \in Seq(Nat)
    BY <2>1, LinksOfChunk
  <2>. QED
    BY <1>3, <2>1, <2>2 DEF Resolve
<1>4. CASE FetchOk(w)
  <2>1. chunk[w] \in Indexes /\ link[w] = 1 /\ links[w] = AllLinks(chunk[w])
    BY <1>4 DEF FetchOk
  <2>2. links[w] # <<>> => link[w] \in 1..LinkCount[chunk[w]]
    <3>1. Len(links[w]) = LinkCount[chunk[w]] /\ LinkCount[chunk[w]] \in Nat
      BY <2>1, LinksOfChunk
    <3>2. links[w] \in Seq(Nat)
      OBVIOUS
    <3>3. links[w] # <<>> => Len(links[w]) # 0
      BY <3>2
    <3>. QED
      BY <2>1, <3>1, <3>3
  <2>. QED
    BY <1>4, <2>1, <2>2 DEF FetchOk
<1>5. CASE FetchErr(w)
  BY <1>5 DEF FetchErr
<1>6. CASE FetchPanic(w)
  BY <1>6 DEF FetchPanic
<1>7. CASE SendBlob(w)
  <2>1. chunk[w] \in Indexes /\ link[w] \in 1..LinkCount[chunk[w]] /\ links[w] = AllLinks(chunk[w])
    BY <1>7 DEF SendBlob
  <2>2. Len(links[w]) = LinkCount[chunk[w]] /\ LinkCount[chunk[w]] \in Nat /\ links[w][link[w]] = link[w]
    BY <2>1, LinksOfChunk
  <2>3. Item(chunk[w], links[w][link[w]]) \in Messages
    BY <2>1, <2>2, ItemInBlobs DEF Messages
  <2>4. channel' \in Seq(Messages)
    BY <1>7, <2>3 DEF SendBlob
  <2>5. CASE MoreLinks(w)
    <3>1. link[w] + 1 \in 1..LinkCount[chunk[w]]
      BY <2>1, <2>2, <2>5 DEF MoreLinks
    <3>2. link' = [link EXCEPT ![w] = @ + 1] /\ UNCHANGED <<worker, chunk, links, queue, driver>>
      BY <1>7, <2>5 DEF SendBlob
    <3>3. LinkInRange'
      BY <2>1, <3>1, <3>2, <1>7 DEF SendBlob
    <3>4. PoolTypeOK'
      BY <2>1, <3>2
    <3>. QED
      BY <1>7, <2>4, <3>3, <3>4 DEF SendBlob
  <2>6. CASE ~MoreLinks(w)
    BY <1>7, <2>4, <2>6 DEF SendBlob
  <2>. QED
    BY <2>5, <2>6
<1>8. CASE StopWorker(w)
  BY <1>8 DEF StopWorker
<1>. QED
  BY <1>1, <1>2, <1>3, <1>4, <1>5, <1>6, <1>7, <1>8 DEF WorkerStep

LEMMA DriverTyped ==
  ASSUME Typed, DriverStep
  PROVE  Typed'
<1>. USE DEF Typed, TypeOK, ReorderTypeOK, PoolTypeOK, LinkInRange,
             DriverStates, channelVars, bufferVars, readerVars
<1>1. CASE DriverJoin
  BY <1>1 DEF DriverJoin
<1>2. CASE DriverReport
  <2>1. Append(channel, Failure) \in Seq(Messages)
    BY DEF Messages
  <2>. QED
    BY <1>2, <2>1 DEF DriverReport
<1>. QED
  BY <1>1, <1>2 DEF DriverStep

LEMMA NextTyped == Typed /\ [Next]_vars => Typed'
<1>. SUFFICES ASSUME Typed, [Next]_vars PROVE Typed'
  OBVIOUS
<1>1. ASSUME NEW w \in Workers, WorkerStep(w) PROVE Typed'
  BY <1>1, WorkerTyped
<1>2. CASE DriverStep
  BY <1>2, DriverTyped
<1>3. CASE ReaderMoves
  <2>1. ReorderTypeOK'
    BY <1>3, ReaderTyped DEF ReaderMoves, Typed, TypeOK
  <2>. QED
    BY <1>3, <2>1 DEF ReaderMoves, poolVars, Typed, TypeOK, PoolTypeOK, LinkInRange
<1>4. CASE UNCHANGED vars
  BY <1>4 DEF vars, poolVars, reorderVars, channelVars, bufferVars, readerVars,
              Typed, TypeOK, ReorderTypeOK, PoolTypeOK, LinkInRange
<1>. QED
  BY <1>1, <1>2, <1>3, <1>4 DEF Next

\* Every reachable state is well typed, whatever the manifest and the
\* concurrency (the state of ReorderBuffer and of the worker pool).
THEOREM TypeCorrect == Spec => []TypeOK
<1>1. Typed => TypeOK
  BY DEF Typed
<1>. QED
  BY <1>1, InitTyped, NextTyped, PTL DEF Spec

-----------------------------------------------------------------------------
(* A complete end.                                                          *)

LEMMA InitComplete == Init => CompletenessInv
<1>. SUFFICES ASSUME Init PROVE CompletenessInv
  OBVIOUS
<1>1. NothingLost
  BY ManifestAssumption DEF Init, NothingLost, Accounted, Elements
<1>2. \A w \in Workers : worker[w] = "idle"
  BY DEF Init
<1>3. OkMeansDrained /\ DriverWaits /\ FailureOnItsWay /\ EndIsReal
  BY <1>2 DEF Init, ReorderInit, OkMeansDrained, DriverWaits, FailureOnItsWay, EndIsReal
<1>. QED
  BY <1>1, <1>3 DEF CompletenessInv

\* The blobs a worker step moves: from the queue to the worker, from the worker
\* to the channel.
LEMMA WorkerLosesNothing ==
  ASSUME Typed, CompletenessInv, NEW w \in Workers, WorkerStep(w)
  PROVE  NothingLost'
<1>. USE DEF CompletenessInv, Typed, TypeOK, ReorderTypeOK, PoolTypeOK, Become, Busy
<1>0. UNCHANGED <<reader, pending, delivered>>
  BY DEF WorkerStep, TakeMeta, QueueDrained, Resolve, FetchOk, FetchErr, FetchPanic, SendBlob,
         StopWorker, reorderVars, channelVars, bufferVars, readerVars
<1>. SUFFICES ASSUME reader # "dropped", NEW i \in Indexes, NEW k \in 1..LinkCount[i]
              PROVE  Accounted(i, k)'
  BY <1>0 DEF NothingLost
<1>a. Accounted(i, k)
  BY DEF NothingLost
<1>b. Elements(pending[i])' = Elements(pending[i]) /\ Elements(delivered)' = Elements(delivered)
  BY <1>0
<1>1. CASE TakeMeta(w)
  <2>1. Elements(queue) = Elements(queue)' \cup {Head(queue)}
    BY <1>1, ElementsTail DEF TakeMeta
  <2>2. /\ worker[w] = "idle" /\ worker'[w] \in Busy
        /\ chunk'[w] = Head(queue) /\ link'[w] = 1
        /\ \A v \in Workers \ {w} :
             worker'[v] = worker[v] /\ chunk'[v] = chunk[v] /\ link'[v] = link[v]
        /\ UNCHANGED channel
    BY <1>1 DEF TakeMeta, reorderVars, channelVars
  <2>3. Elements(channel)' = Elements(channel)
    BY <2>2
  <2>4. WorkerFailed => WorkerFailed'
    BY <2>2 DEF WorkerFailed, Failed
  <2>5. CASE i \in Elements(queue)
    <3>1. CASE i = Head(queue)
      <4>1. worker'[w] \in Busy /\ chunk'[w] = i /\ link'[w] <= k
        BY <2>2, <3>1
      <4>. QED
        BY <4>1 DEF Accounted
    <3>2. CASE i \in Elements(queue)'
      BY <3>2 DEF Accounted
    <3>. QED
      BY <2>1, <2>5, <3>1, <3>2
  <2>6. CASE i \notin Elements(queue)
    BY <1>a, <1>b, <2>2, <2>3, <2>4, <2>6 DEF Accounted
  <2>. QED
    BY <2>5, <2>6
<1>2. CASE QueueDrained(w)
  <2>1. /\ worker[w] = "idle"
        /\ \A v \in Workers \ {w} : worker'[v] = worker[v]
        /\ UNCHANGED <<channel, queue, chunk, link>>
    BY <1>2 DEF QueueDrained, reorderVars, channelVars
  <2>2. WorkerFailed => WorkerFailed'
    BY <2>1 DEF WorkerFailed, Failed
  <2>3. Elements(channel)' = Elements(channel) /\ Elements(queue)' = Elements(queue)
    BY <2>1
  <2>. QED
    BY <1>a, <1>b, <2>1, <2>2, <2>3 DEF Accounted
<1>3. CASE Resolve(w)
  <2>1. /\ worker[w] = "resolving" /\ worker'[w] = "fetching"
        /\ \A v \in Workers \ {w} : worker'[v] = worker[v]
        /\ UNCHANGED <<channel, queue, chunk, link>>
    BY <1>3 DEF Resolve, reorderVars, channelVars
  <2>2. WorkerFailed => WorkerFailed'
    BY <2>1 DEF WorkerFailed, Failed
  <2>3. Elements(channel)' = Elements(channel) /\ Elements(queue)' = Elements(queue)
    BY <2>1
  <2>. QED
    BY <1>a, <1>b, <2>1, <2>2, <2>3 DEF Accounted
<1>4. CASE FetchOk(w)
  <2>1. /\ worker[w] = "fetching"
        /\ worker'[w] = "sending" \/ links[w] = <<>>
        /\ \A v \in Workers \ {w} : worker'[v] = worker[v]
        /\ UNCHANGED <<channel, queue, chunk, link>>
    BY <1>4 DEF FetchOk, reorderVars, channelVars
  <2>2. WorkerFailed => WorkerFailed'
    BY <2>1 DEF WorkerFailed, Failed
  <2>3. Elements(channel)' = Elements(channel) /\ Elements(queue)' = Elements(queue)
    BY <2>1
  <2>4. chunk[w] = i => worker'[w] = "sending"
    <3>1. links[w] = AllLinks(chunk[w]) /\ chunk[w] \in Indexes
      BY <2>1 DEF LinkInRange
    <3>2. links[w] = <<>> => LinkCount[chunk[w]] = 0
      BY <3>1, LinksOfChunk
    <3>. QED
      BY <2>1, <3>2
  <2>. QED
    BY <1>a, <1>b, <2>1, <2>2, <2>3, <2>4 DEF Accounted
<1>5. CASE FetchErr(w) \/ FetchPanic(w)
  <2>1. WorkerFailed'
    BY <1>5 DEF FetchErr, FetchPanic, WorkerFailed, Failed
  <2>. QED
    BY <2>1 DEF Accounted
<1>6. CASE SendBlob(w)
  <2>1. chunk[w] \in Indexes /\ link[w] \in 1..LinkCount[chunk[w]] /\ links[w] = AllLinks(chunk[w])
    BY <1>6 DEF SendBlob, LinkInRange
  <2>2. Len(links[w]) = LinkCount[chunk[w]] /\ links[w][link[w]] = link[w]
    BY <2>1, LinksOfChunk
  <2>3. Item(chunk[w], link[w]) \in Messages
    BY <2>1, ItemInBlobs DEF Messages
  <2>4. Elements(channel)' = Elements(channel) \cup {Item(chunk[w], link[w])}
    BY <1>6, <2>2, <2>3, ElementsAppend DEF SendBlob
  <2>5. /\ worker[w] = "sending"
        /\ \A v \in Workers \ {w} : worker'[v] = worker[v] /\ link'[v] = link[v]
        /\ UNCHANGED <<queue, chunk>>
    BY <1>6 DEF SendBlob
  <2>6. WorkerFailed => WorkerFailed'
    BY <2>5 DEF WorkerFailed, Failed
  <2>7. Elements(queue)' = Elements(queue)
    BY <2>5
  <2>8. chunk[w] = i /\ link[w] <= k =>
          Item(i, k) \in Elements(channel)' \/ (worker'[w] = "sending" /\ link'[w] <= k)
    <3>1. CASE MoreLinks(w)
      BY <1>6, <2>1, <2>4, <3>1 DEF SendBlob
    <3>2. CASE ~MoreLinks(w)
      BY <2>1, <2>2, <2>4, <3>2, LinkCountAssumption DEF MoreLinks
    <3>. QED
      BY <3>1, <3>2
  <2>. QED
    BY <1>a, <1>b, <2>4, <2>5, <2>6, <2>7, <2>8 DEF Accounted
<1>7. CASE StopWorker(w)
  BY <1>7 DEF StopWorker
<1>. QED
  BY <1>1, <1>2, <1>3, <1>4, <1>5, <1>6, <1>7 DEF WorkerStep

LEMMA WorkerComplete ==
  ASSUME Typed, CompletenessInv, NEW w \in Workers, WorkerStep(w)
  PROVE  CompletenessInv'
<1>. USE DEF CompletenessInv, Typed, TypeOK, ReorderTypeOK, PoolTypeOK, Become, Busy
<1>1. /\ UNCHANGED <<senders, pending, nextIdx, exhausted, reader, delivered, driver>>
      /\ worker[w] \in Running
      /\ \A v \in Workers \ {w} : worker'[v] = worker[v]
  BY DEF WorkerStep, TakeMeta, QueueDrained, Resolve, FetchOk, FetchErr, FetchPanic, SendBlob,
         StopWorker, reorderVars, channelVars, bufferVars, readerVars, Running
<1>2. driver = "joining" /\ senders
  BY <1>1 DEF DriverWaits, AllJoined
<1>3. NothingLost'
  BY WorkerLosesNothing
<1>4. OkMeansDrained'
  <2>1. SUFFICES ASSUME reader # "dropped", NEW v \in Workers, worker'[v] = "ok"
                 PROVE  queue' = <<>>
    BY <1>1 DEF OkMeansDrained
  <2>2. queue = <<>>
    <3>1. CASE v # w
      BY <1>1, <2>1, <3>1 DEF OkMeansDrained
    <3>2. CASE v = w
      BY <1>1, <2>1, <3>2 DEF WorkerStep, TakeMeta, QueueDrained, Resolve, FetchOk, FetchErr,
           FetchPanic, SendBlob, StopWorker, Running
    <3>. QED
      BY <3>1, <3>2
  <2>. QED
    BY <2>2 DEF WorkerStep, TakeMeta, QueueDrained, Resolve, FetchOk, FetchErr, FetchPanic,
                SendBlob, StopWorker
<1>5. DriverWaits' /\ FailureOnItsWay'
  BY <1>1, <1>2 DEF DriverWaits, FailureOnItsWay
<1>6. EndIsReal'
  <2>1. ~(exhausted /\ reader # "dropped")
    BY <1>2 DEF EndIsReal
  <2>2. reader # "done"
    BY <2>1 DEF EndIsReal
  <2>. QED
    BY <1>1, <2>1, <2>2 DEF EndIsReal
<1>. QED
  BY <1>3, <1>4, <1>5, <1>6

LEMMA DriverComplete ==
  ASSUME Typed, CompletenessInv, DriverStep
  PROVE  CompletenessInv'
<1>. USE DEF CompletenessInv, Typed, TypeOK, ReorderTypeOK, PoolTypeOK
<1>1. UNCHANGED <<pending, nextIdx, exhausted, reader, delivered, queue, worker, chunk, links, link>>
  BY DEF DriverStep, DriverJoin, DriverReport, bufferVars, readerVars
<1>2. AllJoined /\ AllJoined' /\ WorkerFailed' = WorkerFailed
  BY <1>1 DEF DriverStep, DriverJoin, DriverReport, DriverWaits, AllJoined, WorkerFailed
<1>3. Elements(channel)' = Elements(channel)
        \/ Elements(channel)' = Elements(channel) \cup {Failure}
  <2>1. channel' = channel \/ channel' = Append(channel, Failure)
    BY DEF DriverStep, DriverJoin, DriverReport
  <2>2. channel \in Seq(Messages) /\ Failure \in Messages
    BY DEF Messages
  <2>3. Elements(Append(channel, Failure)) = Elements(channel) \cup {Failure}
    BY <2>2, ElementsAppend
  <2>. QED
    BY <2>1, <2>3
<1>4. NothingLost'
  <2>1. Elements(queue)' = Elements(queue) /\ Elements(delivered)' = Elements(delivered)
    BY <1>1
  <2>2. \A i \in Indexes : Elements(pending[i])' = Elements(pending[i])
    BY <1>1
  <2>. QED
    BY <1>1, <1>2, <1>3, <2>1, <2>2 DEF NothingLost, Accounted
<1>5. OkMeansDrained'
  BY <1>1 DEF OkMeansDrained
<1>6. DriverWaits' /\ senders
  BY <1>2 DEF DriverWaits, DriverStep, DriverJoin, DriverReport, DriverStates
<1>7. FailureOnItsWay'
  <2>1. CASE DriverJoin
    BY <1>2, <2>1 DEF DriverJoin, FailureOnItsWay
  <2>2. CASE DriverReport
    <3>1. Failure \in Messages
      BY DEF Messages
    <3>2. CASE reader = "dropped"
      BY <1>1, <3>2 DEF FailureOnItsWay
    <3>3. CASE reader # "dropped"
      <4>1. Elements(channel)' = Elements(channel) \cup {Failure}
        BY <2>2, <3>1, <3>3, ElementsAppend DEF DriverReport
      <4>. QED
        BY <4>1 DEF FailureOnItsWay
    <3>. QED
      BY <3>2, <3>3
  <2>. QED
    BY <2>1, <2>2 DEF DriverStep
<1>8. EndIsReal'
  <2>1. ~(exhausted /\ reader # "dropped") /\ reader # "done"
    BY <1>6 DEF EndIsReal
  <2>. QED
    BY <1>1, <2>1 DEF EndIsReal
<1>. QED
  BY <1>4, <1>5, <1>6, <1>7, <1>8

\* Popping a blob moves it from the buffer to the reader.
LEMMA PopMoves ==
  ASSUME ReorderTypeOK, NEW i \in Indexes, HasPending(i), Pop(i)
  PROVE  /\ \A j \in Indexes :
              Elements(pending[j]) \subseteq Elements(pending[j])' \cup Elements(delivered)'
         /\ Elements(delivered) \subseteq Elements(delivered)'
<1>1. pending \in [Indexes -> Seq(Blobs)] /\ pending[i] \in Seq(Blobs) /\ pending[i] # <<>>
      /\ delivered \in Seq(Blobs)
  BY DEF ReorderTypeOK, HasPending
<1>2. Elements(pending[i]) = Elements(Tail(pending[i])) \cup {Head(pending[i])}
  BY <1>1, ElementsTail
<1>3. Head(pending[i]) \in Blobs
  BY <1>1
<1>4. Elements(delivered)' = Elements(delivered) \cup {Head(pending[i])}
  BY <1>1, <1>3, ElementsAppend DEF Pop
<1>5. Elements(pending[i])' = Elements(Tail(pending[i]))
  BY <1>1 DEF Pop
<1>6. \A j \in Indexes \ {i} : Elements(pending[j])' = Elements(pending[j])
  BY <1>1 DEF Pop
<1>. QED
  BY <1>2, <1>4, <1>5, <1>6

\* Storing the channel's oldest message moves it to the buffer of its index.
LEMMA StoreMoves ==
  ASSUME ReorderTypeOK, channel # <<>>, Head(channel) # Failure,
         Store(Head(channel)), channel' = Tail(channel)
  PROVE  /\ \A j \in Indexes : Elements(pending[j]) \subseteq Elements(pending[j])'
         /\ \A j \in Indexes : \A k \in 1..LinkCount[j] :
              Item(j, k) \in Elements(channel) =>
                Item(j, k) \in Elements(channel)' \/ Item(j, k) \in Elements(pending[j])'
         /\ Failure \in Elements(channel) => Failure \in Elements(channel)'
<1>1. channel \in Seq(Messages) /\ Head(channel) \in Blobs
      /\ pending \in [Indexes -> Seq(Blobs)]
  BY DEF ReorderTypeOK, Messages
<1>2. PICK m \in Blobs : m = Head(channel)
  BY <1>1
<1>3. PICK i \in Indexes : i = m.index
  BY BlobFacts
<1>4. Elements(pending[i])' = Elements(pending[i]) \cup {m}
  <2>1. Elements(Append(pending[i], m)) = Elements(pending[i]) \cup {m}
    BY <1>1, ElementsAppend
  <2>2. pending'[i] = Append(pending[i], m)
    BY <1>1, <1>2, <1>3 DEF Store
  <2>. QED
    BY <2>1, <2>2
<1>5. \A j \in Indexes : j # i => Elements(pending[j])' = Elements(pending[j])
  BY <1>1, <1>2, <1>3 DEF Store
<1>6. Elements(channel) = Elements(channel)' \cup {m}
  BY <1>1, <1>2, ElementsTail
<1>7. \A j, k : Item(j, k) = m => j = i
  BY <1>3 DEF Item
<1>8. m # Failure
  BY <1>2
<1>. QED
  BY <1>4, <1>5, <1>6, <1>7, <1>8

LEMMA ReaderComplete ==
  ASSUME Typed, CompletenessInv, ReaderMoves
  PROVE  CompletenessInv'
<1>. USE DEF CompletenessInv
<1>0. ReorderTypeOK /\ UNCHANGED poolVars /\ (ReaderStep \/ DropReceiver)
  BY DEF ReaderMoves, Typed, TypeOK
<1>1. UNCHANGED <<senders, queue, worker, chunk, links, link, driver>>
  BY <1>0 DEF poolVars, ReaderStep, PopNext, DrainLowest, ReachEnd, ReceiveItem, ReceiveError,
         ReceiveClosed, DropReceiver, channelVars, bufferVars, readerVars
<1>2. AllJoined' = AllJoined /\ WorkerFailed' = WorkerFailed /\ DriverWaits'
  BY <1>1 DEF AllJoined, WorkerFailed, DriverWaits
<1>3. Elements(queue)' = Elements(queue)
  BY <1>1
<1>4. CASE DropReceiver
  BY <1>2, <1>4 DEF DropReceiver, NothingLost, OkMeansDrained, FailureOnItsWay, EndIsReal
<1>5. CASE ReaderStep
  <2>1. reader = "reading" /\ reader' # "dropped"
    BY <1>5 DEF ReaderStep, PopNext, DrainLowest, ReachEnd, ReceiveItem, ReceiveError,
       ReceiveClosed, Receiving, readerVars
  <2>2. OkMeansDrained'
    BY <1>1, <2>1 DEF OkMeansDrained
  <2>3. (\A i \in Indexes : \A k \in 1..LinkCount[i] : Accounted(i, k))
    BY <2>1 DEF NothingLost
  <2>4. CASE PopNext \/ DrainLowest
    <3>1. PICK j \in Indexes : HasPending(j) /\ Pop(j)
      BY <2>4 DEF PopNext, DrainLowest, HasPending
    <3>2. UNCHANGED <<channel, exhausted, reader>>
      BY <2>4 DEF PopNext, DrainLowest, channelVars
    <3>3. Elements(channel)' = Elements(channel)
      BY <3>2
    <3>4. /\ \A i \in Indexes :
               Elements(pending[i]) \subseteq Elements(pending[i])' \cup Elements(delivered)'
          /\ Elements(delivered) \subseteq Elements(delivered)'
      BY <1>0, <3>1, PopMoves
    <3>5. NothingLost'
      BY <1>1, <1>2, <1>3, <2>3, <3>3, <3>4 DEF NothingLost, Accounted
    <3>. QED
      BY <1>1, <1>2, <2>1, <2>2, <3>2, <3>3, <3>5 DEF FailureOnItsWay, EndIsReal
  <2>5. CASE ReceiveItem
    <3>1. UNCHANGED <<exhausted, reader, delivered>> /\ ~exhausted
      BY <2>5 DEF ReceiveItem, Receiving, readerVars
    <3>2. Elements(delivered)' = Elements(delivered)
      BY <3>1
    <3>3. /\ \A j \in Indexes : Elements(pending[j]) \subseteq Elements(pending[j])'
          /\ \A j \in Indexes : \A k \in 1..LinkCount[j] :
               Item(j, k) \in Elements(channel) =>
                 Item(j, k) \in Elements(channel)' \/ Item(j, k) \in Elements(pending[j])'
          /\ Failure \in Elements(channel) => Failure \in Elements(channel)'
      BY <1>0, <2>5, StoreMoves DEF ReceiveItem
    <3>4. NothingLost'
      BY <1>1, <1>2, <1>3, <2>3, <3>2, <3>3 DEF NothingLost, Accounted
    <3>. QED
      BY <1>1, <1>2, <2>1, <2>2, <3>1, <3>3, <3>4 DEF FailureOnItsWay, EndIsReal
  <2>6. CASE ReachEnd
    <3>1. UNCHANGED <<channel, pending, exhausted, delivered>> /\ reader' = "done"
          /\ exhausted /\ NothingLeft
      BY <2>6 DEF ReachEnd, channelVars, bufferVars
    <3>2. NothingLost' /\ NothingLeft'
      BY <1>1, <1>2, <1>3, <2>3, <3>1 DEF NothingLost, Accounted, NothingLeft, HasPending
    <3>3. FailureOnItsWay' /\ EndIsReal'
      BY <1>1, <1>2, <2>1, <3>1, <3>2, ElementsEmpty DEF FailureOnItsWay, EndIsReal
    <3>. QED
      BY <1>2, <2>2, <3>2, <3>3
  <2>7. CASE ReceiveError
    <3>1. /\ UNCHANGED <<pending, exhausted, delivered>> /\ ~exhausted
          /\ reader' = "failed" /\ channel # <<>> /\ channel' = Tail(channel)
          /\ Head(channel) = Failure
      BY <2>7 DEF ReceiveError, Receiving, bufferVars
    <3>2. Elements(channel) = Elements(channel)' \cup {Failure}
      BY <1>0, <3>1, ElementsTail DEF ReorderTypeOK
    <3>3. \A i, k : Item(i, k) # Failure
      BY DEF Item, Failure
    <3>4. NothingLost'
      BY <1>1, <1>2, <1>3, <2>3, <3>1, <3>2, <3>3 DEF NothingLost, Accounted
    <3>. QED
      BY <1>1, <1>2, <2>1, <2>2, <3>1, <3>4 DEF FailureOnItsWay, EndIsReal
  <2>8. CASE ReceiveClosed
    <3>1. UNCHANGED <<channel, pending, delivered, reader>> /\ channel = <<>> /\ ~senders
      BY <2>8 DEF ReceiveClosed, channelVars, readerVars
    <3>2. NothingLost'
      BY <1>1, <1>2, <1>3, <2>3, <3>1 DEF NothingLost, Accounted
    <3>. QED
      BY <1>1, <1>2, <2>1, <2>2, <3>1, <3>2 DEF FailureOnItsWay, EndIsReal
  <2>. QED
    BY <1>5, <2>4, <2>5, <2>6, <2>7, <2>8 DEF ReaderStep
<1>. QED
  BY <1>0, <1>4, <1>5

LEMMA NextComplete == Typed /\ CompletenessInv /\ [Next]_vars => CompletenessInv'
<1>. SUFFICES ASSUME Typed, CompletenessInv, [Next]_vars PROVE CompletenessInv'
  OBVIOUS
<1>1. ASSUME NEW w \in Workers, WorkerStep(w) PROVE CompletenessInv'
  BY <1>1, WorkerComplete
<1>2. CASE DriverStep
  BY <1>2, DriverComplete
<1>3. CASE ReaderMoves
  BY <1>3, ReaderComplete
<1>4. CASE UNCHANGED vars
  BY <1>4 DEF vars, poolVars, reorderVars, channelVars, bufferVars, readerVars,
     CompletenessInv, NothingLost, Accounted, OkMeansDrained, DriverWaits,
     FailureOnItsWay, EndIsReal, AllJoined, WorkerFailed, NothingLeft, HasPending, Elements
<1>. QED
  BY <1>1, <1>2, <1>3, <1>4 DEF Next

\* Once the source has ended without a word, no worker has failed and every
\* blob has reached the buffer.
LEMMA SourceEnded ==
  ASSUME Typed, CompletenessInv, exhausted, reader # "dropped"
  PROVE  /\ ~WorkerFailed
         /\ \A b \in Blobs : b \in Elements(pending[b.index]) \cup Elements(delivered)
<1>. USE DEF CompletenessInv
<1>1. channel = <<>> /\ ~senders /\ reader # "failed"
  BY DEF EndIsReal
<1>2. driver = "ended" /\ AllJoined
  BY <1>1 DEF DriverWaits
<1>3. ~WorkerFailed
  BY <1>1, <1>2, ElementsEmpty DEF FailureOnItsWay
<1>4. \A w \in Workers : worker[w] = "ok"
  BY <1>2, <1>3 DEF AllJoined, WorkerFailed, Typed, TypeOK, PoolTypeOK, WorkerStates
<1>5. queue = <<>>
  <2>1. 1 \in Workers
    BY ConcurrencyIsPositive DEF Workers
  <2>. QED
    BY <1>4, <2>1 DEF OkMeansDrained
<1>6. ASSUME NEW i \in Indexes, NEW k \in 1..LinkCount[i]
      PROVE  Item(i, k) \in Elements(pending[i]) \cup Elements(delivered)
  <2>1. Accounted(i, k)
    BY DEF NothingLost
  <2>2. Elements(queue) = {} /\ Elements(channel) = {}
    BY <1>1, <1>5, ElementsEmpty
  <2>. QED
    BY <1>3, <1>4, <2>1, <2>2 DEF Accounted, Busy
<1>7. ASSUME NEW b \in Blobs
      PROVE  b \in Elements(pending[b.index]) \cup Elements(delivered)
  <2>1. PICK i \in Indexes : \E k \in 1..LinkCount[i] : b = Item(i, k)
    BY BlobIsItem
  <2>2. b.index = i
    BY <2>1 DEF Item
  <2>. QED
    BY <1>6, <2>1, <2>2
<1>. QED
  BY <1>3, <1>7

LEMMA CompleteEnd == Typed /\ CompletenessInv => NoSilentTruncation
<1>. SUFFICES ASSUME Typed, CompletenessInv, reader = "done"
              PROVE  DeliveredBlobs = Blobs /\ ~WorkerFailed
  BY DEF NoSilentTruncation
<1>1. exhausted /\ NothingLeft
  BY DEF CompletenessInv, EndIsReal
<1>2. ~WorkerFailed
  BY <1>1, SourceEnded
<1>3. ASSUME NEW b \in Blobs PROVE b \in Elements(delivered)
  <2>1. b \in Elements(pending[b.index]) \cup Elements(delivered)
    BY <1>1, SourceEnded
  <2>2. pending[b.index] = <<>>
    BY <1>1, BlobFacts DEF NothingLeft, HasPending
  <2>. QED
    BY <2>1, <2>2, ElementsEmpty
<1>4. Elements(delivered) \subseteq Blobs
  BY DEF Elements, Typed, TypeOK, ReorderTypeOK
<1>. QED
  BY <1>2, <1>3, <1>4 DEF DeliveredBlobs

\* A reader is told the end of its result only after every blob of it, for
\* every manifest, number of links per chunk and concurrency, whatever fails
\* or panics and in whatever order the workers finish.
THEOREM EndIsComplete == Spec => []NoSilentTruncation
<1>1. Init => Typed /\ CompletenessInv
  BY InitTyped, InitComplete
<1>2. Typed /\ CompletenessInv /\ [Next]_vars => (Typed /\ CompletenessInv)'
  BY NextTyped, NextComplete
<1>3. Typed /\ CompletenessInv => NoSilentTruncation
  BY CompleteEnd
<1>. QED
  BY <1>1, <1>2, <1>3, PTL DEF Spec

-----------------------------------------------------------------------------
(* The order of the blobs.  What is shown is shown of results in which only  *)
(* the last chunk may carry more than one blob: the reader moves past an     *)
(* index as soon as its deque is empty (MCChunkFetch, ChunkFetch_two_links). *)

SingleLinks ==
  \A i \in Indexes : LinkCount[i] > 1 => \A j \in Indexes : j <= i

LEMMA ElementsPosition ==
  ASSUME NEW S, NEW s \in Seq(S), s # <<>>, NEW y \in Elements(Tail(s))
  PROVE  \E n \in DOMAIN s : n > 1 /\ s[n] = y
<1>1. PICK n \in DOMAIN Tail(s) : Tail(s)[n] = y
  BY DEF Elements
<1>2. n \in 1..(Len(s) - 1) /\ Tail(s)[n] = s[n + 1]
  BY <1>1
<1>. QED
  BY <1>1, <1>2

LEMMA LinkIsNat ==
  ASSUME NEW b \in Blobs
  PROVE  /\ b.index \in Indexes /\ b.index \in Nat
         /\ b.link \in Nat /\ b.link \in 1..LinkCount[b.index]
         /\ b = Item(b.index, b.link)
<1>1. PICK i \in Indexes : \E k \in 1..LinkCount[i] : b = Item(i, k)
  BY BlobIsItem
<1>2. PICK k \in 1..LinkCount[i] : b = Item(i, k)
  BY <1>1
<1>3. b.index = i /\ b.link = k
  BY <1>2 DEF Item
<1>. QED
  BY <1>2, <1>3, IndexesAssumption, LinkCountAssumption

LEMMA InitOrder == Init => OrderInv
<1>. SUFFICES ASSUME Init PROVE OneHolder /\ SentInTurn /\ InLine /\ PassedIsDelivered
  BY DEF OrderInv
<1>1. \A w \in Workers : worker[w] = "idle"
  BY DEF Init
<1>2. OneHolder
  BY <1>1, ManifestAssumption DEF Init, OneHolder, Busy
<1>3. /\ channel = <<>> /\ delivered = <<>> /\ nextIdx = 0
      /\ \A i \in Indexes : pending[i] = <<>>
  BY DEF Init, ReorderInit
<1>4. \A b \in Blobs : ~Sent(b)
  BY <1>3, ElementsEmpty, BlobFacts DEF Sent
<1>5. SentInTurn
  BY <1>1, <1>4 DEF SentInTurn
<1>6. InLine
  BY <1>3, ElementsEmpty, BlobFacts DEF InLine, StagesInLine, ChannelInLine, PendingInLine
<1>7. PassedIsDelivered
  BY <1>3, LinkIsNat DEF PassedIsDelivered
<1>. QED
  BY <1>2, <1>5, <1>6, <1>7

\* A worker step that touches neither the queue nor a blob.
LEMMA WorkerAloneOrder ==
  ASSUME Typed, OrderInv, NEW w \in Workers,
         UNCHANGED <<reorderVars, queue, chunk, link>>,
         \A v \in Workers \ {w} : worker'[v] = worker[v],
         worker'[w] \in Busy => worker[w] \in Busy,
         worker'[w] = "sending" => link[w] = 1
  PROVE  OrderInv'
<1>. SUFFICES ASSUME reader # "dropped"
              PROVE  (OneHolder /\ SentInTurn /\ InLine /\ PassedIsDelivered)'
  BY DEF OrderInv, reorderVars, readerVars
<1>1. OneHolder /\ SentInTurn /\ InLine /\ PassedIsDelivered
  BY DEF OrderInv
<1>2. UNCHANGED <<channel, pending, delivered, nextIdx, queue, chunk, link>>
  BY DEF reorderVars, channelVars, bufferVars, readerVars
<1>3. \A v \in Workers : worker'[v] \in Busy => worker[v] \in Busy
  OBVIOUS
<1>4. OneHolder'
  BY <1>1, <1>2, <1>3 DEF OneHolder, Elements
<1>5. \A b : Sent(b)' = Sent(b)
  BY <1>2 DEF Sent, Elements
<1>6. \A v \in Workers :
        worker'[v] = "sending" => \A a \in Earlier(Item(chunk[v], link[v])) : Sent(a)
  <2>1. \A a \in Blobs : ~(a.link < 1)
    BY LinkIsNat
  <2>2. \A a \in Earlier(Item(chunk[w], link[w])) : a \in Blobs /\ a.link < link[w]
    BY DEF Earlier, Item
  <2>. QED
    BY <1>1, <2>1, <2>2 DEF SentInTurn
<1>7. SentInTurn'
  BY <1>1, <1>2, <1>3, <1>5, <1>6 DEF SentInTurn, Elements
<1>8. InLine' /\ PassedIsDelivered'
  BY <1>1, <1>2 DEF InLine, StagesInLine, ChannelInLine, PendingInLine, PassedIsDelivered, Elements
<1>. QED
  BY <1>4, <1>7, <1>8

LEMMA TakeMetaOrder ==
  ASSUME Typed, OrderInv, NEW w \in Workers, TakeMeta(w)
  PROVE  OrderInv'
<1>1. /\ OneHolder /\ SentInTurn /\ InLine /\ PassedIsDelivered
      /\ reader # "dropped"
  BY DEF OrderInv, TakeMeta
<1>2. UNCHANGED <<channel, pending, delivered, nextIdx>>
  BY DEF TakeMeta, reorderVars, channelVars, bufferVars, readerVars
<1>3. queue \in Seq(Indexes) /\ queue # <<>> /\ queue' = Tail(queue)
  BY DEF TakeMeta, Typed, TypeOK, PoolTypeOK
<1>. DEFINE i == Head(queue)
<1>4. /\ worker[w] = "idle" /\ worker'[w] \in {"resolving", "fetching"}
      /\ chunk'[w] = i /\ link'[w] = 1
      /\ \A v \in Workers \ {w} :
           worker'[v] = worker[v] /\ chunk'[v] = chunk[v] /\ link'[v] = link[v]
  BY DEF TakeMeta, Become, Typed, TypeOK, PoolTypeOK
<1>5. /\ i \in Elements(queue)
      /\ Elements(queue') \subseteq Elements(queue)
      /\ i \notin Elements(queue')
      /\ \A m, n \in DOMAIN queue' : queue'[m] = queue'[n] => m = n
  <2>1. /\ DOMAIN queue = 1..Len(queue) /\ Len(queue) \in Nat /\ Len(queue) > 0
        /\ DOMAIN queue' = 1..(Len(queue) - 1)
        /\ i = queue[1]
        /\ \A n \in 1..(Len(queue) - 1) : queue'[n] = queue[n + 1]
    BY <1>3
  <2>2. Elements(queue) = Elements(queue') \cup {i}
    BY <1>3, ElementsTail
  <2>3. \A m, n \in DOMAIN queue : queue[m] = queue[n] => m = n
    BY <1>1 DEF OneHolder
  <2>4. 1 \in DOMAIN queue /\ \A n \in DOMAIN queue' : n + 1 \in DOMAIN queue /\ n + 1 # 1
    BY <2>1
  <2>5. i \notin Elements(queue')
    BY <2>1, <2>3, <2>4 DEF Elements
  <2>6. \A m, n \in DOMAIN queue' : queue'[m] = queue'[n] => m + 1 = n + 1
    BY <2>1, <2>3, <2>4
  <2>7. \A m, n \in DOMAIN queue' : m \in Int /\ n \in Int
    BY <2>1
  <2>. QED
    BY <2>2, <2>5, <2>6, <2>7
<1>. HIDE DEF i
<1>6. OneHolder'
  <2>1. \A v \in Workers \ {w} : worker[v] \in Busy => chunk[v] # i
    BY <1>1, <1>5 DEF OneHolder
  <2>2. \A v \in Workers \ {w} : worker'[v] \in Busy => chunk'[v] # i /\ chunk'[v] \notin Elements(queue')
    BY <1>1, <1>4, <1>5, <2>1 DEF OneHolder
  <2>3. \A u, v \in Workers : worker'[u] \in Busy /\ worker'[v] \in Busy /\ chunk'[u] = chunk'[v] => u = v
    BY <1>1, <1>4, <2>2 DEF OneHolder
  <2>. QED
    BY <1>4, <1>5, <2>2, <2>3 DEF OneHolder, Elements
<1>7. \A b : Sent(b)' = Sent(b)
  BY <1>2 DEF Sent, Elements
<1>8. \A a \in Blobs : ~(a.link < 1)
  BY LinkIsNat
<1>9. SentInTurn'
  <2>1. ASSUME NEW b \in Blobs, Sent(b)
        PROVE  /\ b.index \notin Elements(queue')
               /\ \A v \in Workers : worker'[v] \in Busy /\ chunk'[v] = b.index => b.link < link'[v]
               /\ \A a \in Earlier(b) : Sent(a)
    <3>1. b.index \notin Elements(queue) /\ \A a \in Earlier(b) : Sent(a)
      BY <1>1, <2>1 DEF SentInTurn
    <3>2. b.index # i
      BY <1>5, <3>1
    <3>. QED
      BY <1>1, <1>4, <1>5, <2>1, <3>1, <3>2 DEF SentInTurn
  <2>2. ASSUME NEW v \in Workers, worker'[v] = "sending"
        PROVE  \A a \in Earlier(Item(chunk'[v], link'[v])) : Sent(a)
    BY <1>1, <1>4, <2>2 DEF SentInTurn
  <2>. QED
    BY <1>7, <2>1, <2>2 DEF SentInTurn, Elements
<1>10. InLine' /\ PassedIsDelivered'
  BY <1>1, <1>2 DEF InLine, StagesInLine, ChannelInLine, PendingInLine, PassedIsDelivered, Elements
<1>. QED
  BY <1>6, <1>9, <1>10 DEF OrderInv

LEMMA SendBlobOrder ==
  ASSUME Typed, OrderInv, NEW w \in Workers, SendBlob(w)
  PROVE  OrderInv'
<1>1. /\ OneHolder /\ SentInTurn /\ InLine /\ PassedIsDelivered
      /\ worker[w] = "sending"
  BY DEF OrderInv, SendBlob
<1>2. UNCHANGED <<pending, delivered, nextIdx, queue, chunk>>
  BY DEF SendBlob, reorderVars, channelVars, bufferVars, readerVars
<1>. DEFINE new == Item(chunk[w], link[w])
<1>3. /\ chunk[w] \in Indexes /\ link[w] \in 1..LinkCount[chunk[w]]
      /\ links[w] = AllLinks(chunk[w])
      /\ link[w] \in Nat
  BY <1>1 DEF Typed, TypeOK, PoolTypeOK, LinkInRange, Busy
<1>4. links[w][link[w]] = link[w]
  BY <1>3, LinksOfChunk
<1>5. new \in Blobs /\ new.index = chunk[w] /\ new.link = link[w]
  BY <1>3, ItemInBlobs DEF Item
<1>6. channel' = Append(channel, new) /\ channel \in Seq(Messages) /\ new \in Messages
  BY <1>4, <1>5 DEF SendBlob, Typed, TypeOK, ReorderTypeOK, Messages
<1>7. Elements(channel') = Elements(channel) \cup {new}
  BY <1>6, ElementsAppend
<1>8. /\ \A v \in Workers \ {w} : worker'[v] = worker[v] /\ link'[v] = link[v]
      /\ \/ worker'[w] = "sending" /\ link'[w] = link[w] + 1
         \/ worker'[w] = "idle"
  BY <1>1 DEF SendBlob, Become, Typed, TypeOK, PoolTypeOK
<1>. HIDE DEF new
<1>9. OneHolder'
  <2>1. \A v \in Workers : worker'[v] \in Busy => worker[v] \in Busy
    BY <1>1, <1>8 DEF Busy
  <2>. QED
    BY <1>1, <1>2, <2>1 DEF OneHolder, Elements
<1>10. \A b \in Blobs : Sent(b)' <=> Sent(b) \/ b = new
  BY <1>2, <1>7 DEF Sent, Elements
<1>11. ~Sent(new)
  <2>1. ~(link[w] < link[w])
    BY <1>3
  <2>. QED
    BY <1>1, <1>5, <2>1 DEF SentInTurn, Busy
<1>12. \A a \in Earlier(new) : Sent(a)
  BY <1>1 DEF SentInTurn, new
<1>13. SentInTurn'
  <2>1. ASSUME NEW b \in Blobs, Sent(b) \/ b = new
        PROVE  /\ b.index \notin Elements(queue)
               /\ \A v \in Workers : worker'[v] \in Busy /\ chunk[v] = b.index => b.link < link'[v]
               /\ \A a \in Earlier(b) : Sent(a)
    <3>1. CASE b = new
      <4>1. b.index \notin Elements(queue)
        BY <1>1, <1>5, <3>1 DEF OneHolder, Busy
      <4>2. ASSUME NEW v \in Workers, worker'[v] \in Busy, chunk[v] = b.index
            PROVE  b.link < link'[v]
        <5>1. v = w
          BY <1>1, <1>5, <1>8, <3>1, <4>2 DEF OneHolder, Busy
        <5>. QED
          BY <1>3, <1>5, <1>8, <3>1, <4>2, <5>1 DEF Busy
      <4>. QED
        BY <1>12, <3>1, <4>1, <4>2
    <3>2. CASE Sent(b)
      <4>1. /\ b.index \notin Elements(queue)
            /\ \A v \in Workers : worker[v] \in Busy /\ chunk[v] = b.index => b.link < link[v]
            /\ \A a \in Earlier(b) : Sent(a)
        BY <1>1, <3>2 DEF SentInTurn
      <4>2. b.link \in Nat
        BY LinkIsNat
      <4>3. ASSUME NEW v \in Workers, worker'[v] \in Busy, chunk[v] = b.index
            PROVE  b.link < link'[v]
        <5>1. CASE v = w
          <6>1. b.link < link[w] /\ link'[w] = link[w] + 1
            BY <1>1, <1>8, <4>1, <4>3, <5>1 DEF Busy
          <6>. QED
            BY <1>3, <4>2, <5>1, <6>1
        <5>2. CASE v # w
          BY <1>8, <4>1, <4>3, <5>2
        <5>. QED
          BY <5>1, <5>2
      <4>. QED
        BY <4>1, <4>3
    <3>. QED
      BY <2>1, <3>1, <3>2
  <2>2. ASSUME NEW v \in Workers, worker'[v] = "sending",
               NEW a \in Earlier(Item(chunk[v], link'[v]))
        PROVE  Sent(a) \/ a = new
    <3>1. CASE v # w
      <4>1. worker[v] = "sending" /\ link'[v] = link[v]
        BY <1>8, <2>2, <3>1
      <4>. QED
        BY <1>1, <2>2, <4>1 DEF SentInTurn
    <3>2. CASE v = w
      <4>1. a \in Blobs /\ a.index = chunk[w] /\ a.link < link[w] + 1
        BY <1>8, <2>2, <3>2 DEF Earlier, Item
      <4>2. a.link \in Nat /\ a = Item(a.index, a.link)
        BY <4>1, LinkIsNat
      <4>3. a.link < link[w] \/ a.link = link[w]
        BY <1>3, <4>1, <4>2
      <4>4. CASE a.link = link[w]
        BY <4>1, <4>2, <4>4 DEF new
      <4>5. CASE a.link < link[w]
        BY <1>5, <1>12, <4>1, <4>5 DEF Earlier
      <4>. QED
        BY <4>3, <4>4, <4>5
    <3>. QED
      BY <3>1, <3>2
  <2>3. \A b : \A a \in Earlier(b) : a \in Blobs
    BY DEF Earlier
  <2>. QED
    BY <1>2, <1>10, <2>1, <2>2, <2>3 DEF SentInTurn, Elements
<1>14. InLine'
  <2>1. \A a \in Blobs : Sent(a) => Before(a, new)
    BY <1>1, <1>5 DEF SentInTurn, Before, Busy
  <2>2. StagesInLine'
    <3>1. ASSUME NEW a \in Blobs, NEW b \in Blobs,
                 \/ /\ a \in Elements(delivered)
                    /\ b \in Elements(pending[b.index]) \cup Elements(channel')
                 \/ /\ a \in Elements(pending[a.index])
                    /\ b \in Elements(channel')
          PROVE  Before(a, b)
      <4>1. CASE b = new /\ b \notin Elements(channel) \cup Elements(pending[b.index])
        BY <2>1, <3>1, <4>1 DEF Sent
      <4>2. CASE b \in Elements(channel) \cup Elements(pending[b.index])
        <5>1. b = new => FALSE
          BY <1>11, <4>2 DEF Sent
        <5>. QED
          BY <1>1, <1>7, <3>1, <5>1 DEF InLine, StagesInLine
      <4>. QED
        BY <1>7, <3>1, <4>1, <4>2
    <3>. QED
      BY <1>2, <3>1 DEF StagesInLine, Elements
  <2>3. ChannelInLine'
    <3>1. /\ DOMAIN channel' = 1..(Len(channel) + 1) /\ DOMAIN channel = 1..Len(channel)
          /\ Len(channel) \in Nat
          /\ channel'[Len(channel) + 1] = new
          /\ \A n \in DOMAIN channel : channel'[n] = channel[n] /\ channel[n] \in Messages
      BY <1>6
    <3>2. ASSUME NEW m \in DOMAIN channel', NEW n \in DOMAIN channel', m < n,
                 channel'[m] # Failure, channel'[n] # Failure
          PROVE  Before(channel'[m], channel'[n])
      <4>1. m \in DOMAIN channel /\ channel'[m] = channel[m] /\ channel[m] \in Blobs
        BY <3>1, <3>2 DEF Messages
      <4>2. CASE n \in DOMAIN channel
        BY <1>1, <3>1, <3>2, <4>1, <4>2 DEF InLine, ChannelInLine
      <4>3. CASE n = Len(channel) + 1
        <5>1. Sent(channel[m])
          BY <4>1 DEF Sent, Elements
        <5>. QED
          BY <2>1, <3>1, <4>1, <4>3, <5>1
      <4>. QED
        BY <3>1, <4>2, <4>3
    <3>. QED
      BY <3>2 DEF ChannelInLine
  <2>4. PendingInLine'
    BY <1>1, <1>2 DEF InLine, PendingInLine, Elements
  <2>. QED
    BY <2>2, <2>3, <2>4 DEF InLine
<1>15. PassedIsDelivered'
  BY <1>1, <1>2 DEF PassedIsDelivered, Elements
<1>. QED
  BY <1>9, <1>13, <1>14, <1>15 DEF OrderInv

LEMMA WorkerOrder ==
  ASSUME Typed, OrderInv, NEW w \in Workers, WorkerStep(w)
  PROVE  OrderInv'
<1>. USE DEF Become, Busy, Running, Typed, TypeOK, PoolTypeOK
<1>1. CASE TakeMeta(w)
  BY <1>1, TakeMetaOrder
<1>2. CASE QueueDrained(w)
  BY <1>2, WorkerAloneOrder DEF QueueDrained
<1>3. CASE Resolve(w)
  BY <1>3, WorkerAloneOrder DEF Resolve
<1>4. CASE FetchOk(w)
  BY <1>4, WorkerAloneOrder DEF FetchOk, LinkInRange
<1>5. CASE FetchErr(w)
  BY <1>5, WorkerAloneOrder DEF FetchErr
<1>6. CASE FetchPanic(w)
  BY <1>6, WorkerAloneOrder DEF FetchPanic
<1>7. CASE SendBlob(w)
  BY <1>7, SendBlobOrder
<1>8. CASE StopWorker(w)
  BY <1>8, WorkerAloneOrder DEF StopWorker
<1>. QED
  BY <1>1, <1>2, <1>3, <1>4, <1>5, <1>6, <1>7, <1>8 DEF WorkerStep

LEMMA DriverOrder ==
  ASSUME Typed, OrderInv, DriverStep
  PROVE  OrderInv'
<1>. SUFFICES ASSUME reader # "dropped"
              PROVE  (OneHolder /\ SentInTurn /\ InLine /\ PassedIsDelivered)'
  BY DEF OrderInv, DriverStep, DriverJoin, DriverReport, readerVars
<1>1. OneHolder /\ SentInTurn /\ InLine /\ PassedIsDelivered
  BY DEF OrderInv
<1>2. UNCHANGED <<pending, delivered, nextIdx, queue, worker, chunk, link>>
  BY DEF DriverStep, DriverJoin, DriverReport, bufferVars, readerVars
<1>3. channel' = channel \/ channel' = Append(channel, Failure)
  BY DEF DriverStep, DriverJoin, DriverReport
<1>4. channel \in Seq(Messages) /\ Failure \in Messages
  BY DEF Typed, TypeOK, ReorderTypeOK, Messages
<1>5. Elements(channel') \ {Failure} = Elements(channel) \ {Failure}
  <2>1. CASE channel' = Append(channel, Failure)
    BY <1>4, <2>1, ElementsAppend
  <2>2. CASE channel' = channel
    BY <2>2
  <2>. QED
    BY <1>3, <2>1, <2>2
<1>6. \A b \in Blobs : b \in Elements(channel') <=> b \in Elements(channel)
  BY <1>5, BlobFacts
<1>7. OneHolder'
  BY <1>1, <1>2 DEF OneHolder, Elements
<1>8. \A b \in Blobs : Sent(b)' <=> Sent(b)
  BY <1>2, <1>6 DEF Sent, Elements
<1>9. SentInTurn'
  <2>1. \A b : \A a \in Earlier(b) : a \in Blobs
    BY DEF Earlier
  <2>. QED
    BY <1>1, <1>2, <1>8, <2>1 DEF SentInTurn, Elements
<1>10. StagesInLine'
  <2>1. StagesInLine
    BY <1>1 DEF InLine
  <2>. QED
    BY <1>2, <1>6, <2>1 DEF StagesInLine, Elements
<1>11. ChannelInLine'
  <2>1. \A n \in DOMAIN channel' :
          channel'[n] # Failure => n \in DOMAIN channel /\ channel'[n] = channel[n]
    BY <1>3, <1>4
  <2>. QED
    BY <1>1, <2>1 DEF InLine, ChannelInLine
<1>12. PendingInLine' /\ PassedIsDelivered'
  BY <1>1, <1>2 DEF InLine, PendingInLine, PassedIsDelivered, Elements
<1>. QED
  BY <1>7, <1>9, <1>10, <1>11, <1>12 DEF InLine

-----------------------------------------------------------------------------
(* The steps of the reader.                                                 *)

\* The blobs of index i after its oldest one has been popped.
LEMMA PopOrder ==
  ASSUME Typed, OneHolder, SentInTurn, InLine, NEW i \in Indexes, HasPending(i), Pop(i),
         UNCHANGED <<channelVars, poolVars>>
  PROVE  /\ (OneHolder /\ SentInTurn /\ InLine)'
         /\ Elements(delivered') = Elements(delivered) \cup {Head(pending[i])}
         /\ Head(pending[i]) \in Blobs /\ Head(pending[i]).index = i
<1>. DEFINE b == Head(pending[i])
<1>1. /\ pending[i] \in Seq(Blobs) /\ pending[i] # <<>>
      /\ pending' = [pending EXCEPT ![i] = Tail(@)] /\ pending \in [Indexes -> Seq(Blobs)]
      /\ delivered' = Append(delivered, b) /\ delivered \in Seq(Blobs)
  BY DEF Pop, HasPending, Typed, TypeOK, ReorderTypeOK
<1>2. b \in Blobs /\ pending'[i] = Tail(pending[i])
      /\ \A j \in Indexes \ {i} : pending'[j] = pending[j]
  BY <1>1
<1>3. UNCHANGED <<channel, queue, worker, chunk, link>>
  BY DEF channelVars, poolVars
<1>4. Elements(pending[i]) = Elements(pending'[i]) \cup {b}
  BY <1>1, <1>2, ElementsTail
<1>5. Elements(delivered') = Elements(delivered) \cup {b}
  BY <1>1, <1>2, ElementsAppend
<1>6. b.index = i
  BY <1>4 DEF InLine, PendingInLine
<1>. HIDE DEF b
<1>7. \A a \in Blobs : Sent(a)' <=> Sent(a)
  BY <1>2, <1>3, <1>4, <1>5, <1>6, BlobFacts DEF Sent
<1>8. OneHolder' /\ SentInTurn'
  <2>1. \A a : \A c \in Earlier(a) : c \in Blobs
    BY DEF Earlier
  <2>. QED
    BY <1>3, <1>7, <2>1 DEF OneHolder, SentInTurn, Elements
<1>9. \A c \in Elements(pending'[i]) : c \in Blobs /\ c.index = i /\ b.link < c.link
  <2>1. ASSUME NEW c \in Elements(pending'[i]) PROVE b.link < c.link
    <3>1. PICK n \in DOMAIN pending[i] : n > 1 /\ pending[i][n] = c
      BY <1>1, <1>2, <2>1, ElementsPosition
    <3>2. 1 \in DOMAIN pending[i] /\ pending[i][1] = b
      BY <1>1 DEF b
    <3>. QED
      BY <3>1, <3>2 DEF InLine, PendingInLine
  <2>2. \A c \in Elements(pending[i]) : c \in Blobs /\ c.index = i
    BY <1>1 DEF Elements, InLine, PendingInLine
  <2>. QED
    BY <1>4, <2>1, <2>2
<1>10. StagesInLine'
  <2>1. ASSUME NEW a \in Blobs, NEW c \in Blobs,
               \/ /\ a \in Elements(delivered')
                  /\ c \in Elements(pending'[c.index]) \cup Elements(channel)
               \/ /\ a \in Elements(pending'[a.index])
                  /\ c \in Elements(channel)
        PROVE  Before(a, c)
    <3>1. a.index \in Indexes /\ c.index \in Indexes
      BY BlobFacts
    <3>2. \A j \in Indexes : Elements(pending'[j]) \subseteq Elements(pending[j])
      BY <1>2, <1>4
    <3>3. CASE a = b /\ c \in Elements(pending'[c.index])
      BY <1>6, <1>9, <3>3 DEF Before
    <3>4. CASE a = b /\ c \in Elements(channel)
      BY <1>4, <1>6, <3>4 DEF InLine, StagesInLine
    <3>5. CASE a # b \/ a \in Elements(pending'[a.index])
      <4>1. a \in Elements(delivered') /\ a # b => a \in Elements(delivered)
        BY <1>5
      <4>. QED
        BY <2>1, <3>1, <3>2, <3>3, <3>4, <3>5, <4>1 DEF InLine, StagesInLine
    <3>. QED
      BY <2>1, <3>3, <3>4, <3>5
  <2>. QED
    BY <1>3, <2>1 DEF StagesInLine
<1>11. PendingInLine'
  <2>1. \A m, n \in DOMAIN pending'[i] : m < n => pending'[i][m].link < pending'[i][n].link
    <3>1. /\ DOMAIN pending[i] = 1..Len(pending[i]) /\ Len(pending[i]) \in Nat
          /\ DOMAIN pending'[i] = 1..(Len(pending[i]) - 1)
          /\ \A n \in DOMAIN pending'[i] : pending'[i][n] = pending[i][n + 1]
      BY <1>1, <1>2
    <3>2. \A n \in DOMAIN pending'[i] : n \in Int /\ n + 1 \in DOMAIN pending[i]
      BY <3>1
    <3>3. \A m, n \in DOMAIN pending[i] : m < n => pending[i][m].link < pending[i][n].link
      BY DEF InLine, PendingInLine
    <3>4. ASSUME NEW m \in DOMAIN pending'[i], NEW n \in DOMAIN pending'[i], m < n
          PROVE  pending'[i][m].link < pending'[i][n].link
      <4>1. m + 1 \in DOMAIN pending[i] /\ n + 1 \in DOMAIN pending[i] /\ m + 1 < n + 1
        BY <3>2, <3>4
      <4>2. pending[i][m + 1].link < pending[i][n + 1].link
        BY <3>3, <4>1
      <4>. QED
        BY <3>1, <4>2
    <3>. QED
      BY <3>4
  <2>2. \A c \in Elements(pending'[i]) : c.index = i
    BY <1>9
  <2>. QED
    BY <1>2, <2>1, <2>2 DEF InLine, PendingInLine
<1>12. ChannelInLine'
  BY <1>3 DEF InLine, ChannelInLine
<1>. QED
  BY <1>2, <1>5, <1>6, <1>8, <1>10, <1>11, <1>12 DEF InLine, b

\* The channel loses its oldest message; what the buffer may gain is that one.
LEMMA ReceiveOrder ==
  ASSUME Typed, OneHolder, SentInTurn, InLine, ReceiveItem, UNCHANGED poolVars
  PROVE  (OneHolder /\ SentInTurn /\ InLine)'
<1>. DEFINE b == Head(channel)
<1>1. /\ channel \in Seq(Messages) /\ channel # <<>> /\ channel' = Tail(channel)
      /\ b \in Blobs /\ b # Failure
      /\ pending' = [pending EXCEPT ![b.index] = Append(@, b)]
      /\ pending \in [Indexes -> Seq(Blobs)]
  BY DEF ReceiveItem, Store, Typed, TypeOK, ReorderTypeOK, Messages
<1>. DEFINE i == b.index
<1>2. i \in Indexes /\ pending[i] \in Seq(Blobs)
  BY <1>1, BlobFacts
<1>3. pending'[i] = Append(pending[i], b) /\ \A j \in Indexes \ {i} : pending'[j] = pending[j]
  BY <1>1, <1>2
<1>4. UNCHANGED <<delivered, queue, worker, chunk, link>>
  BY DEF ReceiveItem, readerVars, poolVars
<1>5. Elements(channel) = Elements(channel') \cup {b}
  BY <1>1, ElementsTail
<1>6. Elements(pending'[i]) = Elements(pending[i]) \cup {b}
  BY <1>1, <1>2, <1>3, ElementsAppend
<1>7. /\ DOMAIN channel = 1..Len(channel) /\ Len(channel) \in Nat
      /\ DOMAIN channel' = 1..(Len(channel) - 1)
      /\ 1 \in DOMAIN channel /\ channel[1] = b
      /\ \A n \in DOMAIN channel' : channel'[n] = channel[n + 1]
  BY <1>1
<1>8. i = b.index
  OBVIOUS
<1>. HIDE DEF b, i
<1>9. \A a \in Blobs : Sent(a)' <=> Sent(a)
  <2>1. ASSUME NEW a \in Blobs PROVE Sent(a)' <=> Sent(a)
    <3>1. CASE a.index = i
      BY <1>4, <1>5, <1>6, <3>1 DEF Sent
    <3>2. CASE a.index # i
      <4>1. pending'[a.index] = pending[a.index] /\ a # b
        BY <1>3, <1>8, <3>2, BlobFacts
      <4>. QED
        BY <1>4, <1>5, <4>1 DEF Sent
    <3>. QED
      BY <3>1, <3>2
  <2>. QED
    BY <2>1
<1>10. OneHolder' /\ SentInTurn'
  <2>1. \A a : \A c \in Earlier(a) : c \in Blobs
    BY DEF Earlier
  <2>. QED
    BY <1>4, <1>9, <2>1 DEF OneHolder, SentInTurn, Elements
<1>11. ChannelInLine'
  <2>1. \A n \in DOMAIN channel' : n \in Int /\ n + 1 \in DOMAIN channel
    BY <1>7
  <2>2. \A m, n \in DOMAIN channel :
          m < n /\ channel[m] # Failure /\ channel[n] # Failure => Before(channel[m], channel[n])
    BY DEF InLine, ChannelInLine
  <2>. QED
    BY <1>7, <2>1, <2>2 DEF ChannelInLine
<1>12. \A c \in Elements(channel') \cap Blobs : Before(b, c)
  <2>1. ASSUME NEW c \in Elements(channel') \cap Blobs PROVE Before(b, c)
    <3>1. PICK n \in DOMAIN channel : n > 1 /\ channel[n] = c
      BY <1>1, <2>1, ElementsPosition
    <3>2. c # Failure
      BY <2>1, BlobFacts
    <3>. QED
      BY <1>1, <1>7, <3>1, <3>2 DEF InLine, ChannelInLine
  <2>. QED
    BY <2>1
<1>13. StagesInLine'
  <2>1. ASSUME NEW a \in Blobs, NEW c \in Blobs,
               \/ /\ a \in Elements(delivered)
                  /\ c \in Elements(pending'[c.index]) \cup Elements(channel')
               \/ /\ a \in Elements(pending'[a.index])
                  /\ c \in Elements(channel')
        PROVE  Before(a, c)
    <3>1. a.index \in Indexes /\ c.index \in Indexes
      BY BlobFacts
    <3>2. \A j \in Indexes : Elements(pending'[j]) \subseteq Elements(pending[j]) \cup {b}
      BY <1>3, <1>6
    <3>3. CASE a = b /\ c \in Elements(channel')
      BY <1>12, <3>3
    <3>4. CASE a \in Elements(delivered)
      BY <1>5, <2>1, <3>1, <3>2, <3>4 DEF InLine, StagesInLine
    <3>5. CASE a \in Elements(pending[a.index]) /\ c \in Elements(channel')
      BY <1>5, <3>5 DEF InLine, StagesInLine
    <3>. QED
      BY <2>1, <3>1, <3>2, <3>3, <3>4, <3>5
  <2>. QED
    BY <1>4, <2>1 DEF StagesInLine
<1>14. PendingInLine'
  <2>1. /\ DOMAIN pending[i] = 1..Len(pending[i]) /\ Len(pending[i]) \in Nat
        /\ DOMAIN pending'[i] = 1..(Len(pending[i]) + 1)
        /\ pending'[i][Len(pending[i]) + 1] = b
        /\ \A n \in DOMAIN pending[i] : pending'[i][n] = pending[i][n]
    BY <1>1, <1>2, <1>3
  <2>2. ASSUME NEW n \in DOMAIN pending[i] PROVE pending[i][n].link < b.link
    <3>1. pending[i][n] \in Elements(pending[i]) /\ pending[i][n] \in Blobs /\ pending[i][n].index = i
      BY <1>2, <2>2 DEF Elements, InLine, PendingInLine
    <3>. QED
      BY <1>1, <1>5, <1>8, <3>1 DEF InLine, StagesInLine, Before
  <2>3. \A m, n \in DOMAIN pending'[i] : m < n => pending'[i][m].link < pending'[i][n].link
    <3>1. \A m, n \in DOMAIN pending[i] : m < n => pending[i][m].link < pending[i][n].link
      BY <1>2 DEF InLine, PendingInLine
    <3>2. ASSUME NEW m \in DOMAIN pending'[i], NEW n \in DOMAIN pending'[i], m < n
          PROVE  pending'[i][m].link < pending'[i][n].link
      <4>1. m \in DOMAIN pending[i]
        BY <2>1, <3>2
      <4>2. n \in DOMAIN pending[i] \/ n = Len(pending[i]) + 1
        BY <2>1
      <4>. QED
        BY <2>1, <2>2, <3>1, <3>2, <4>1, <4>2
    <3>. QED
      BY <3>2
  <2>4. \A c \in Elements(pending'[i]) : c.index = i
    BY <1>2, <1>6, <1>8 DEF InLine, PendingInLine
  <2>. QED
    BY <1>3, <2>3, <2>4 DEF InLine, PendingInLine
<1>. QED
  BY <1>10, <1>11, <1>13, <1>14 DEF InLine

\* Every blob of a lower index than the one just popped is delivered.
LEMMA ReaderOrder ==
  ASSUME SingleLinks, Typed, CompletenessInv, OrderInv, ReaderMoves
  PROVE  OrderInv'
<1>. SUFFICES ASSUME reader' # "dropped"
              PROVE  (OneHolder /\ SentInTurn /\ InLine /\ PassedIsDelivered)'
  BY DEF OrderInv
<1>. USE DEF ReaderMoves
<1>0. reader # "dropped" /\ ReaderStep
  BY DEF ReaderStep, DropReceiver, PopNext, DrainLowest, ReachEnd, Receiving, ReceiveItem,
         ReceiveError, ReceiveClosed, readerVars
<1>a. OneHolder /\ SentInTurn /\ InLine /\ PassedIsDelivered
  BY <1>0 DEF OrderInv
<1>1. CASE PopNext
  <2>1. nextIdx \in Indexes /\ HasPending(nextIdx) /\ Pop(nextIdx) /\ UNCHANGED channelVars
    BY <1>1 DEF PopNext, HasPending
  <2>. DEFINE b == Head(pending[nextIdx])
  <2>2. /\ (OneHolder /\ SentInTurn /\ InLine)'
        /\ Elements(delivered') = Elements(delivered) \cup {b}
        /\ b \in Blobs /\ b.index = nextIdx
    BY <1>a, <2>1, PopOrder
  <2>3. nextIdx \in Nat /\ (nextIdx' = nextIdx \/ nextIdx' = nextIdx + 1)
    BY <1>1 DEF PopNext, Typed, TypeOK, ReorderTypeOK
  <2>. HIDE DEF b
  <2>4. PassedIsDelivered'
    <3>1. ASSUME NEW a \in Blobs, a.index < nextIdx', NEW j \in Indexes, a.index < j
          PROVE  a \in Elements(delivered')
      <4>1. a.index \in Nat /\ a.index \in Indexes /\ a.link \in 1..LinkCount[a.index] /\ a = Item(a.index, a.link)
        BY LinkIsNat
      <4>2. CASE a.index < nextIdx
        BY <1>a, <2>2, <3>1, <4>2 DEF PassedIsDelivered
      <4>3. CASE a.index = nextIdx
        <5>1. ~(j <= nextIdx) /\ LinkCount[nextIdx] \in Nat
          BY <3>1, <4>1, <4>3, IndexesAssumption, LinkCountAssumption
        <5>2. LinkCount[nextIdx] <= 1
          BY <2>1, <5>1 DEF SingleLinks
        <5>3. b.link \in 1..LinkCount[nextIdx] /\ b = Item(nextIdx, b.link)
          BY <2>2, LinkIsNat
        <5>4. a.link = 1 /\ b.link = 1
          BY <4>1, <4>3, <5>1, <5>2, <5>3
        <5>. QED
          BY <2>2, <4>1, <4>3, <5>3, <5>4
      <4>. QED
        BY <2>3, <3>1, <4>1, <4>2, <4>3
    <3>. QED
      BY <3>1 DEF PassedIsDelivered, Elements
  <2>. QED
    BY <2>2, <2>4
<1>2. CASE DrainLowest
  <2>1. PICK i \in Indexes : HasPending(i) /\ Pop(i)
    BY <1>2 DEF DrainLowest
  <2>2. UNCHANGED <<channelVars, poolVars, nextIdx>>
    BY <1>2 DEF DrainLowest
  <2>3. /\ (OneHolder /\ SentInTurn /\ InLine)'
        /\ Elements(delivered') = Elements(delivered) \cup {Head(pending[i])}
    BY <1>a, <2>1, <2>2, PopOrder
  <2>4. PassedIsDelivered'
    BY <1>a, <2>2, <2>3 DEF PassedIsDelivered, Elements
  <2>. QED
    BY <2>3, <2>4
<1>3. CASE ReceiveItem
  <2>1. UNCHANGED <<nextIdx, delivered>>
    BY <1>3 DEF ReceiveItem, readerVars
  <2>2. PassedIsDelivered'
    BY <1>a, <2>1 DEF PassedIsDelivered, Elements
  <2>. QED
    BY <1>a, <1>3, <2>2, ReceiveOrder
<1>4. CASE ReceiveError
  <2>1. /\ channel \in Seq(Messages) /\ channel # <<>> /\ channel' = Tail(channel)
        /\ Head(channel) = Failure
        /\ UNCHANGED <<pending, delivered, nextIdx, queue, worker, chunk, link>>
    BY <1>4 DEF ReceiveError, bufferVars, poolVars, Typed, TypeOK, ReorderTypeOK
  <2>2. Elements(channel) = Elements(channel') \cup {Failure}
    BY <2>1, ElementsTail
  <2>3. \A b \in Blobs : b \in Elements(channel') <=> b \in Elements(channel)
    BY <2>2, BlobFacts
  <2>4. \A b \in Blobs : Sent(b)' <=> Sent(b)
    BY <2>1, <2>3 DEF Sent, Elements
  <2>5. \A b : \A a \in Earlier(b) : a \in Blobs
    BY DEF Earlier
  <2>6. OneHolder' /\ SentInTurn'
    BY <1>a, <2>1, <2>4, <2>5 DEF OneHolder, SentInTurn, Elements
  <2>7. StagesInLine'
    <3>1. StagesInLine
      BY <1>a DEF InLine
    <3>. QED
      BY <2>1, <2>3, <3>1 DEF StagesInLine, Elements
  <2>8. ChannelInLine'
    <3>1. /\ \A n \in DOMAIN channel' : n \in Int /\ n + 1 \in DOMAIN channel
          /\ \A n \in DOMAIN channel' : channel'[n] = channel[n + 1]
      BY <2>1
    <3>2. \A m, n \in DOMAIN channel :
            m < n /\ channel[m] # Failure /\ channel[n] # Failure => Before(channel[m], channel[n])
      BY <1>a DEF InLine, ChannelInLine
    <3>. QED
      BY <3>1, <3>2 DEF ChannelInLine
  <2>9. PendingInLine' /\ PassedIsDelivered'
    BY <1>a, <2>1 DEF InLine, PendingInLine, PassedIsDelivered, Elements
  <2>. QED
    BY <2>6, <2>7, <2>8, <2>9 DEF InLine
<1>5. CASE ReachEnd \/ ReceiveClosed
  <2>1. UNCHANGED <<channel, pending, delivered, nextIdx, queue, worker, chunk, link>>
    BY <1>5 DEF ReachEnd, ReceiveClosed, channelVars, bufferVars, readerVars, poolVars
  <2>. QED
    BY <1>a, <2>1 DEF OneHolder, SentInTurn, Sent, InLine, StagesInLine, ChannelInLine,
                      PendingInLine, PassedIsDelivered, Elements
<1>. QED
  BY <1>0, <1>1, <1>2, <1>3, <1>4, <1>5 DEF ReaderStep

LEMMA NextOrder ==
  ASSUME SingleLinks
  PROVE  Typed /\ CompletenessInv /\ OrderInv /\ [Next]_vars => OrderInv'
<1>. SUFFICES ASSUME Typed, CompletenessInv, OrderInv, [Next]_vars PROVE OrderInv'
  OBVIOUS
<1>1. ASSUME NEW w \in Workers, WorkerStep(w) PROVE OrderInv'
  BY <1>1, WorkerOrder
<1>2. CASE DriverStep
  BY <1>2, DriverOrder
<1>3. CASE ReaderMoves
  BY <1>3, ReaderOrder
<1>4. CASE UNCHANGED vars
  <2>1. UNCHANGED <<reader, channel, pending, delivered, nextIdx, queue, worker, chunk, link>>
    BY <1>4 DEF vars, poolVars, reorderVars, channelVars, bufferVars, readerVars
  <2>. QED
    BY <2>1 DEF OrderInv, OneHolder, SentInTurn, Sent, InLine, StagesInLine, ChannelInLine,
                PendingInLine, PassedIsDelivered, Elements
<1>. QED
  BY <1>1, <1>2, <1>3, <1>4 DEF Next

-----------------------------------------------------------------------------
(* Every step of the pool is a step of OrderedDelivery.                     *)

\* A blob popped at index i, when all lower chunks are delivered.
LEMMA PopDelivers ==
  ASSUME Typed, OrderInv, reader = "reading", NEW i \in Indexes, HasPending(i), Pop(i),
         UNCHANGED reader,
         \A j \in Blobs : j.index < i => j \in Elements(delivered)
  PROVE  \E b \in Blobs : Promise!Deliver(b)
<1>. DEFINE b == Head(pending[i])
<1>1. /\ pending[i] \in Seq(Blobs) /\ pending[i] # <<>>
      /\ delivered' = Append(delivered, b)
      /\ b \in Blobs
  BY DEF Pop, HasPending, Typed, TypeOK, ReorderTypeOK
<1>2. b \in Elements(pending[i])
  BY <1>1, ElementsTail
<1>3. SentInTurn /\ InLine
  BY DEF OrderInv
<1>4. b.index = i /\ b.link \in Nat
  BY <1>2, <1>3, <1>1, LinkIsNat DEF InLine, PendingInLine
<1>. HIDE DEF b
<1>5. b \notin Elements(delivered)
  <2>1. ~(b.link < b.link)
    BY <1>4
  <2>. QED
    BY <1>1, <1>2, <1>3, <1>4, <2>1 DEF InLine, StagesInLine, Before
<1>6. ASSUME NEW a \in Blobs, a.index = i, a.link < b.link PROVE a \in Elements(delivered)
  <2>1. Sent(b)
    BY <1>2, <1>4 DEF Sent
  <2>2. Sent(a)
    BY <1>1, <1>3, <1>4, <1>6, <2>1 DEF SentInTurn, Earlier
  <2>3. a.link \in Nat /\ ~(b.link < a.link)
    BY <1>4, <1>6, LinkIsNat
  <2>4. a \notin Elements(channel)
    BY <1>1, <1>2, <1>3, <1>4, <1>6, <2>3 DEF InLine, StagesInLine, Before
  <2>5. a \notin Elements(pending[i])
    <3>1. SUFFICES ASSUME a \in Elements(pending[i]) PROVE FALSE
      OBVIOUS
    <3>2. a # b
      BY <1>4, <1>6
    <3>3. a \in Elements(Tail(pending[i]))
      BY <1>1, <3>1, <3>2, ElementsTail DEF b
    <3>4. PICK n \in DOMAIN pending[i] : n > 1 /\ pending[i][n] = a
      BY <1>1, <3>3, ElementsPosition
    <3>5. 1 \in DOMAIN pending[i] /\ pending[i][1] = b
      BY <1>1 DEF b
    <3>. QED
      BY <1>3, <2>3, <3>4, <3>5 DEF InLine, PendingInLine
  <2>. QED
    BY <1>6, <2>2, <2>4, <2>5 DEF Sent
<1>7. Promise!Given = Elements(delivered)
  BY DEF Promise!Given, Elements
<1>8. Promise!Deliver(b)
  BY <1>1, <1>4, <1>5, <1>6, <1>7 DEF Promise!Deliver, Promise!Precedes
<1>. QED
  BY <1>1, <1>8

LEMMA StepKeepsPromise ==
  ASSUME SingleLinks, Typed, CompletenessInv, OrderInv, [Next]_vars
  PROVE  [Promise!Next]_Promise!vars
<1>1. CASE UNCHANGED <<delivered, reader>>
  BY <1>1 DEF Promise!vars
<1>2. CASE ReaderMoves
  <2>1. CASE PopNext
    <3>1. nextIdx \in Indexes /\ HasPending(nextIdx) /\ Pop(nextIdx) /\ UNCHANGED reader /\ reader = "reading"
      BY <2>1 DEF PopNext, HasPending
    <3>2. \A a \in Blobs : a.index < nextIdx => a \in Elements(delivered)
      BY <3>1 DEF OrderInv, PassedIsDelivered
    <3>. QED
      BY <3>1, <3>2, PopDelivers DEF Promise!Next
  <2>2. CASE DrainLowest
    <3>1. exhausted /\ reader = "reading" /\ UNCHANGED reader
      BY <2>2 DEF DrainLowest, MayDrain
    <3>2. PICK i \in Indexes : /\ HasPending(i) /\ Pop(i)
                               /\ \A j \in Indexes : HasPending(j) => i <= j
      BY <2>2 DEF DrainLowest
    <3>3. ASSUME NEW a \in Blobs, a.index < i PROVE a \in Elements(delivered)
      <4>1. a.index \in Indexes /\ ~(i <= a.index)
        BY <3>3, LinkIsNat, IndexesAssumption
      <4>2. pending[a.index] = <<>>
        BY <3>2, <4>1 DEF HasPending
      <4>. QED
        BY <3>1, <4>2, SourceEnded, ElementsEmpty
    <3>. QED
      BY <3>1, <3>2, <3>3, PopDelivers DEF Promise!Next
  <2>3. CASE ReachEnd
    <3>1. exhausted /\ NothingLeft /\ reader = "reading" /\ reader' = "done" /\ UNCHANGED delivered
      BY <2>3 DEF ReachEnd
    <3>2. ASSUME NEW a \in Blobs PROVE a \in Elements(delivered)
      <4>1. pending[a.index] = <<>>
        BY <3>1, BlobFacts DEF NothingLeft, HasPending
      <4>. QED
        BY <3>1, <4>1, SourceEnded, ElementsEmpty
    <3>3. Promise!End
      BY <3>1, <3>2 DEF Promise!End, Promise!Given, Elements
    <3>. QED
      BY <3>3 DEF Promise!Next
  <2>4. CASE ReceiveItem \/ ReceiveClosed
    BY <1>1, <2>4 DEF ReceiveItem, ReceiveClosed, readerVars
  <2>5. CASE ReceiveError
    BY <2>5 DEF ReceiveError, Receiving, Promise!Next, Promise!Fail
  <2>6. CASE DropReceiver
    BY <2>6 DEF DropReceiver, Promise!Next, Promise!Abandon
  <2>. QED
    BY <1>2, <2>1, <2>2, <2>3, <2>4, <2>5, <2>6 DEF ReaderMoves, ReaderStep
<1>3. CASE DriverStep \/ \E w \in Workers : WorkerStep(w)
  <2>1. UNCHANGED <<delivered, reader>>
    BY <1>3 DEF DriverStep, DriverJoin, DriverReport, WorkerStep, TakeMeta, QueueDrained, Resolve,
                FetchOk, FetchErr, FetchPanic, SendBlob, StopWorker, reorderVars, readerVars
  <2>. QED
    BY <1>1, <2>1
<1>4. CASE UNCHANGED vars
  BY <1>1, <1>4 DEF vars, reorderVars, readerVars
<1>. QED
  BY <1>2, <1>3, <1>4 DEF Next

\* The pool of workers, the channel and the reorder buffer together implement
\* OrderedDelivery: for every manifest, every concurrency and every order in
\* which the workers fetch, fail, panic or are stopped, the reader is given the
\* blobs in their order, each once, and the end only after the last of them.
THEOREM PoolDeliversInOrder ==
  ASSUME SingleLinks
  PROVE  Spec => DeliversInOrder
<1>1. Init => Typed /\ CompletenessInv /\ OrderInv
  BY InitTyped, InitComplete, InitOrder
<1>2. Typed /\ CompletenessInv /\ OrderInv /\ [Next]_vars => (Typed /\ CompletenessInv /\ OrderInv)'
  BY NextTyped, NextComplete, NextOrder
<1>3. Init => Promise!Init
  BY DEF Init, ReorderInit, Promise!Init
<1>4. Typed /\ CompletenessInv /\ OrderInv /\ [Next]_vars => [Promise!Next]_Promise!vars
  BY StepKeepsPromise
<1>. QED
  BY <1>1, <1>2, <1>3, <1>4, PTL DEF Spec, DeliversInOrder, Promise!Spec
=============================================================================
