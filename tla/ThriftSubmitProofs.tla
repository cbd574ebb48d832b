-------------------------- MODULE ThriftSubmitProofs --------------------------
(***************************************************************************)
(* Theorems about ThriftSubmit, for any number of queries, keys, pooled     *)
(* sessions and warehouse restarts.                                         *)
(***************************************************************************)
EXTENDS ThriftSubmit, FiniteSetTheorems, TLAPS

-----------------------------------------------------------------------------
(* Stacks of sessions                                                       *)

\* A stack without its top.
LEMMA FrontFacts ==
  ASSUME NEW S, NEW s \in Seq(S), s # <<>>
  PROVE  /\ Front(s) \in Seq(S)
         /\ Last(s) \in S
         /\ Range(s) = Range(Front(s)) \cup {Last(s)}
         /\ IsInjective(s) => IsInjective(Front(s)) /\ Last(s) \notin Range(Front(s))
<1>. DEFINE f == Front(s)
            last == Last(s)
            n == Len(s)
<1>1. /\ n \in Nat /\ n > 0
      /\ DOMAIN s = 1..n
      /\ last = s[n] /\ last \in S
      /\ f \in Seq(S)
      /\ DOMAIN f = 1..(n - 1)
      /\ \A i \in 1..(n - 1) : f[i] = s[i]
  BY DEF Front, Last
<1>2. SUFFICES /\ Range(s) = Range(f) \cup {last}
               /\ IsInjective(s) => IsInjective(f) /\ last \notin Range(f)
  BY <1>1
<1>. HIDE DEF f, last, n
<1>3. /\ n \in 1..n
      /\ \A i \in 1..n : i = n \/ i \in 1..(n - 1)
      /\ \A i \in 1..(n - 1) : i \in 1..n /\ i # n
  BY <1>1
<1>4. ASSUME NEW x \in Range(s) PROVE x \in Range(f) \cup {last}
  BY <1>1, <1>3, <1>4, Zenon DEF Range
<1>5. ASSUME NEW x \in Range(f) \cup {last} PROVE x \in Range(s)
  BY <1>1, <1>3, <1>5, Zenon DEF Range
<1>6. ASSUME IsInjective(s) PROVE IsInjective(f)
  BY <1>1, <1>3, <1>6, Zenon DEF IsInjective
<1>7. ASSUME IsInjective(s), last \in Range(f) PROVE FALSE
  <2>1. PICK i \in 1..(n - 1) : f[i] = last
    BY <1>1, <1>7, Zenon DEF Range
  <2>. QED
    BY <1>1, <1>3, <1>7, <2>1, Zenon DEF IsInjective
<1>. QED
  BY <1>4, <1>5, <1>6, <1>7

\* A stack with one more session.
LEMMA AppendFacts ==
  ASSUME NEW S, NEW s \in Seq(S), NEW x \in S
  PROVE  /\ Append(s, x) \in Seq(S)
         /\ Range(Append(s, x)) = Range(s) \cup {x}
         /\ IsInjective(s) /\ x \notin Range(s) => IsInjective(Append(s, x))
<1>1. /\ Len(s) \in Nat
      /\ DOMAIN s = 1..Len(s)
      /\ DOMAIN Append(s, x) = 1..(Len(s) + 1)
      /\ Append(s, x)[Len(s) + 1] = x
      /\ \A n \in 1..Len(s) : Append(s, x)[n] = s[n]
      /\ Append(s, x) \in Seq(S)
  OBVIOUS
<1>2. \A n \in 1..(Len(s) + 1) : n = Len(s) + 1 \/ n \in 1..Len(s)
  BY <1>1
<1>3. Len(s) + 1 \in 1..(Len(s) + 1) /\ \A n \in 1..Len(s) : n \in 1..(Len(s) + 1)
  BY <1>1
<1>4. ASSUME NEW y \in Range(Append(s, x)) PROVE y \in Range(s) \cup {x}
  BY <1>1, <1>2, <1>4 DEF Range
<1>5. ASSUME NEW y \in Range(s) \cup {x} PROVE y \in Range(Append(s, x))
  BY <1>1, <1>3, <1>5 DEF Range
<1>6. ASSUME IsInjective(s), x \notin Range(s) PROVE IsInjective(Append(s, x))
  <2>1. \A n \in 1..Len(s) : s[n] # x
    BY <1>1, <1>6 DEF Range
  <2>2. ASSUME NEW a \in 1..(Len(s) + 1), NEW b \in 1..(Len(s) + 1), Append(s, x)[a] = Append(s, x)[b]
        PROVE  a = b
    <3>1. CASE a \in 1..Len(s) /\ b \in 1..Len(s)
      BY <1>1, <1>6, <2>2, <3>1 DEF IsInjective
    <3>2. CASE a = Len(s) + 1 /\ b \in 1..Len(s)
      BY <1>1, <2>1, <2>2, <3>2
    <3>3. CASE b = Len(s) + 1 /\ a \in 1..Len(s)
      BY <1>1, <2>1, <2>2, <3>3
    <3>. QED
      BY <1>2, <3>1, <3>2, <3>3
  <2>. QED
    BY <1>1, <2>2 DEF IsInjective
<1>. QED
  BY <1>1, <1>4, <1>5, <1>6

\* The empty stack.
LEMMA RangeOfNone == Range(<<>>) = {} /\ IsInjective(<<>>)
  BY DEF Range, IsInjective

\* A stack on which no session is twice has as many sessions as it is long.
LEMMA StackSize ==
  ASSUME NEW S, NEW s \in Seq(S), IsInjective(s)
  PROVE  IsFiniteSet(Range(s)) /\ Cardinality(Range(s)) = Len(s)
<1>1. Len(s) \in Nat /\ DOMAIN s = 1..Len(s) /\ s \in [1..Len(s) -> Range(s)]
  BY DEF Range
<1>2. \A x \in Range(s) : \E n \in 1..Len(s) : s[n] = x
  BY <1>1, Zenon DEF Range
<1>3. s \in Bijection(1..Len(s), Range(s))
  BY <1>1, <1>2 DEF Bijection, Injection, Surjection
<1>4. ExistsBijection(1..Len(s), Range(s))
  BY <1>3, Zenon DEF ExistsBijection
<1>5. IsFiniteSet(1..Len(s)) /\ Cardinality(1..Len(s)) = Len(s)
  BY <1>1, FS_Interval
<1>. QED
  BY <1>4, <1>5, FS_Bijection

-----------------------------------------------------------------------------
(* Types of the pool                                                        *)

PoolTyped(S) == idle \in [Keys -> Seq(S)] /\ total \in [Keys -> 0..MaxSessionsPerKey]

\* The critical sections of the pool that touch one key keep its types.
LEMMA PoolTypes ==
  ASSUME NEW S, PoolTyped(S), NEW k \in Keys
  PROVE  /\ HasIdle(k) => TopIdle(k) \in S
         /\ HasIdle(k) /\ Take(k) => idle' \in [Keys -> Seq(S)]
         /\ HasRoom(k) /\ Reserve(k) => total' \in [Keys -> 0..MaxSessionsPerKey]
         /\ Release(k) => total' \in [Keys -> 0..MaxSessionsPerKey]
         /\ \A s \in S, keep \in BOOLEAN :
              Checkin(k, s, keep) =>
                /\ idle' \in [Keys -> Seq(S)]
                /\ total' \in [Keys -> 0..MaxSessionsPerKey]
<1>1. /\ idle \in [Keys -> Seq(S)]
      /\ total \in [Keys -> 0..MaxSessionsPerKey]
  BY DEF PoolTyped
<1>2. ASSUME HasIdle(k)
      PROVE  TopIdle(k) \in S /\ Front(idle[k]) \in Seq(S)
  <2>1. idle[k] \in Seq(S) /\ idle[k] # <<>>
    BY <1>1, <1>2 DEF HasIdle
  <2>. QED
    BY <2>1, FrontFacts, Zenon DEF TopIdle
<1>3. ASSUME HasIdle(k), Take(k) PROVE idle' \in [Keys -> Seq(S)]
  BY <1>1, <1>2, <1>3 DEF Take, Popped
<1>4. ASSUME HasRoom(k), Reserve(k) PROVE total' \in [Keys -> 0..MaxSessionsPerKey]
  <2>1. total[k] + 1 \in 0..MaxSessionsPerKey
    BY <1>1, <1>4, CapAssumption DEF HasRoom
  <2>. QED
    BY <1>1, <1>4, <2>1 DEF Reserve
<1>5. ASSUME Release(k) PROVE total' \in [Keys -> 0..MaxSessionsPerKey]
  <2>1. Minus(total[k], 1) \in 0..MaxSessionsPerKey
    BY <1>1, CapAssumption DEF Minus
  <2>. QED
    BY <1>1, <1>5, <2>1 DEF Release
<1>6. ASSUME NEW s \in S, NEW keep \in BOOLEAN, Checkin(k, s, keep)
      PROVE  /\ idle' \in [Keys -> Seq(S)]
             /\ total' \in [Keys -> 0..MaxSessionsPerKey]
  <2>1. Append(idle[k], s) \in Seq(S)
    BY <1>1
  <2>2. CASE keep
    BY <1>1, <1>6, <2>1, <2>2 DEF Checkin, Put
  <2>3. CASE ~keep
    BY <1>1, <1>5, <1>6, <2>3 DEF Checkin
  <2>. QED
    BY <2>2, <2>3
<1>. QED
  BY <1>2, <1>3, <1>4, <1>5, <1>6

\* So does taking every idle session of some keys.
LEMMA DrainTypes ==
  ASSUME NEW S, PoolTyped(S), NEW ks \in SUBSET Keys
  PROVE  /\ Drained(ks) \in [Keys -> Seq(S)]
         /\ RemoveIdle(ks) => idle' \in [Keys -> Seq(S)]
<1>1. <<>> \in Seq(S) /\ idle \in [Keys -> Seq(S)]
  BY DEF PoolTyped
<1>. QED
  BY <1>1 DEF Drained, RemoveIdle

\* And discounting what was taken.
LEMMA DiscountTypes ==
  ASSUME NEW S, PoolTyped(S), NEW lists \in [Keys -> Seq(S)]
  PROVE  /\ NothingDrained \in [Keys -> Seq(S)]
         /\ Discount(lists) => total' \in [Keys -> 0..MaxSessionsPerKey]
         /\ SessionsIn(lists) \subseteq S
<1>1. ASSUME Discount(lists) PROVE total' \in [Keys -> 0..MaxSessionsPerKey]
  <2>1. ASSUME NEW k \in Keys PROVE Minus(total[k], Len(lists[k])) \in 0..MaxSessionsPerKey
    <3>1. total[k] \in 0..MaxSessionsPerKey /\ Len(lists[k]) \in Nat
      BY DEF PoolTyped
    <3>. QED
      BY <3>1, CapAssumption DEF Minus
  <2>. QED
    BY <1>1, <2>1 DEF Discount
<1>2. ASSUME NEW s \in SessionsIn(lists) PROVE s \in S
  <2>1. PICK k \in Keys : s \in Range(lists[k])
    BY <1>2, Zenon DEF SessionsIn
  <2>2. lists[k] \in Seq(S)
    OBVIOUS
  <2>. QED
    BY <2>1, <2>2 DEF Range
<1>3. NothingDrained \in [Keys -> Seq(S)]
  BY DEF NothingDrained
<1>. QED
  BY <1>1, <1>2, <1>3

-----------------------------------------------------------------------------
(* The sessions in the pool                                                 *)

Parked == SessionsIn(idle)

\* What it means to be on one of some stacks.
LEMMA ParkedMembers ==
  /\ \A lists, s : s \in SessionsIn(lists) <=> \E k \in Keys : s \in Range(lists[k])
  /\ \A s : s \in Parked <=> \E k \in Keys : s \in Range(idle[k])
<1>1. \A lists, s : s \in SessionsIn(lists) <=> \E k \in Keys : s \in Range(lists[k])
  BY Zenon DEF SessionsIn
<1>. QED
  BY <1>1, Zenon DEF Parked

\* An empty drain holds no session.
LEMMA NothingSwept == SessionsIn(NothingDrained) = {}
<1>1. \A k \in Keys : NothingDrained[k] = <<>>
  BY DEF NothingDrained
<1>. QED
  BY <1>1, ParkedMembers, RangeOfNone, Zenon

\* No session is twice on a stack, or on two stacks.
StacksApart ==
  /\ \A k \in Keys : IsInjective(idle[k])
  /\ \A k, l \in Keys : k # l => Range(idle[k]) \cap Range(idle[l]) = {}

\* Pool::take hands out the top of a stack, and of that stack alone.
LEMMA TakeParked ==
  ASSUME NEW S, PoolTyped(S), StacksApart, NEW k \in Keys, HasIdle(k), Take(k)
  PROVE  /\ StacksApart'
         /\ TopIdle(k) \in Parked
         /\ Parked' = Parked \ {TopIdle(k)}
<1>. DEFINE top == TopIdle(k)
            rest == Front(idle[k])
<1>1. /\ Range(idle[k]) = Range(rest) \cup {top}
      /\ IsInjective(rest)
      /\ top \notin Range(rest)
  <2>1. idle[k] \in Seq(S) /\ idle[k] # <<>> /\ IsInjective(idle[k])
    BY DEF PoolTyped, HasIdle, StacksApart
  <2>. QED
    BY <2>1, FrontFacts, Zenon DEF TopIdle
<1>2. /\ idle'[k] = rest
      /\ \A l \in Keys \ {k} : idle'[l] = idle[l]
  BY DEF PoolTyped, Take, Popped
<1>. HIDE DEF top, rest
<1>3. \A l \in Keys : Range(idle'[l]) = Range(idle[l]) \ {top}
  <2>1. ASSUME NEW l \in Keys, l # k PROVE top \notin Range(idle[l])
    BY <1>1, <2>1 DEF StacksApart
  <2>. QED
    BY <1>1, <1>2, <2>1
<1>4. StacksApart'
  <2>1. \A l \in Keys : IsInjective(idle'[l])
    BY <1>1, <1>2, Zenon DEF StacksApart
  <2>2. \A l, m \in Keys : l # m => Range(idle'[l]) \cap Range(idle'[m]) = {}
    BY <1>3 DEF StacksApart
  <2>. QED
    BY <2>1, <2>2, Zenon DEF StacksApart
<1>5. top \in Parked
  BY <1>1, ParkedMembers
<1>6. \A s : s \in Parked' <=> \E l \in Keys : s \in Range(idle'[l])
  BY Zenon DEF Parked, SessionsIn
<1>7. Parked' = Parked \ {top}
  <2>1. \A s : s \in Parked' <=> s \in Parked /\ s # top
    BY <1>3, <1>6, ParkedMembers
  <2>. QED
    BY <2>1
<1>. QED
  BY <1>4, <1>5, <1>7 DEF top

\* Pool::put of a session that is not idle keeps the stacks apart.
LEMMA PutParked ==
  ASSUME NEW S, PoolTyped(S), StacksApart, NEW k \in Keys, NEW s \in S, s \notin Parked, Put(k, s)
  PROVE  /\ StacksApart'
         /\ Parked' = Parked \cup {s}
<1>1. /\ Range(Append(idle[k], s)) = Range(idle[k]) \cup {s}
      /\ IsInjective(Append(idle[k], s))
  <2>1. idle[k] \in Seq(S) /\ IsInjective(idle[k])
    BY DEF PoolTyped, StacksApart
  <2>2. s \notin Range(idle[k])
    BY ParkedMembers
  <2>. QED
    BY <2>1, <2>2, AppendFacts, ZenonT(40)
<1>2. /\ idle'[k] = Append(idle[k], s)
      /\ \A l \in Keys \ {k} : idle'[l] = idle[l]
  BY DEF PoolTyped, Put
<1>3. /\ Range(idle'[k]) = Range(idle[k]) \cup {s}
      /\ \A l \in Keys \ {k} : Range(idle'[l]) = Range(idle[l])
      /\ \A l \in Keys : s \notin Range(idle[l])
  BY <1>1, <1>2, ParkedMembers
<1>4. StacksApart'
  <2>1. \A l \in Keys : IsInjective(idle'[l])
    BY <1>1, <1>2, Zenon DEF StacksApart
  <2>2. \A l, m \in Keys : l # m => Range(idle'[l]) \cap Range(idle'[m]) = {}
    BY <1>3 DEF StacksApart
  <2>. QED
    BY <2>1, <2>2, Zenon DEF StacksApart
<1>5. \A x : x \in Parked' <=> \E l \in Keys : x \in Range(idle'[l])
  BY Zenon DEF Parked, SessionsIn
<1>6. \A x : x \in Parked' <=> x \in Parked \/ x = s
  BY <1>3, <1>5, ParkedMembers
<1>. QED
  BY <1>4, <1>6

\* A drain takes the idle sessions of its keys and no other.
LEMMA RemoveParked ==
  ASSUME NEW S, PoolTyped(S), StacksApart, NEW ks \in SUBSET Keys, RemoveIdle(ks)
  PROVE  /\ StacksApart'
         /\ SessionsIn(Drained(ks)) \subseteq Parked
         /\ Parked' = Parked \ SessionsIn(Drained(ks))
<1>1. \A k \in Keys : /\ Range(Drained(ks)[k]) = IF k \in ks THEN Range(idle[k]) ELSE {}
                      /\ Range(idle'[k]) = IF k \in ks THEN {} ELSE Range(idle[k])
                      /\ IsInjective(idle'[k])
  <2>. SUFFICES ASSUME NEW k \in Keys
                PROVE  /\ Range(Drained(ks)[k]) = IF k \in ks THEN Range(idle[k]) ELSE {}
                       /\ Range(idle'[k]) = IF k \in ks THEN {} ELSE Range(idle[k])
                       /\ IsInjective(idle'[k])
    OBVIOUS
  <2>1. /\ Drained(ks)[k] = IF k \in ks THEN idle[k] ELSE <<>>
        /\ idle'[k] = IF k \in ks THEN <<>> ELSE idle[k]
    BY DEF Drained, RemoveIdle
  <2>2. IsInjective(idle[k])
    BY DEF StacksApart
  <2>3. CASE k \in ks
    BY <2>1, <2>3, RangeOfNone
  <2>4. CASE k \notin ks
    BY <2>1, <2>2, <2>4, RangeOfNone
  <2>. QED
    BY <2>3, <2>4
<1>2. StacksApart'
  <2>1. \A k, l \in Keys : k # l => Range(idle'[k]) \cap Range(idle'[l]) = {}
    BY <1>1 DEF StacksApart
  <2>. QED
    BY <1>1, <2>1, Zenon DEF StacksApart
<1>3. /\ \A s : s \in Parked' <=> \E k \in Keys : s \in Range(idle'[k])
      /\ \A s : s \in SessionsIn(Drained(ks)) <=> \E k \in Keys : s \in Range(Drained(ks)[k])
      /\ \A s : s \in Parked <=> \E k \in Keys : s \in Range(idle[k])
  BY ParkedMembers, Zenon DEF Parked, SessionsIn
<1>4. \A s : s \in SessionsIn(Drained(ks)) <=> \E k \in ks : s \in Range(idle[k])
  BY <1>1, <1>3
<1>5. \A s : s \in Parked' <=> \E k \in Keys \ ks : s \in Range(idle[k])
  BY <1>1, <1>3
<1>6. \A k \in ks, l \in Keys \ ks : \A s : ~(s \in Range(idle[k]) /\ s \in Range(idle[l]))
  BY DEF StacksApart
<1>7. \A s : s \in Parked' <=> s \in Parked /\ s \notin SessionsIn(Drained(ks))
  BY <1>3, <1>4, <1>5, <1>6
<1>. QED
  BY <1>2, <1>3, <1>4, <1>7

-----------------------------------------------------------------------------
(* Types                                                                    *)

\* The pool of a well-typed state is well typed.
LEMMA PoolIsTyped == TypeOK => PoolTyped(Sessions)
  BY DEF TypeOK, PoolTyped

\* The initial states are well typed.
LEMMA TypeInit == Init => TypeOK
<1>. SUFFICES ASSUME Init PROVE TypeOK
  OBVIOUS
<1>1. Warm \in [Keys -> Seq(Sessions)] /\ \A k \in Keys : Len(Warm[k]) \in 0..MaxSessionsPerKey
  BY WarmAssumption, CapAssumption
<1>2. NothingDrained \in [Keys -> Seq(Sessions)]
  BY DEF NothingDrained
<1>3. SessionsIn(Warm) \subseteq Sessions
  <2>1. ASSUME NEW s \in SessionsIn(Warm) PROVE s \in Sessions
    <3>1. PICK k \in Keys : s \in Range(Warm[k])
      BY <2>1, Zenon DEF SessionsIn
    <3>. QED
      BY <1>1, <3>1 DEF Range
  <2>. QED
    BY <2>1
<1>4. opened \in 0..MaxSessions
  <2>. DEFINE n == Cardinality(SessionsIn(Warm))
  <2>1. IsFiniteSet(Sessions) /\ Cardinality(Sessions) = MaxSessions
    BY FS_Interval, QueriesAssumption DEF Sessions
  <2>2. n \in Nat /\ n <= MaxSessions
    BY <1>3, <2>1, FS_Subset, FS_CardinalityType
  <2>3. opened = n
    BY Zenon DEF Init
  <2>. HIDE DEF n
  <2>. QED
    BY <2>2, <2>3, QueriesAssumption
<1>5. /\ idle \in [Keys -> Seq(Sessions)]
      /\ total \in [Keys -> 0..MaxSessionsPerKey]
      /\ drained \in [Queries -> [Keys -> Seq(Sessions)]]
      /\ closeList \in [Keys -> Seq(Sessions)]
      /\ live \subseteq Sessions
  BY <1>1, <1>2, <1>3 DEF Init
<1>6. restarts \in 0..MaxRestarts
  BY QueriesAssumption DEF Init
<1>. QED
  BY <1>4, <1>5, <1>6 DEF Init, TypeOK, Phases, Ended

\* Sessions that end take the open operations under them along.
LEMMA EndSessionsTypes ==
  ASSUME TypeOK, NEW ss, EndSessions(ss)
  PROVE  live' \subseteq Sessions /\ operation' \in [Queries -> {"none", "open", "closed", "lost"}]
BY DEF TypeOK, EndSessions

\* A session the server creates is one of those counted.
LEMMA OpenedTypes ==
  ASSUME TypeOK, opened < MaxSessions, opened' = opened + 1
  PROVE  opened' \in 0..MaxSessions /\ opened' \in Sessions
<1>1. opened \in 0..MaxSessions
  BY DEF TypeOK
<1>. QED
  BY <1>1, QueriesAssumption DEF Sessions

\* What the type invariant needs to be inductive: a query that is past the
\* checkout holds a session.
HoldsOne(q) ==
  phase[q] \in Submitting \cup Fetching \cup {"settling", "closing_own"} => session[q] \in Sessions

Typed == TypeOK /\ \A q \in Queries : HoldsOne(q)

\* Every step keeps the types, given who holds a session.
LEMMA TypeStep == Typed /\ [Next]_vars => TypeOK'
<1>. SUFFICES ASSUME TypeOK, \A q \in Queries : HoldsOne(q), [Next]_vars PROVE TypeOK'
  BY DEF Typed
<1>. USE DEF poolVars, queryVars, closeVars, serverVars, MoveTo
<1>1. ASSUME NEW q \in Queries, TakeIdle(q) PROVE TypeOK'
  <2>1. KeyOf[q] \in Keys
    BY QueriesAssumption
  <2>2. idle' \in [Keys -> Seq(Sessions)] /\ TopIdle(KeyOf[q]) \in Sessions
    BY <1>1, <2>1, PoolTypes, PoolIsTyped DEF TakeIdle
  <2>. QED
    BY <1>1, <2>2 DEF TypeOK, TakeIdle, Hold, Phases, Submitting
<1>2. ASSUME NEW q \in Queries, TakeNothing(q) PROVE TypeOK'
  BY <1>2 DEF TypeOK, TakeNothing, Phases
<1>3. ASSUME NEW q \in Queries, ReserveSlot(q) PROVE TypeOK'
  <2>1. KeyOf[q] \in Keys
    BY QueriesAssumption
  <2>2. CASE HasRoom(KeyOf[q])
    <3>1. total' \in [Keys -> 0..MaxSessionsPerKey]
      BY <1>3, <2>1, <2>2, PoolTypes, PoolIsTyped DEF ReserveSlot
    <3>. QED
      BY <1>3, <2>2, <3>1 DEF TypeOK, ReserveSlot, Phases
  <2>3. CASE ~HasRoom(KeyOf[q])
    BY <1>3, <2>3 DEF TypeOK, ReserveSlot, PoolFull, Phases
  <2>. QED
    BY <2>2, <2>3
<1>4. ASSUME NEW q \in Queries, OpenSession(q) PROVE TypeOK'
  <2>1. opened' \in 0..MaxSessions /\ opened' \in Sessions
    BY <1>4, OpenedTypes DEF OpenSession
  <2>2. live' \subseteq Sessions
    BY <1>4, <2>1 DEF TypeOK, OpenSession
  <2>3. /\ session' \in [Queries -> Sessions \cup {NoSession}]
        /\ fromPool' \in [Queries -> BOOLEAN]
        /\ reused' \in [Queries -> BOOLEAN]
    BY <1>4, <2>1, Zenon DEF TypeOK, OpenSession, Hold
  <2>. QED
    BY <1>4, <2>1, <2>2, <2>3 DEF TypeOK, OpenSession, Phases, Submitting
<1>5. ASSUME NEW q \in Queries, OpenSessionFails(q) \/ CancelOpening(q) PROVE TypeOK'
  <2>1. KeyOf[q] \in Keys
    BY QueriesAssumption
  <2>2. total' \in [Keys -> 0..MaxSessionsPerKey]
    <3>1. Release(KeyOf[q]) \/ total' = total
      BY <1>5 DEF OpenSessionFails, CancelOpening
    <3>. QED
      BY <2>1, <3>1, PoolTypes, PoolIsTyped DEF TypeOK
  <2>3. MayStray /\ UNCHANGED <<idle, session, fromPool, reused, retried, answer, drained, closeVars>>
    BY <1>5 DEF OpenSessionFails, CancelOpening
  <2>4. phase' \in [Queries -> Phases]
    <3>1. \E p \in {"opening_own", "failed", "cancelled"} : MoveTo(q, p)
      BY <1>5 DEF OpenSessionFails, CancelOpening
    <3>. QED
      BY <3>1 DEF TypeOK, Phases, Ended
  <2>5. /\ opened' \in 0..MaxSessions /\ live' \subseteq Sessions /\ strays' \subseteq Sessions
        /\ UNCHANGED <<operation, executed, restarts>>
    <3>1. CASE UNCHANGED serverVars
      BY <3>1 DEF TypeOK
    <3>2. CASE /\ opened < MaxSessions
               /\ opened' = opened + 1
               /\ live' = live \cup {opened'}
               /\ strays' = strays \cup {opened'}
               /\ UNCHANGED <<operation, executed, restarts>>
      <4>1. opened' \in 0..MaxSessions /\ opened' \in Sessions
        BY <3>2, OpenedTypes
      <4>. QED
        BY <3>2, <4>1 DEF TypeOK
    <3>. QED
      BY <2>3, <3>1, <3>2 DEF MayStray
  <2>. QED
    BY <2>2, <2>3, <2>4, <2>5 DEF TypeOK
<1>6. ASSUME NEW q \in Queries, StatementAccepted(q) PROVE TypeOK'
  BY <1>6 DEF TypeOK, StatementAccepted, SubmitKeeps, RunStatement, Phases, Submitting
<1>7. ASSUME NEW q \in Queries,
             StatementRejected(q) \/ SubmitFails(q) \/ StatementFinished(q) \/ StatementFails(q)
      PROVE  TypeOK'
  <2>1. executed' \in [Queries -> Nat]
    BY <1>7 DEF TypeOK, StatementRejected, SubmitFails, StatementFinished, StatementFails, RunStatement
  <2>2. /\ phase' \in [Queries -> Phases]
        /\ answer' \in [Queries -> {"none", "ok", "error", "stale"}]
    BY <1>7 DEF TypeOK, StatementRejected, SubmitFails, StatementFinished, StatementFails,
                AnswerIs, Phases
  <2>3. SubmitKeeps /\ UNCHANGED operation
    BY <1>7 DEF StatementRejected, SubmitFails, StatementFinished, StatementFails
  <2>. QED
    BY <2>1, <2>2, <2>3 DEF TypeOK, SubmitKeeps
<1>8. ASSUME NEW q \in Queries, Ready(q) \/ NotReady(q) PROVE TypeOK'
  <2>1. KeyOf[q] \in Keys /\ session[q] \in Sessions
    BY <1>8, QueriesAssumption DEF HoldsOne, Ready, NotReady
  <2>2. /\ idle' \in [Keys -> Seq(Sessions)]
        /\ total' \in [Keys -> 0..MaxSessionsPerKey]
    <3>1. \/ \E keep \in BOOLEAN : Checkin(KeyOf[q], session[q], keep)
          \/ UNCHANGED poolVars
      BY <1>8, Zenon DEF Ready, NotReady
    <3>2. UNCHANGED poolVars => idle' = idle /\ total' = total
      OBVIOUS
    <3>3. ASSUME NEW keep \in BOOLEAN, Checkin(KeyOf[q], session[q], keep)
          PROVE  /\ idle' \in [Keys -> Seq(Sessions)]
                 /\ total' \in [Keys -> 0..MaxSessionsPerKey]
      BY <2>1, <3>3, PoolTypes, PoolIsTyped
    <3>. QED
      BY <3>1, <3>2, <3>3, Zenon DEF TypeOK
  <2>3. phase' \in [Queries -> Phases]
    <3>1. \E p \in {"fetching", "stale", "failed", "closing_own"} : MoveTo(q, p)
      BY <1>8 DEF Ready, NotReady
    <3>. QED
      BY <3>1 DEF TypeOK, Phases, Fetching, Ended
  <2>4. closing' \subseteq Sessions
    <3>1. closing' = closing \/ closing' = closing \cup {session[q]}
      BY <1>8 DEF Ready, NotReady, CloseAfterSubmit
    <3>. QED
      BY <2>1, <3>1 DEF TypeOK
  <2>5. UNCHANGED <<session, fromPool, reused, retried, answer, drained, closer, closeList, serverVars>>
    BY <1>8 DEF Ready, NotReady
  <2>. QED
    BY <2>2, <2>3, <2>4, <2>5 DEF TypeOK
<1>9. ASSUME NEW q \in Queries, DrainSiblings(q) PROVE TypeOK'
  <2>1. KeyOf[q] \in Keys
    BY QueriesAssumption
  <2>2. /\ Drained({KeyOf[q]}) \in [Keys -> Seq(Sessions)]
        /\ idle' \in [Keys -> Seq(Sessions)]
    BY <1>9, <2>1, DrainTypes, PoolIsTyped DEF DrainSiblings
  <2>. QED
    BY <1>9, <2>2 DEF TypeOK, DrainSiblings, Phases
<1>10. ASSUME NEW q \in Queries, DiscountSiblings(q) PROVE TypeOK'
  <2>1. drained[q] \in [Keys -> Seq(Sessions)]
    BY DEF TypeOK
  <2>2. /\ total' \in [Keys -> 0..MaxSessionsPerKey]
        /\ NothingDrained \in [Keys -> Seq(Sessions)]
        /\ SessionsIn(drained[q]) \subseteq Sessions
    BY <1>10, <2>1, DiscountTypes, PoolIsTyped DEF DiscountSiblings
  <2>. QED
    BY <1>10, <2>2 DEF TypeOK, DiscountSiblings, Phases
<1>11. ASSUME NEW s \in Sessions, CloseSession(s) PROVE TypeOK'
  <2>1. live' \subseteq Sessions /\ operation' \in [Queries -> {"none", "open", "closed", "lost"}]
    BY <1>11, EndSessionsTypes DEF CloseSession
  <2>. QED
    BY <1>11, <2>1 DEF TypeOK, CloseSession
<1>12. ASSUME NEW q \in Queries, CloseOwn(q) PROVE TypeOK'
  <2>1. live' \subseteq Sessions /\ operation' \in [Queries -> {"none", "open", "closed", "lost"}]
    BY <1>12, EndSessionsTypes DEF CloseOwn
  <2>. QED
    BY <1>12, <2>1 DEF TypeOK, CloseOwn, Phases, Ended
<1>13. ASSUME NEW q \in Queries, FetchLoopEnds(q) \/ CloseOperation(q) PROVE TypeOK'
  BY <1>13 DEF TypeOK, FetchLoopEnds, CloseOperation, Phases, Fetching, Ended
<1>14. ASSUME NEW q \in Queries, CancelSubmitting(q) PROVE TypeOK'
  <2>1. KeyOf[q] \in Keys /\ session[q] \in Sessions
    BY <1>14, QueriesAssumption DEF HoldsOne, CancelSubmitting
  <2>2. total' \in [Keys -> 0..MaxSessionsPerKey]
    <3>1. Release(KeyOf[q]) \/ total' = total
      BY <1>14 DEF CancelSubmitting, DropGuard
    <3>. QED
      BY <2>1, <3>1, PoolTypes, PoolIsTyped DEF TypeOK
  <2>3. closing' \subseteq Sessions
    BY <1>14, <2>1 DEF TypeOK, CancelSubmitting, DropGuard
  <2>4. executed' \in [Queries -> Nat]
    BY <1>14 DEF TypeOK, CancelSubmitting, RunStatement
  <2>5. /\ phase' \in [Queries -> Phases]
        /\ operation' \in [Queries -> {"none", "open", "closed", "lost"}]
    BY <1>14 DEF TypeOK, CancelSubmitting, Phases, Ended
  <2>6. UNCHANGED <<idle, session, fromPool, reused, retried, answer, drained, closer, closeList,
                    opened, live, restarts, strays>>
    BY <1>14 DEF CancelSubmitting
  <2>. QED
    BY <2>2, <2>3, <2>4, <2>5, <2>6 DEF TypeOK
<1>15. ASSUME NEW q \in Queries, CancelClosing(q) PROVE TypeOK'
  <2>1. session[q] \in Sessions
    BY <1>15 DEF HoldsOne, CancelClosing
  <2>. QED
    BY <1>15, <2>1 DEF TypeOK, CancelClosing, Phases, Ended
<1>16. CASE CloseAll
  <2>1. Drained(Keys) \in [Keys -> Seq(Sessions)] /\ idle' \in [Keys -> Seq(Sessions)]
    BY <1>16, DrainTypes, PoolIsTyped DEF CloseAll
  <2>. QED
    BY <1>16, <2>1 DEF TypeOK, CloseAll
<1>17. CASE DiscountAll
  <2>1. closeList \in [Keys -> Seq(Sessions)]
    BY DEF TypeOK
  <2>2. /\ total' \in [Keys -> 0..MaxSessionsPerKey]
        /\ NothingDrained \in [Keys -> Seq(Sessions)]
        /\ SessionsIn(closeList) \subseteq Sessions
    BY <1>17, <2>1, DiscountTypes, PoolIsTyped DEF DiscountAll
  <2>. QED
    BY <1>17, <2>2 DEF TypeOK, DiscountAll
<1>18. CASE Restart
  <2>1. live' \subseteq Sessions /\ operation' \in [Queries -> {"none", "open", "closed", "lost"}]
    BY <1>18, EndSessionsTypes DEF Restart
  <2>2. restarts' \in 0..MaxRestarts
    <3>1. restarts \in 0..MaxRestarts /\ restarts < MaxRestarts /\ restarts' = restarts + 1
      BY <1>18 DEF TypeOK, Restart
    <3>. QED
      BY <3>1, QueriesAssumption
  <2>3. UNCHANGED <<poolVars, queryVars, closeVars, opened, executed, strays>>
    BY <1>18 DEF Restart
  <2>. QED
    BY <2>1, <2>2, <2>3 DEF TypeOK
<1>19. CASE UNCHANGED vars
  BY <1>19 DEF TypeOK, vars
<1>. QED
  BY <1>1, <1>2, <1>3, <1>4, <1>5, <1>6, <1>7, <1>8, <1>9, <1>10, <1>11, <1>12, <1>13, <1>14,
     <1>15, <1>16, <1>17, <1>18, <1>19, Zenon DEF Next, Step, Cancel

\* A step of one query leaves the state of every other query alone.
LEMMA OthersUntouched ==
  ASSUME TypeOK, NEW q \in Queries, NEW r \in Queries, r # q, Step(r) \/ Cancel(r)
  PROVE  /\ phase'[q] = phase[q] /\ session'[q] = session[q] /\ fromPool'[q] = fromPool[q]
         /\ answer'[q] = answer[q] /\ drained'[q] = drained[q] /\ executed'[q] = executed[q]
<1>. USE DEF poolVars, queryVars, closeVars, serverVars, MoveTo, TypeOK
<1>1. phase'[q] = phase[q] /\ answer'[q] = answer[q]
  BY DEF Step, Cancel, TakeIdle, TakeNothing, ReserveSlot, PoolFull, OpenSession, OpenSessionFails,
         StatementAccepted, StatementRejected, SubmitFails, StatementFinished, StatementFails,
         AnswerIs, SubmitKeeps, Ready, NotReady, DrainSiblings, DiscountSiblings, CloseOwn,
         FetchLoopEnds, CloseOperation, CancelOpening, CancelSubmitting, CancelClosing
<1>2. session'[q] = session[q] /\ fromPool'[q] = fromPool[q] /\ drained'[q] = drained[q]
  BY DEF Step, Cancel, TakeIdle, TakeNothing, ReserveSlot, PoolFull, OpenSession, OpenSessionFails,
         StatementAccepted, StatementRejected, SubmitFails, StatementFinished, StatementFails,
         AnswerIs, SubmitKeeps, Ready, NotReady, DrainSiblings, DiscountSiblings, CloseOwn,
         FetchLoopEnds, CloseOperation, CancelOpening, CancelSubmitting, CancelClosing, Hold
<1>3. executed'[q] = executed[q]
  BY DEF Step, Cancel, TakeIdle, TakeNothing, ReserveSlot, PoolFull, OpenSession, OpenSessionFails,
         StatementAccepted, StatementRejected, SubmitFails, StatementFinished, StatementFails,
         AnswerIs, SubmitKeeps, Ready, NotReady, DrainSiblings, DiscountSiblings, CloseOwn,
         FetchLoopEnds, CloseOperation, CancelOpening, CancelSubmitting, CancelClosing, MayStray,
         RunStatement
<1>. QED
  BY <1>1, <1>2, <1>3

\* The steps of the server, of CloseSession and of close_all_thrift_sessions
\* leave the queries alone.
SharedStep == (\E s \in Sessions : CloseSession(s)) \/ CloseAll \/ DiscountAll \/ Restart

\* They change no variable that belongs to a query.
LEMMA SharedSteps ==
  ASSUME SharedStep
  PROVE  UNCHANGED <<phase, session, fromPool, answer, drained, executed>>
BY DEF SharedStep, CloseSession, CloseAll, DiscountAll, Restart, queryVars, serverVars

\* A query that goes past the checkout has been handed a session.
LEMMA HoldsOneStep == Typed /\ [Next]_vars => \A q \in Queries : HoldsOne(q)'
<1>. SUFFICES ASSUME Typed, [Next]_vars, NEW q \in Queries PROVE HoldsOne(q)'
  OBVIOUS
<1>. USE DEF poolVars, queryVars, closeVars, serverVars, MoveTo, Submitting, Fetching
<1>1. TypeOK /\ HoldsOne(q)
  BY DEF Typed
<1>2. CASE SharedStep \/ UNCHANGED vars
  <2>1. phase'[q] = phase[q] /\ session'[q] = session[q]
    BY <1>2, SharedSteps DEF vars
  <2>. QED
    BY <1>1, <2>1 DEF HoldsOne
<1>3. ASSUME NEW r \in Queries, r # q, Step(r) \/ Cancel(r) PROVE HoldsOne(q)'
  BY <1>1, <1>3, OthersUntouched DEF HoldsOne
<1>4. CASE TakeIdle(q)
  <2>1. KeyOf[q] \in Keys
    BY QueriesAssumption
  <2>2. TopIdle(KeyOf[q]) \in Sessions
    BY <1>1, <1>4, <2>1, PoolTypes, PoolIsTyped DEF TakeIdle
  <2>. QED
    BY <1>1, <1>4, <2>2 DEF HoldsOne, TakeIdle, Hold, TypeOK
<1>5. CASE OpenSession(q)
  <2>1. opened' \in Sessions
    BY <1>1, <1>5, OpenedTypes DEF OpenSession
  <2>. QED
    BY <1>1, <1>5, <2>1 DEF HoldsOne, OpenSession, Hold, TypeOK
<1>6. CASE \/ TakeNothing(q) \/ ReserveSlot(q) \/ OpenSessionFails(q)
           \/ DrainSiblings(q) \/ DiscountSiblings(q) \/ Cancel(q)
  <2>1. phase'[q] \notin Submitting \cup Fetching \cup {"settling", "closing_own"}
    BY <1>1, <1>6 DEF TypeOK, TakeNothing, ReserveSlot, PoolFull, OpenSessionFails, DrainSiblings,
                      DiscountSiblings, Cancel, CancelOpening, CancelSubmitting, CancelClosing
  <2>. QED
    BY <2>1 DEF HoldsOne
<1>7. CASE \/ StatementAccepted(q) \/ StatementRejected(q) \/ SubmitFails(q)
           \/ StatementFinished(q) \/ StatementFails(q)
           \/ Ready(q) \/ NotReady(q) \/ CloseOwn(q) \/ FetchLoopEnds(q) \/ CloseOperation(q)
  <2>1. /\ session' = session
        /\ phase[q] \in Submitting \cup Fetching \cup {"settling", "closing_own"}
    BY <1>7 DEF StatementAccepted, StatementRejected, SubmitFails, StatementFinished,
                StatementFails, SubmitKeeps, Ready, NotReady, CloseOwn, FetchLoopEnds,
                CloseOperation
  <2>. QED
    BY <1>1, <2>1 DEF HoldsOne
<1>. QED
  BY <1>2, <1>3, <1>4, <1>5, <1>6, <1>7, Zenon DEF Next, Step, Cancel, SharedStep

\* Every variable stays in its range, and a query past the checkout holds a
\* session of the server.
THEOREM TypeCorrect == Spec => []TypeOK
<1>1. Init => Typed
  <2>1. Init => \A q \in Queries : HoldsOne(q)
    BY DEF Init, HoldsOne, Submitting, Fetching
  <2>. QED
    BY <2>1, TypeInit DEF Typed
<1>2. Typed /\ [Next]_vars => Typed'
  BY TypeStep, HoldsOneStep DEF Typed
<1>3. Typed => TypeOK
  BY DEF Typed
<1>. QED
  BY <1>1, <1>2, <1>3, PTL DEF Spec

-----------------------------------------------------------------------------
(* A statement runs at most once                                            *)

\* A query that may still submit: it has not reached the server, or was told
\* that the server does not know its session.
MaySubmit(q) ==
  \/ phase[q] \in {"checkout", "reserving", "opening", "opening_own", "stale", "draining", "submitting"}
  \/ phase[q] = "settling" /\ answer[q] = "stale"

\* Such a query has run nothing, and left no operation.
Once(q) ==
  /\ executed[q] \in {0, 1}
  /\ MaySubmit(q) => executed[q] = 0 /\ operation[q] = "none"

OnceInv == \A q \in Queries : Once(q)

\* Nothing has run at the start.
LEMMA OnceInit == Init => OnceInv
BY DEF Init, OnceInv, Once

\* Sessions that end touch open operations only.
LEMMA NoneStaysNone ==
  ASSUME TypeOK, NEW ss, EndSessions(ss), NEW q \in Queries
  PROVE  operation[q] = "none" => operation'[q] = "none"
BY DEF EndSessions

\* Only a submission runs a statement, and only an answer that says it did not run
\* leads back to one.
LEMMA OnceStep == Typed /\ OnceInv /\ [Next]_vars => OnceInv'
<1>. SUFFICES ASSUME Typed, OnceInv, [Next]_vars, NEW q \in Queries PROVE Once(q)'
  BY DEF OnceInv
<1>. USE DEF poolVars, queryVars, closeVars, serverVars, MoveTo
<1>1. TypeOK /\ Once(q)
  BY DEF Typed, OnceInv
<1>2. \A ss : EndSessions(ss) /\ operation[q] = "none" => operation'[q] = "none"
  BY <1>1, NoneStaysNone
<1>3. CASE SharedStep \/ UNCHANGED vars
  <2>1. /\ phase' = phase /\ answer' = answer /\ executed' = executed
        /\ operation[q] = "none" => operation'[q] = "none"
    BY <1>2, <1>3, SharedSteps DEF vars, SharedStep, CloseSession, CloseAll, DiscountAll, Restart
  <2>. QED
    BY <1>1, <2>1 DEF Once, MaySubmit
<1>4. ASSUME NEW r \in Queries, r # q, Step(r) \/ Cancel(r) PROVE Once(q)'
  <2>1. operation[q] = "none" => operation'[q] = "none"
    BY <1>1, <1>2, <1>4
       DEF TypeOK, Step, Cancel, TakeIdle, TakeNothing, ReserveSlot, PoolFull, OpenSession,
           OpenSessionFails, StatementAccepted, StatementRejected, SubmitFails, StatementFinished,
           StatementFails, SubmitKeeps, Ready, NotReady, DrainSiblings, DiscountSiblings,
           CloseOwn, FetchLoopEnds, CloseOperation, CancelOpening, CancelSubmitting,
           CancelClosing, MayStray
  <2>2. phase'[q] = phase[q] /\ answer'[q] = answer[q] /\ executed'[q] = executed[q]
    BY <1>1, <1>4, OthersUntouched
  <2>. QED
    BY <1>1, <2>1, <2>2 DEF Once, MaySubmit
<1>5. CASE \/ TakeIdle(q) \/ TakeNothing(q) \/ ReserveSlot(q) \/ OpenSession(q)
           \/ OpenSessionFails(q) \/ CancelOpening(q) \/ DrainSiblings(q) \/ DiscountSiblings(q)
  <2>1. MaySubmit(q) /\ executed' = executed /\ operation' = operation
    BY <1>5 DEF MaySubmit, TakeIdle, TakeNothing, ReserveSlot, OpenSession, Opening,
                OpenSessionFails, CancelOpening, MayStray, DrainSiblings, DiscountSiblings
  <2>. QED
    BY <1>1, <2>1 DEF Once
<1>6. CASE StatementAccepted(q) \/ SubmitFails(q) \/ CancelSubmitting(q)
  <2>1. /\ \/ executed' = executed
           \/ phase[q] = "submitting" /\ executed' = [executed EXCEPT ![q] = @ + 1]
        /\ \/ phase'[q] \in {"polling", "cancelled"}
           \/ phase'[q] = "settling" /\ answer'[q] = "error"
    <3>1. CASE StatementAccepted(q)
      BY <1>1, <3>1 DEF TypeOK, StatementAccepted, RunStatement
    <3>2. CASE SubmitFails(q)
      <4>1. phase'[q] = "settling" /\ answer'[q] = "error"
        BY <1>1, <3>2 DEF TypeOK, SubmitFails, AnswerIs
      <4>2. executed' = executed \/ executed' = [executed EXCEPT ![q] = @ + 1]
        BY <3>2 DEF SubmitFails, RunStatement
      <4>. QED
        BY <3>2, <4>1, <4>2 DEF SubmitFails
    <3>3. CASE CancelSubmitting(q)
      <4>1. phase'[q] = "cancelled"
        BY <1>1, <3>3 DEF TypeOK, CancelSubmitting
      <4>2. \/ executed' = executed
            \/ phase[q] = "submitting" /\ executed' = [executed EXCEPT ![q] = @ + 1]
        BY <3>3 DEF CancelSubmitting, RunStatement
      <4>. QED
        BY <4>1, <4>2
    <3>. QED
      BY <1>6, <3>1, <3>2, <3>3
  <2>2. executed'[q] \in {0, 1}
    BY <1>1, <2>1 DEF TypeOK, Once, MaySubmit
  <2>3. ~MaySubmit(q)'
    BY <2>1 DEF MaySubmit
  <2>. QED
    BY <2>2, <2>3 DEF Once
<1>7. CASE StatementRejected(q)
  <2>1. phase[q] = "submitting" /\ executed' = executed /\ operation' = operation
    BY <1>7 DEF StatementRejected
  <2>. QED
    BY <1>1, <2>1 DEF Once, MaySubmit
<1>8. CASE NotReady(q)
  <2>1. /\ phase[q] = "settling" /\ executed' = executed /\ operation' = operation
        /\ \/ phase'[q] = "stale" /\ answer[q] = "stale"
           \/ phase'[q] \in {"failed", "closing_own"}
    <3>1. /\ phase[q] = "settling" /\ executed' = executed /\ operation' = operation
          /\ \/ MoveTo(q, "stale") /\ MayRetry(q)
             \/ MoveTo(q, "failed") \/ MoveTo(q, "closing_own")
      BY <1>8 DEF NotReady
    <3>. QED
      BY <1>1, <3>1 DEF TypeOK, MayRetry
  <2>. QED
    BY <1>1, <2>1 DEF Once, MaySubmit
<1>9. CASE \/ StatementFinished(q) \/ StatementFails(q) \/ Ready(q) \/ CloseOwn(q)
           \/ FetchLoopEnds(q) \/ CloseOperation(q) \/ CancelClosing(q)
  <2>1. /\ executed' = executed
        /\ \/ phase'[q] \in Fetching \cup Ended
           \/ phase'[q] = "settling" /\ answer'[q] # "stale"
    BY <1>1, <1>9 DEF TypeOK, StatementFinished, StatementFails, AnswerIs, SubmitKeeps, Ready,
                      CloseOwn, FetchLoopEnds, CloseOperation, CancelClosing, Fetching, Ended
  <2>2. ~MaySubmit(q)'
    BY <2>1 DEF MaySubmit, Fetching, Ended
  <2>. QED
    BY <1>1, <2>1, <2>2 DEF Once
<1>. QED
  BY <1>3, <1>4, <1>5, <1>6, <1>7, <1>8, <1>9, Zenon DEF Next, Step, Cancel, SharedStep

\* A statement is run at most once, whatever sessions go stale under it and
\* wherever it is retried, fails or is abandoned: the retry is taken only on an
\* answer that says it did not run.
THEOREM RunsOnce == Spec => []RunsAtMostOnce
<1>1. Init => Typed /\ OnceInv
  <2>1. Init => \A q \in Queries : HoldsOne(q)
    BY DEF Init, HoldsOne, Submitting, Fetching
  <2>. QED
    BY <2>1, TypeInit, OnceInit DEF Typed
<1>2. Typed /\ OnceInv /\ [Next]_vars => (Typed /\ OnceInv)'
  BY TypeStep, HoldsOneStep, OnceStep DEF Typed
<1>3. OnceInv => RunsAtMostOnce
  BY DEF OnceInv, Once, RunsAtMostOnce
<1>. QED
  BY <1>1, <1>2, <1>3, PTL DEF Spec

-----------------------------------------------------------------------------
(* Who has which session                                                    *)

\* A query that holds its session, or fetches on one of its own.
Owns(q) == Holding(q) \/ (phase[q] \in Fetching /\ ~fromPool[q])

Lent   == {session[q] : q \in {p \in Queries : Owns(p)}}
Swept  == SessionsIn(closeList) \cup UNION {SessionsIn(drained[q]) : q \in Queries}
Going  == closing \cup Swept

\* What it means to be in one of these sets.
LEMMA Members ==
  /\ \A lists, s : s \in SessionsIn(lists) <=> \E k \in Keys : s \in Range(lists[k])
  /\ \A s : s \in Parked <=> \E k \in Keys : s \in Range(idle[k])
  /\ \A s : s \in Swept <=> \/ s \in SessionsIn(closeList)
                            \/ \E q \in Queries : s \in SessionsIn(drained[q])
  /\ \A s : s \in Lent <=> \E q \in Queries : Owns(q) /\ s = session[q]
  BY ParkedMembers, Zenon DEF Swept, Lent

\* The same of Swept in the next state.
LEMMA SweptNext ==
  \A s : s \in Swept' <=> \/ s \in SessionsIn(closeList')
                          \/ \E q \in Queries : s \in SessionsIn(drained'[q])
<1>1. Swept' = SessionsIn(closeList') \cup UNION {SessionsIn(drained'[q]) : q \in Queries}
  BY DEF Swept, SessionsIn
<1>. QED
  BY <1>1, Zenon

-----------------------------------------------------------------------------
(* Every session in one place                                               *)

\* What a drain took off the pool is gone again when the drain is over.
SweptInTime ==
  /\ \A q \in Queries : phase[q] # "draining" => drained[q] = NothingDrained
  /\ closer # "drained" => closeList = NothingDrained

\* An idle session is not on its way out, and neither is a session that a query
\* owns; no two queries own the same.
Apart ==
  /\ StacksApart
  /\ Parked \cup Going \subseteq 1..opened
  /\ Parked \cap Going = {}
  /\ \A q \in Queries : Owns(q) => session[q] \in 1..opened /\ session[q] \notin Parked \cup Going
  /\ \A q, r \in Queries : q # r /\ Owns(q) /\ Owns(r) => session[q] # session[r]

\* A session the server knows is in one of these places.
Accounted == live \subseteq strays \cup Going \cup Parked \cup Lent

\* A step after which no query owns a session that it did not own before keeps
\* the sessions apart, when those it takes from a query go to one place.
LEMMA NoNewOwner ==
  ASSUME Apart, StacksApart',
         opened \in Nat, opened' \in Nat, opened <= opened',
         NEW freed,
         \A s \in freed : \E q \in Queries : Owns(q) /\ s = session[q] /\ ~Owns(q)',
         \A q \in Queries : Owns(q)' => Owns(q) /\ session'[q] = session[q],
         Parked' \cup Going' \subseteq Parked \cup Going \cup freed,
         Parked' \cap Going' = {}
  PROVE  Apart'
<1>1. \A n \in 1..opened : n \in 1..opened'
  OBVIOUS
<1>2. freed \subseteq 1..opened
  BY DEF Apart
<1>3. (Parked \cup Going \subseteq 1..opened)'
  BY <1>1, <1>2, Zenon DEF Apart
<1>4. ASSUME NEW q \in Queries, Owns(q)'
      PROVE  session'[q] \in 1..opened' /\ session'[q] \notin Parked' \cup Going'
  <2>1. session[q] \notin freed
    BY <1>4 DEF Apart
  <2>. QED
    BY <1>1, <1>4, <2>1, Zenon DEF Apart
<1>5. ASSUME NEW q \in Queries, NEW r \in Queries, q # r, Owns(q)', Owns(r)'
      PROVE  session'[q] # session'[r]
  BY <1>5, Zenon DEF Apart
<1>. QED
  BY <1>3, <1>4, <1>5, Zenon DEF Apart

\* Where a session is depends on these variables alone.
LEMMA SamePlaces ==
  /\ idle' = idle => Parked' = Parked /\ (StacksApart => StacksApart')
  /\ closeList' = closeList /\ drained' = drained => Swept' = Swept
  /\ closing' = closing /\ Swept' = Swept => Going' = Going
BY DEF Parked, SessionsIn, StacksApart, Swept, Going

\* What a query owns does not depend on the steps of others.
LEMMA OthersOwn ==
  ASSUME TypeOK, NEW q \in Queries, NEW r \in Queries, r # q, Step(r) \/ Cancel(r)
  PROVE  (Owns(q)' <=> Owns(q)) /\ session'[q] = session[q]
<1>1. phase'[q] = phase[q] /\ session'[q] = session[q] /\ fromPool'[q] = fromPool[q]
  BY OthersUntouched
<1>. QED
  BY <1>1 DEF Owns, Holding

\* A step of one query takes no session from another.
LEMMA OthersLend ==
  ASSUME TypeOK, NEW q \in Queries, Step(q) \/ Cancel(q)
  PROVE  /\ \A s \in Lent : s \in Lent' \/ (Owns(q) /\ s = session[q])
         /\ Owns(q)' => session'[q] \in Lent'
<1>1. \A s : s \in Lent' <=> \E r \in Queries : Owns(r)' /\ s = session'[r]
  BY Zenon DEF Lent
<1>2. ASSUME NEW s \in Lent, ~(Owns(q) /\ s = session[q]) PROVE s \in Lent'
  <2>1. PICK r \in Queries : Owns(r) /\ s = session[r]
    BY <1>2, Members, Zenon
  <2>2. r # q
    BY <1>2, <2>1
  <2>3. Owns(r)' /\ session'[r] = session[r]
    BY <2>1, <2>2, OthersOwn
  <2>. QED
    BY <1>1, <2>1, <2>3, Zenon
<1>. QED
  BY <1>1, <1>2, Zenon

\* The steps of a query that leave the stacks alone: it goes on with what it
\* has, frees its session to be closed, loses it or leaves it.
LEMMA NoPoolStep ==
  ASSUME TypeOK, Apart, Accounted, NEW q \in Queries, Step(q) \/ Cancel(q),
         UNCHANGED <<idle, session>>,
         Owns(q)' => Owns(q),
         \/ Going' = Going
         \/ Going' = Going \cup {session[q]} /\ Owns(q) /\ ~Owns(q)',
         opened' \in Nat, opened <= opened',
         live' \subseteq live \cup strays', strays \subseteq strays',
         Owns(q) => Owns(q)' \/ session[q] \in Going' \cup strays' \/ session[q] \notin live'
  PROVE  Apart' /\ Accounted'
<1>1. Parked' = Parked /\ StacksApart'
  BY SamePlaces DEF Apart
<1>2. opened \in Nat
  BY DEF TypeOK
<1>3. \A r \in Queries : Owns(r)' => Owns(r) /\ session'[r] = session[r]
  BY OthersOwn
<1>. DEFINE freed == Going' \ Going
<1>4. \A s \in freed : \E r \in Queries : Owns(r) /\ s = session[r] /\ ~Owns(r)'
  OBVIOUS
<1>5. \A s \in freed : s \notin Parked
  BY DEF Apart
<1>6. /\ Parked' \cup Going' \subseteq Parked \cup Going \cup freed
      /\ Parked' \cap Going' = {}
  BY <1>1, <1>5 DEF Apart
<1>. HIDE DEF freed
<1>7. Apart'
  BY <1>1, <1>2, <1>3, <1>4, <1>6, NoNewOwner, Zenon
<1>8. Accounted'
  <2>1. \A s \in live' : s \in strays' \cup Going' \cup Parked' \cup Lent'
    BY <1>1, OthersLend DEF Accounted
  <2>. QED
    BY <2>1 DEF Accounted
<1>. QED
  BY <1>7, <1>8

\* The sessions ever created only grow in number.
LEMMA OpenedGrows ==
  ASSUME TypeOK, opened' = opened + 1 \/ opened' = opened
  PROVE  opened \in Nat /\ opened' \in Nat /\ opened <= opened'
BY DEF TypeOK

\* The steps of a query keep the sessions apart and accounted for.
LEMMA OwnStep ==
  ASSUME TypeOK, Apart, Accounted, SweptInTime, NEW q \in Queries, HoldsOne(q), Step(q) \/ Cancel(q)
  PROVE  Apart' /\ Accounted'
<1>. USE DEF poolVars, queryVars, closeVars, serverVars, MoveTo
<1>1. CASE \/ TakeNothing(q) \/ ReserveSlot(q) \/ StatementAccepted(q) \/ StatementRejected(q)
           \/ SubmitFails(q) \/ StatementFinished(q) \/ StatementFails(q) \/ FetchLoopEnds(q)
           \/ CloseOperation(q) \/ ((Ready(q) \/ NotReady(q)) /\ ~fromPool[q])
  <2>1. UNCHANGED <<idle, session, fromPool, closing, closeList, drained, opened, live, strays>>
    BY <1>1 DEF TakeNothing, ReserveSlot, StatementAccepted, StatementRejected, SubmitFails,
                StatementFinished, StatementFails, SubmitKeeps, FetchLoopEnds, CloseOperation,
                Ready, CloseAfterSubmit, NotReady
  <2>2. Owns(q)' <=> Owns(q)
    BY <1>1, <2>1 DEF TakeNothing, ReserveSlot, PoolFull, StatementAccepted, StatementRejected,
                SubmitFails, StatementFinished, StatementFails, AnswerIs, FetchLoopEnds,
                CloseOperation, Ready, NotReady, Owns, Holding, Fetching, Submitting, TypeOK
  <2>3. Going' = Going
    BY <2>1, SamePlaces
  <2>4. opened' \in Nat /\ opened <= opened'
    BY <2>1, OpenedGrows
  <2>. QED
    BY <2>1, <2>2, <2>3, <2>4, NoPoolStep
<1>2. CASE OpenSessionFails(q) \/ CancelOpening(q)
  <2>1. UNCHANGED <<idle, session, closing, closeList, drained>>
    BY <1>2 DEF OpenSessionFails, CancelOpening
  <2>2. ~Owns(q) /\ ~Owns(q)'
    BY <1>2 DEF OpenSessionFails, CancelOpening, Opening, Owns, Holding, Fetching, Submitting, TypeOK
  <2>3. Going' = Going
    BY <2>1, SamePlaces
  <2>4. /\ opened' = opened + 1 \/ opened' = opened
        /\ \/ live' = live /\ strays' = strays
           \/ live' = live \cup {opened'} /\ strays' = strays \cup {opened'}
    <3>1. MayStray
      BY <1>2 DEF OpenSessionFails, CancelOpening
    <3>. QED
      BY <3>1, Zenon DEF MayStray
  <2>5. opened' \in Nat /\ opened <= opened'
    BY <2>4, OpenedGrows
  <2>. QED
    BY <2>1, <2>2, <2>3, <2>4, <2>5, NoPoolStep
<1>3. CASE CancelClosing(q)
  <2>1. UNCHANGED <<idle, session, closing, closeList, drained, opened, live>>
    BY <1>3 DEF CancelClosing
  <2>2. ~Owns(q)' /\ strays' = strays \cup {session[q]}
    BY <1>3 DEF CancelClosing, Owns, Holding, Fetching, Submitting, TypeOK
  <2>3. Going' = Going /\ opened' \in Nat /\ opened <= opened'
    BY <2>1, SamePlaces, OpenedGrows
  <2>. QED
    BY <2>1, <2>2, <2>3, NoPoolStep
<1>4. CASE CloseOwn(q)
  <2>1. UNCHANGED <<idle, session, closing, closeList, drained, opened, strays>>
    BY <1>4 DEF CloseOwn
  <2>2. ~Owns(q)' /\ live' = live \ {session[q]}
    BY <1>4 DEF CloseOwn, EndSessions, Owns, Holding, Fetching, Submitting, TypeOK
  <2>3. Going' = Going /\ opened' \in Nat /\ opened <= opened'
    BY <2>1, SamePlaces, OpenedGrows
  <2>. QED
    BY <2>1, <2>2, <2>3, NoPoolStep
<1>5. CASE CancelSubmitting(q) \/ (NotReady(q) /\ fromPool[q])
  <2>1. UNCHANGED <<idle, session, closeList, drained, opened, live, strays>>
    BY <1>5 DEF CancelSubmitting, DropGuard, NotReady, Checkin
  <2>2. Owns(q) /\ ~Owns(q)'
    BY <1>5 DEF CancelSubmitting, NotReady, Owns, Holding, Fetching, Submitting, TypeOK
  <2>3. closing' = closing \cup {session[q]}
    BY <1>5 DEF CancelSubmitting, DropGuard, NotReady
  <2>4. Going' = Going \cup {session[q]}
    BY <2>1, <2>3, SamePlaces DEF Going
  <2>5. opened' \in Nat /\ opened <= opened'
    BY <2>1, OpenedGrows
  <2>. QED
    BY <2>1, <2>2, <2>4, <2>5, NoPoolStep
<1>6. CASE DiscountSiblings(q)
  <2>1. UNCHANGED <<idle, session, closeList, opened, live, strays>>
    BY <1>6 DEF DiscountSiblings
  <2>2. ~Owns(q) /\ ~Owns(q)'
    BY <1>6 DEF DiscountSiblings, Owns, Holding, Fetching, Submitting, TypeOK
  <2>3. Going' = Going
    <3>1. closing' = closing \cup SessionsIn(drained[q])
      BY <1>6 DEF DiscountSiblings
    <3>2. /\ SessionsIn(drained'[q]) = {}
          /\ \A r \in Queries \ {q} : drained'[r] = drained[r]
      BY <1>6, NothingSwept DEF DiscountSiblings, TypeOK
    <3>4. \A s : s \in Swept <=> s \in Swept' \/ s \in SessionsIn(drained[q])
      <4>1. \A s : /\ s \in SessionsIn(closeList') <=> s \in SessionsIn(closeList)
                   /\ s \notin SessionsIn(drained'[q])
                   /\ \A r \in Queries \ {q} :
                        s \in SessionsIn(drained'[r]) <=> s \in SessionsIn(drained[r])
        BY <2>1, <3>2
      <4>. QED
        BY <4>1, SweptNext, Members, Zenon
    <3>. QED
      BY <3>1, <3>4 DEF Going
  <2>4. opened' \in Nat /\ opened <= opened'
    BY <2>1, OpenedGrows
  <2>. QED
    BY <2>1, <2>2, <2>3, <2>4, NoPoolStep
<1>7. CASE DrainSiblings(q)
  <2>. DEFINE siblings == SessionsIn(Drained({KeyOf[q]}))
  <2>1. KeyOf[q] \in Keys
    BY QueriesAssumption
  <2>2. UNCHANGED <<session, closing, closeList, opened, live, strays>>
    BY <1>7 DEF DrainSiblings
  <2>3. ~Owns(q) /\ ~Owns(q)'
    BY <1>7 DEF DrainSiblings, Owns, Holding, Fetching, Submitting, TypeOK
  <2>4. StacksApart' /\ siblings \subseteq Parked /\ Parked' = Parked \ siblings
    BY <1>7, <2>1, RemoveParked, PoolIsTyped DEF DrainSiblings, Apart
  <2>5. Going' = Going \cup siblings
    <3>1. /\ SessionsIn(drained[q]) = {}
          /\ SessionsIn(drained'[q]) = siblings
          /\ \A r \in Queries \ {q} : drained'[r] = drained[r]
      BY <1>7, NothingSwept DEF DrainSiblings, TypeOK, SweptInTime
    <3>. HIDE DEF siblings
    <3>3. \A s : /\ s \in SessionsIn(closeList') <=> s \in SessionsIn(closeList)
                 /\ s \notin SessionsIn(drained[q])
                 /\ s \in SessionsIn(drained'[q]) <=> s \in siblings
                 /\ \A r \in Queries \ {q} :
                      s \in SessionsIn(drained'[r]) <=> s \in SessionsIn(drained[r])
      BY <2>2, <3>1
    <3>4. \A s : s \in Swept' <=> s \in Swept \/ s \in siblings
      BY <3>3, SweptNext, Members, Zenon
    <3>. QED
      BY <2>2, <3>4 DEF Going
  <2>. HIDE DEF siblings
  <2>6. \A r \in Queries : Owns(r)' => Owns(r) /\ session'[r] = session[r]
    BY <1>7, <2>3, OthersOwn DEF Step
  <2>7. /\ Parked' \cup Going' \subseteq Parked \cup Going \cup {}
        /\ Parked' \cap Going' = {}
    BY <2>4, <2>5 DEF Apart
  <2>8. Apart'
    <3>1. opened \in Nat /\ opened' \in Nat /\ opened <= opened'
      BY <2>2, OpenedGrows
    <3>2. \A s \in {} : \E r \in Queries : Owns(r) /\ s = session[r] /\ ~Owns(r)'
      OBVIOUS
    <3>. QED
      BY <2>4, <2>6, <2>7, <3>1, <3>2, NoNewOwner, Zenon
  <2>9. Accounted'
    <3>1. \A s \in live' : s \in strays' \cup Going' \cup Parked' \cup Lent'
      BY <2>2, <2>3, <2>4, <2>5, OthersLend DEF Accounted
    <3>. QED
      BY <3>1 DEF Accounted
  <2>. QED
    BY <2>8, <2>9
<1>8. CASE TakeIdle(q)
  <2>. DEFINE top == TopIdle(KeyOf[q])
  <2>1. KeyOf[q] \in Keys
    BY QueriesAssumption
  <2>2. UNCHANGED <<closing, closeList, drained, opened, live, strays>>
    BY <1>8 DEF TakeIdle
  <2>3. StacksApart' /\ top \in Parked /\ Parked' = Parked \ {top}
    BY <1>8, <2>1, TakeParked, PoolIsTyped DEF TakeIdle, Apart
  <2>4. ~Owns(q) /\ Owns(q)' /\ session'[q] = top
    BY <1>8 DEF TakeIdle, Hold, Owns, Holding, Fetching, Submitting, TypeOK
  <2>5. Going' = Going
    BY <2>2, SamePlaces
  <2>. HIDE DEF top
  <2>6. \A r \in Queries \ {q} : (Owns(r)' <=> Owns(r)) /\ session'[r] = session[r]
    BY <1>8, OthersOwn DEF Step
  <2>7. Apart'
    <3>1. \A r \in Queries : Owns(r)' => session'[r] \in 1..opened' /\ session'[r] \notin Parked' \cup Going'
      BY <2>2, <2>3, <2>4, <2>5, <2>6 DEF Apart
    <3>2. \A r, p \in Queries : r # p /\ Owns(r)' /\ Owns(p)' => session'[r] # session'[p]
      BY <2>3, <2>4, <2>6 DEF Apart
    <3>3. Parked' \cup Going' \subseteq 1..opened' /\ Parked' \cap Going' = {}
      BY <2>2, <2>3, <2>5 DEF Apart
    <3>. QED
      BY <2>3, <3>1, <3>2, <3>3, Zenon DEF Apart
  <2>8. Accounted'
    <3>1. \A s \in live' : s \in strays' \cup Going' \cup Parked' \cup Lent'
      BY <1>8, <2>2, <2>3, <2>4, <2>5, OthersLend DEF Accounted, Step
    <3>. QED
      BY <3>1 DEF Accounted
  <2>. QED
    BY <2>7, <2>8
<1>9. CASE OpenSession(q)
  <2>1. UNCHANGED <<idle, closing, closeList, drained, strays>>
    BY <1>9 DEF OpenSession
  <2>2. ~Owns(q) /\ Owns(q)' /\ session'[q] = opened' /\ live' = live \cup {opened'}
    BY <1>9 DEF OpenSession, Opening, Hold, Owns, Holding, Fetching, Submitting, TypeOK
  <2>3. Going' = Going /\ Parked' = Parked /\ StacksApart'
    BY <2>1, SamePlaces DEF Apart
  <2>4. \A r \in Queries \ {q} : (Owns(r)' <=> Owns(r)) /\ session'[r] = session[r]
    BY <1>9, OthersOwn DEF Step
  <2>5. opened' \in 1..opened' /\ opened' \notin 1..opened /\ 1..opened \subseteq 1..opened'
    BY <1>9 DEF OpenSession, TypeOK
  <2>6. Apart'
    <3>1. \A r \in Queries : Owns(r)' => session'[r] \in 1..opened' /\ session'[r] \notin Parked' \cup Going'
      BY <2>2, <2>3, <2>4, <2>5, Zenon DEF Apart
    <3>2. \A r, p \in Queries : r # p /\ Owns(r)' /\ Owns(p)' => session'[r] # session'[p]
      BY <2>2, <2>4, <2>5, Zenon DEF Apart
    <3>3. Parked' \cup Going' \subseteq 1..opened' /\ Parked' \cap Going' = {}
      BY <2>3, <2>5, Zenon DEF Apart
    <3>. QED
      BY <2>3, <3>1, <3>2, <3>3, Zenon DEF Apart
  <2>7. Accounted'
    <3>1. \A s \in live' : s \in strays' \cup Going' \cup Parked' \cup Lent'
      BY <1>9, <2>1, <2>2, <2>3, OthersLend DEF Accounted, Step
    <3>. QED
      BY <3>1 DEF Accounted
  <2>. QED
    BY <2>6, <2>7
<1>10. CASE Ready(q) /\ fromPool[q]
  <2>1. KeyOf[q] \in Keys
    BY QueriesAssumption
  <2>2. UNCHANGED <<session, closing, closeList, drained, opened, live, strays>>
    BY <1>10 DEF Ready, CloseAfterSubmit
  <2>3. Owns(q) /\ ~Owns(q)'
    BY <1>10 DEF Ready, Owns, Holding, Fetching, Submitting, TypeOK
  <2>4. session[q] \in Sessions /\ session[q] \notin Parked \cup Going
    <3>1. session[q] \notin Parked \cup Going
      BY <2>3 DEF Apart
    <3>2. session[q] \in Sessions
      BY <1>10 DEF HoldsOne, Ready
    <3>. QED
      BY <3>1, <3>2
  <2>5. StacksApart' /\ Parked' = Parked \cup {session[q]}
    <3>1. Put(KeyOf[q], session[q])
      BY <1>10 DEF Ready, Checkin
    <3>. QED
      BY <2>1, <2>4, <3>1, PutParked, PoolIsTyped DEF Apart
  <2>6. Going' = Going
    BY <2>2, SamePlaces
  <2>7. Apart'
    <3>1. opened \in Nat /\ opened' \in Nat /\ opened <= opened'
      BY <2>2, OpenedGrows
    <3>2. \A r \in Queries : Owns(r)' => Owns(r) /\ session'[r] = session[r]
      BY <1>10, <2>3, OthersOwn DEF Step
    <3>3. \A s \in {session[q]} : \E r \in Queries : Owns(r) /\ s = session[r] /\ ~Owns(r)'
      BY <2>3
    <3>4. /\ Parked' \cup Going' \subseteq Parked \cup Going \cup {session[q]}
          /\ Parked' \cap Going' = {}
      BY <2>4, <2>5, <2>6 DEF Apart
    <3>. QED
      BY <2>5, <3>1, <3>2, <3>3, <3>4, NoNewOwner, Zenon
  <2>8. Accounted'
    <3>1. \A s \in live' : s \in strays' \cup Going' \cup Parked' \cup Lent'
      BY <1>10, <2>2, <2>5, <2>6, OthersLend DEF Accounted, Step
    <3>. QED
      BY <3>1 DEF Accounted
  <2>. QED
    BY <2>7, <2>8
<1>. QED
  BY <1>1, <1>2, <1>3, <1>4, <1>5, <1>6, <1>7, <1>8, <1>9, <1>10, Zenon DEF Step, Cancel

\* Who owns what depends on these variables alone.
LEMMA SameOwners ==
  UNCHANGED <<phase, session, fromPool>> =>
    /\ \A q \in Queries : (Owns(q)' <=> Owns(q)) /\ session'[q] = session[q]
    /\ Lent' = Lent
BY DEF Owns, Holding, Lent

\* CloseSession, close_all_thrift_sessions and a restart do so too.
LEMMA OwnShared ==
  ASSUME TypeOK, Apart, Accounted, SweptInTime, SharedStep
  PROVE  Apart' /\ Accounted'
<1>. USE DEF poolVars, queryVars, closeVars, serverVars
<1>1. UNCHANGED <<phase, session, fromPool, drained>>
  BY SharedSteps
<1>2. /\ \A q \in Queries : Owns(q)' => Owns(q) /\ session'[q] = session[q]
      /\ Lent' = Lent
  BY <1>1, SameOwners
<1>3. /\ opened' = opened
      /\ opened \in Nat /\ opened' \in Nat /\ opened <= opened'
  <2>1. opened' = opened
    BY DEF SharedStep, CloseSession, CloseAll, DiscountAll, Restart
  <2>. QED
    BY <2>1, OpenedGrows
<1>4. SUFFICES /\ StacksApart'
               /\ Parked' \cup Going' \subseteq Parked \cup Going
               /\ Parked' \cap Going' = {}
               /\ \A s \in live' : s \in strays' \cup Going' \cup Parked' \cup Lent
  <2>1. \A s \in {} : \E q \in Queries : Owns(q) /\ s = session[q] /\ ~Owns(q)'
    OBVIOUS
  <2>2. Parked' \cup Going' \subseteq Parked \cup Going \cup {}
    BY <1>4
  <2>3. Apart'
    BY <1>2, <1>3, <1>4, <2>1, <2>2, NoNewOwner, Zenon
  <2>4. Accounted'
    BY <1>2, <1>4 DEF Accounted
  <2>. QED
    BY <2>3, <2>4
<1>5. /\ StacksApart /\ Parked \cap Going = {}
      /\ \A s \in live : s \in strays \cup Going \cup Parked \cup Lent
  BY DEF Apart, Accounted
<1>6. CASE Restart
  <2>1. UNCHANGED <<idle, closing, closeList, strays>> /\ live' \subseteq live
    BY <1>6 DEF Restart, EndSessions
  <2>2. Going' = Going /\ Parked' = Parked /\ StacksApart'
    BY <1>1, <1>5, <2>1, SamePlaces
  <2>. QED
    BY <1>5, <2>1, <2>2
<1>7. ASSUME NEW s \in Sessions, CloseSession(s)
      PROVE  /\ StacksApart'
             /\ Parked' \cup Going' \subseteq Parked \cup Going
             /\ Parked' \cap Going' = {}
             /\ \A x \in live' : x \in strays' \cup Going' \cup Parked' \cup Lent
  <2>1. /\ UNCHANGED <<idle, closeList, strays>>
        /\ closing' = closing \ {s} /\ live' = live \ {s}
    BY <1>7 DEF CloseSession, EndSessions
  <2>2. Swept' = Swept /\ Parked' = Parked /\ StacksApart'
    BY <1>1, <1>5, <2>1, SamePlaces
  <2>3. Going' \subseteq Going /\ Going \subseteq Going' \cup {s}
    BY <2>1, <2>2 DEF Going
  <2>. QED
    BY <1>5, <2>1, <2>2, <2>3
<1>8. CASE CloseAll
  <2>. DEFINE taken == SessionsIn(Drained(Keys))
  <2>1. UNCHANGED <<closing, strays, live>>
    BY <1>8 DEF CloseAll
  <2>2. StacksApart' /\ taken \subseteq Parked /\ Parked' = Parked \ taken
    BY <1>5, <1>8, RemoveParked, PoolIsTyped DEF CloseAll
  <2>3. Going' = Going \cup taken
    <3>1. SessionsIn(closeList) = {} /\ SessionsIn(closeList') = taken
      BY <1>8, NothingSwept DEF CloseAll, SweptInTime
    <3>. HIDE DEF taken
    <3>2. \A s : /\ s \notin SessionsIn(closeList)
                 /\ s \in SessionsIn(closeList') <=> s \in taken
                 /\ \A q \in Queries : drained'[q] = drained[q]
      BY <1>1, <3>1
    <3>3. \A s : s \in Swept' <=> s \in Swept \/ s \in taken
      BY <3>2, SweptNext, Members, Zenon
    <3>. QED
      BY <2>1, <3>3 DEF Going
  <2>. HIDE DEF taken
  <2>. QED
    BY <1>5, <2>1, <2>2, <2>3
<1>9. CASE DiscountAll
  <2>. DEFINE swept == SessionsIn(closeList)
  <2>1. UNCHANGED <<idle, live>>
    BY <1>9 DEF DiscountAll
  <2>2. PICK unsent \in SUBSET swept :
           closing' = closing \cup (swept \ unsent) /\ strays' = strays \cup unsent
    BY <1>9 DEF DiscountAll
  <2>3. \A s : s \in Swept <=> s \in Swept' \/ s \in swept
    <3>1. SessionsIn(closeList') = {}
      BY <1>9, NothingSwept DEF DiscountAll
    <3>. HIDE DEF swept
    <3>2. \A s : /\ s \notin SessionsIn(closeList')
                 /\ s \in swept <=> s \in SessionsIn(closeList)
                 /\ \A q \in Queries : drained'[q] = drained[q]
      BY <1>1, <3>1 DEF swept
    <3>. QED
      BY <3>2, SweptNext, Members, Zenon
  <2>4. Parked' = Parked /\ StacksApart'
    BY <1>5, <2>1, SamePlaces
  <2>. HIDE DEF swept
  <2>5. Going' \subseteq Going /\ Going \subseteq Going' \cup strays' /\ strays \subseteq strays'
    BY <2>2, <2>3 DEF Going
  <2>. QED
    BY <1>5, <2>1, <2>4, <2>5
<1>. QED
  BY <1>6, <1>7, <1>8, <1>9, Zenon DEF SharedStep

\* A drain ends by forgetting what it took.
LEMMA SweptStep ==
  ASSUME TypeOK, SweptInTime, [Next]_vars
  PROVE  SweptInTime'
<1>. USE DEF poolVars, queryVars, closeVars, serverVars, MoveTo
<1>1. ASSUME NEW q \in Queries, phase'[q] # "draining" PROVE drained'[q] = NothingDrained
  <2>1. phase[q] # "draining" => drained[q] = NothingDrained
    BY DEF SweptInTime
  <2>2. CASE SharedStep \/ UNCHANGED vars
    BY <1>1, <2>1, <2>2, SharedSteps DEF vars
  <2>3. ASSUME NEW r \in Queries, r # q, Step(r) \/ Cancel(r) PROVE drained'[q] = NothingDrained
    BY <1>1, <2>1, <2>3, OthersUntouched
  <2>4. CASE DrainSiblings(q)
    BY <1>1, <2>4 DEF DrainSiblings, TypeOK
  <2>5. CASE DiscountSiblings(q)
    BY <2>5 DEF DiscountSiblings, TypeOK
  <2>6. CASE (Step(q) \/ Cancel(q)) /\ ~DrainSiblings(q) /\ ~DiscountSiblings(q)
    <3>1. drained' = drained /\ phase[q] # "draining"
      BY <2>6 DEF Step, Cancel, TakeIdle, TakeNothing, ReserveSlot, OpenSession, OpenSessionFails,
         Opening, StatementAccepted, StatementRejected, SubmitFails, StatementFinished,
         StatementFails, SubmitKeeps, Ready, NotReady, CloseOwn, FetchLoopEnds, CloseOperation,
         CancelOpening, CancelSubmitting, CancelClosing, Submitting
    <3>. QED
      BY <2>1, <3>1
  <2>. QED
    BY <2>2, <2>3, <2>4, <2>5, <2>6, Zenon DEF Next, SharedStep
<1>2. ASSUME closer' # "drained" PROVE closeList' = NothingDrained
  <2>1. CASE CloseAll
    BY <1>2, <2>1 DEF CloseAll
  <2>2. CASE DiscountAll
    BY <2>2 DEF DiscountAll
  <2>3. CASE UNCHANGED <<closer, closeList>>
    BY <1>2, <2>3 DEF SweptInTime
  <2>4. CASE Restart \/ UNCHANGED vars
    BY <2>3, <2>4 DEF Restart, vars
  <2>5. ASSUME NEW s \in Sessions, CloseSession(s) PROVE UNCHANGED <<closer, closeList>>
    BY <2>5 DEF CloseSession
  <2>6. ASSUME NEW q \in Queries, Step(q) \/ Cancel(q) PROVE UNCHANGED <<closer, closeList>>
    BY <2>6 DEF Step, Cancel, TakeIdle, TakeNothing, ReserveSlot, OpenSession, OpenSessionFails,
         StatementAccepted, StatementRejected, SubmitFails, StatementFinished,
         StatementFails, SubmitKeeps, Ready, NotReady, DrainSiblings, DiscountSiblings, CloseOwn,
         FetchLoopEnds, CloseOperation, CancelOpening, CancelSubmitting, CancelClosing
  <2>. QED
    BY <2>1, <2>2, <2>3, <2>4, <2>5, <2>6, Zenon DEF Next
<1>. QED
  BY <1>1, <1>2 DEF SweptInTime

\* Without a restart, nothing takes away the operation of a query that owns its
\* session: a close is sent for sessions that nobody owns.
KeepsOperation(q) == restarts = 0 /\ Owns(q) => operation[q] # "lost"

\* The fetch loop closes a session that is not the pool's.
OwnClosed == \A q \in Queries : phase[q] = "closing_session" => ~fromPool[q]

\* Only a query on a throwaway session gets as far as closing it.
LEMMA OwnClosedStep ==
  ASSUME TypeOK, OwnClosed, [Next]_vars
  PROVE  OwnClosed'
<1>. USE DEF poolVars, queryVars, closeVars, serverVars, MoveTo
<1>. SUFFICES ASSUME NEW q \in Queries, phase'[q] = "closing_session" PROVE ~fromPool'[q]
  BY DEF OwnClosed
<1>1. phase[q] = "closing_session" => ~fromPool[q]
  BY DEF OwnClosed
<1>2. CASE SharedStep \/ UNCHANGED vars
  BY <1>1, <1>2, SharedSteps DEF vars
<1>3. ASSUME NEW r \in Queries, r # q, Step(r) \/ Cancel(r) PROVE ~fromPool'[q]
  BY <1>1, <1>3, OthersUntouched
<1>4. CASE CloseOperation(q)
  BY <1>4 DEF CloseOperation, TypeOK
<1>5. CASE (Step(q) \/ Cancel(q)) /\ ~CloseOperation(q)
  <2>1. phase'[q] # "closing_session"
    BY <1>5 DEF TypeOK, Step, Cancel, TakeIdle, TakeNothing, ReserveSlot, PoolFull, OpenSession,
         OpenSessionFails, StatementAccepted, StatementRejected, SubmitFails, StatementFinished,
         StatementFails, AnswerIs, Ready, NotReady, DrainSiblings, DiscountSiblings, CloseOwn,
         FetchLoopEnds, CancelOpening, CancelSubmitting, CancelClosing
  <2>. QED
    BY <2>1
<1>. QED
  BY <1>2, <1>3, <1>4, <1>5, Zenon DEF Next, SharedStep

\* A close reaches no operation whose query owns its session.
LEMMA KeepsOperationStep ==
  ASSUME TypeOK, Apart, OwnClosed, OnceInv, [Next]_vars, NEW q \in Queries, KeepsOperation(q)
  PROVE  KeepsOperation(q)'
<1>. USE DEF poolVars, queryVars, closeVars, serverVars, MoveTo
<1>. SUFFICES ASSUME restarts' = 0, Owns(q)' PROVE operation'[q] # "lost"
  BY DEF KeepsOperation
<1>1. \A ss : /\ EndSessions(ss)
              /\ session[q] \notin ss \/ operation[q] = "none"
              /\ operation[q] # "lost"
              => operation'[q] # "lost"
  BY DEF EndSessions
<1>2. CASE Restart
  <2>1. restarts \in Nat /\ restarts' = restarts + 1
    BY <1>2 DEF Restart, TypeOK
  <2>. QED
    BY <2>1
<1>3. ASSUME NEW s \in Sessions, CloseSession(s) PROVE operation'[q] # "lost"
  <2>1. UNCHANGED <<phase, session, fromPool, restarts>>
    BY <1>3 DEF CloseSession
  <2>2. Owns(q) /\ operation[q] # "lost"
    BY <2>1, SameOwners DEF KeepsOperation
  <2>3. session[q] # s
    BY <1>3, <2>2 DEF CloseSession, Apart, Going
  <2>. QED
    BY <1>1, <1>3, <2>2, <2>3 DEF CloseSession
<1>4. CASE CloseAll \/ DiscountAll \/ UNCHANGED vars
  <2>1. UNCHANGED <<phase, session, fromPool, restarts, operation>>
    BY <1>4 DEF CloseAll, DiscountAll, vars
  <2>. QED
    BY <2>1, SameOwners DEF KeepsOperation
<1>5. ASSUME NEW r \in Queries, Step(r) \/ Cancel(r) PROVE restarts' = restarts
  BY <1>5 DEF Step, Cancel, TakeIdle, TakeNothing, ReserveSlot, OpenSession, OpenSessionFails,
         StatementAccepted, StatementRejected, SubmitFails, StatementFinished,
         StatementFails, SubmitKeeps, Ready, NotReady, DrainSiblings, DiscountSiblings, CloseOwn,
         FetchLoopEnds, CloseOperation, CancelOpening, CancelSubmitting, CancelClosing, MayStray
<1>6. ASSUME NEW r \in Queries, r # q, Step(r) \/ Cancel(r) PROVE operation'[q] # "lost"
  <2>1. Owns(q) /\ operation[q] # "lost"
    BY <1>5, <1>6, OthersOwn DEF KeepsOperation
  <2>2. CASE CloseOwn(r)
    <3>1. Owns(r)
      <4>1. phase[r] \in {"closing_own", "closing_session"}
        BY <2>2 DEF CloseOwn
      <4>. QED
        BY <4>1 DEF OwnClosed, Owns, Holding, Fetching
    <3>2. session[q] # session[r]
      BY <1>6, <2>1, <3>1 DEF Apart
    <3>. QED
      BY <1>1, <2>1, <2>2, <3>2 DEF CloseOwn
  <2>3. CASE (Step(r) \/ Cancel(r)) /\ ~CloseOwn(r)
    <3>1. operation'[q] = operation[q]
      BY <1>6, <2>3
         DEF TypeOK, Step, Cancel, TakeIdle, TakeNothing, ReserveSlot, PoolFull, OpenSession,
           OpenSessionFails, StatementAccepted, StatementRejected, SubmitFails, StatementFinished,
           StatementFails, SubmitKeeps, Ready, NotReady, DrainSiblings, DiscountSiblings,
           FetchLoopEnds, CloseOperation, CancelOpening, CancelSubmitting, CancelClosing, MayStray
    <3>. QED
      BY <2>1, <3>1
  <2>. QED
    BY <1>6, <2>2, <2>3
<1>7. CASE Step(q) \/ Cancel(q)
  <2>1. restarts = 0
    BY <1>5, <1>7
  <2>2. CASE TakeIdle(q) \/ OpenSession(q)
    <3>1. MaySubmit(q) /\ operation' = operation
      BY <2>2 DEF TakeIdle, OpenSession, Opening, MaySubmit
    <3>. QED
      BY <3>1 DEF OnceInv, Once
  <2>3. CASE /\ \/ TakeNothing(q) \/ ReserveSlot(q) \/ OpenSessionFails(q) \/ DrainSiblings(q)
                \/ DiscountSiblings(q) \/ CloseOwn(q) \/ Cancel(q)
    <3>1. ~Owns(q)'
      BY <2>3 DEF TypeOK, Owns, Holding, Submitting, Fetching, TakeNothing, ReserveSlot, PoolFull,
         OpenSessionFails, DrainSiblings, DiscountSiblings, CloseOwn, Cancel, CancelOpening,
         CancelSubmitting, CancelClosing
    <3>. QED
      BY <3>1
  <2>4. CASE /\ \/ StatementAccepted(q) \/ StatementRejected(q) \/ SubmitFails(q)
                \/ StatementFinished(q) \/ StatementFails(q) \/ Ready(q) \/ NotReady(q)
                \/ FetchLoopEnds(q) \/ CloseOperation(q)
    <3>1. Owns(q)
      BY <2>4 DEF TypeOK, Owns, Holding, Submitting, Fetching, StatementAccepted,
         StatementRejected, SubmitFails, StatementFinished, StatementFails, SubmitKeeps, Ready,
         NotReady, FetchLoopEnds, CloseOperation
    <3>2. operation'[q] \in {operation[q], "open", "closed"}
      BY <2>4 DEF TypeOK, StatementAccepted, StatementRejected, SubmitFails, StatementFinished,
         StatementFails, Ready, NotReady, FetchLoopEnds, CloseOperation
    <3>. QED
      BY <2>1, <3>1, <3>2 DEF KeepsOperation
  <2>. QED
    BY <1>7, <2>2, <2>3, <2>4, Zenon DEF Step
<1>. QED
  BY <1>2, <1>3, <1>4, <1>6, <1>7, Zenon DEF Next

OwnInv ==
  /\ Apart /\ Accounted /\ SweptInTime /\ OwnClosed
  /\ \A q \in Queries : KeepsOperation(q)

\* At the start the server knows the warm sessions, and all of them are idle.
LEMMA OwnInit == Init => OwnInv
<1>. SUFFICES ASSUME Init PROVE OwnInv
  OBVIOUS
<1>1. \A q \in Queries : ~Owns(q)
  BY DEF Init, Owns, Holding, Submitting, Fetching
<1>2. SweptInTime /\ OwnClosed
  BY DEF Init, SweptInTime, OwnClosed
<1>3. Going = {}
  <2>1. \A q \in Queries : drained[q] = NothingDrained
    BY DEF Init
  <2>2. closing = {} /\ closeList = NothingDrained
    BY DEF Init
  <2>3. \A s : s \notin Swept
    BY <2>1, <2>2, NothingSwept, Members
  <2>. QED
    BY <2>2, <2>3 DEF Going
<1>4. Parked = 1..opened /\ live = Parked
  <2>1. idle = Warm /\ live = SessionsIn(Warm) /\ opened = Cardinality(live)
    BY DEF Init
  <2>2. Parked = SessionsIn(Warm)
    BY <2>1 DEF Parked
  <2>3. SessionsIn(Warm) = 1..Cardinality(SessionsIn(Warm))
    BY WarmAssumption
  <2>. HIDE DEF Init
  <2>. QED
    BY <2>1, <2>2, <2>3, Zenon
<1>5. StacksApart
  BY WarmAssumption DEF Init, StacksApart
<1>6. Apart
  BY <1>1, <1>3, <1>4, <1>5 DEF Apart
<1>7. Accounted
  BY <1>4 DEF Accounted
<1>. QED
  BY <1>1, <1>2, <1>6, <1>7 DEF OwnInv, KeepsOperation

\* The conjunction is inductive.
LEMMA OwnInvStep == Typed /\ OnceInv /\ OwnInv /\ [Next]_vars => OwnInv'
<1>. SUFFICES ASSUME TypeOK, \A q \in Queries : HoldsOne(q), OnceInv, [Next]_vars,
                     Apart, Accounted, SweptInTime, OwnClosed,
                     \A q \in Queries : KeepsOperation(q)
              PROVE  OwnInv'
  BY DEF Typed, OwnInv
<1>1. Apart' /\ Accounted'
  <2>1. CASE SharedStep
    BY <2>1, OwnShared
  <2>2. ASSUME NEW q \in Queries, Step(q) \/ Cancel(q) PROVE Apart' /\ Accounted'
    BY <2>2, OwnStep
  <2>3. CASE UNCHANGED vars
    <3>1. UNCHANGED <<idle, phase, session, fromPool, drained, closeList, closing, opened, live, strays>>
      BY <2>3 DEF vars, poolVars, queryVars, closeVars, serverVars
    <3>2. /\ Going' = Going /\ Parked' = Parked /\ (StacksApart => StacksApart')
          /\ Lent' = Lent
          /\ \A q \in Queries : (Owns(q)' <=> Owns(q)) /\ session'[q] = session[q]
      BY <3>1, SamePlaces, SameOwners
    <3>. QED
      BY <3>1, <3>2, Zenon DEF Apart, Accounted
  <2>. QED
    BY <2>1, <2>2, <2>3, Zenon DEF Next, SharedStep
<1>2. SweptInTime' /\ OwnClosed'
  BY SweptStep, OwnClosedStep
<1>3. \A q \in Queries : KeepsOperation(q)'
  BY KeepsOperationStep
<1>. QED
  BY <1>1, <1>2, <1>3 DEF OwnInv

\* And holds in every reachable state.
LEMMA OwnAlways == Spec => [](Typed /\ OwnInv)
<1>1. Init => Typed /\ OnceInv /\ OwnInv
  <2>1. Init => \A q \in Queries : HoldsOne(q)
    BY DEF Init, HoldsOne, Submitting, Fetching
  <2>. QED
    BY <2>1, TypeInit, OnceInit, OwnInit DEF Typed
<1>2. Typed /\ OnceInv /\ OwnInv /\ [Next]_vars => (Typed /\ OnceInv /\ OwnInv)'
  BY TypeStep, HoldsOneStep, OnceStep, OwnInvStep DEF Typed
<1>. QED
  BY <1>1, <1>2, PTL DEF Spec

\* No two queries submit on one session, and none on a session that is idle; no
\* idle session is on a stack twice or is being closed.
THEOREM SessionsNeverShared == Spec => []NeverShared
<1>1. OwnInv => NeverShared
  <2>. SUFFICES ASSUME Apart PROVE NeverShared
    BY DEF OwnInv
  <2>1. ASSUME NEW q \in Queries, Holding(q)
        PROVE  /\ \A k \in Keys : session[q] \notin Range(idle[k])
               /\ \A r \in Queries \ {q} : Holding(r) => session[r] # session[q]
    BY <2>1, Members DEF Apart, Owns
  <2>2. \A k \in Keys : IsInjective(idle[k]) /\ Range(idle[k]) \cap closing = {}
    BY Members DEF Apart, StacksApart, Going
  <2>. QED
    BY <2>1, <2>2 DEF NeverShared
<1>. QED
  BY <1>1, OwnAlways, PTL

\* A session of the server is idle, held, on its way to be closed or knowingly
\* left to the idle timeout, and a throwaway session outlives its fetch.
THEOREM SessionsKeptTrackOf == Spec => []SessionsOwned
<1>1. OwnInv => EverySessionOwned
  <2>. SUFFICES ASSUME Accounted, NEW s \in live, s \notin strays \cup closing
                PROVE  \/ s \in SessionsIn(idle) \cup SessionsIn(closeList)
                       \/ \E q \in Queries :
                            \/ Holding(q) /\ session[q] = s
                            \/ phase[q] \in Fetching /\ ~fromPool[q] /\ session[q] = s
                            \/ s \in SessionsIn(drained[q])
    BY DEF OwnInv, EverySessionOwned
  <2>1. \/ s \in SessionsIn(idle) \cup SessionsIn(closeList)
        \/ \E q \in Queries : s \in SessionsIn(drained[q])
        \/ \E q \in Queries : Owns(q) /\ s = session[q]
    BY Members DEF Accounted, Parked, Going
  <2>. QED
    BY <2>1, Zenon DEF Owns
<1>2. OwnInv => ThrowawayOutlivesFetch
  BY DEF OwnInv, KeepsOperation, ThrowawayOutlivesFetch, Undisturbed, Owns, Fetching
<1>3. OwnInv => SessionsOwned
  BY <1>1, <1>2 DEF SessionsOwned
<1>. QED
  BY <1>3, OwnAlways, PTL

-----------------------------------------------------------------------------
(* The count of each key                                                    *)

\* The queries with a slot of a key, and the sessions drains have taken off it.
Slots(k) == {q \in Queries : HoldsSlot(q) /\ KeyOf[q] = k}
OutOf(k) == UNION {Range(drained[q][k]) : q \in Queries}

\* All that is counted is finite.
LEMMA CountTypes ==
  ASSUME TypeOK, NEW k \in Keys
  PROVE  /\ IsFiniteSet(Slots(k)) /\ Cardinality(Slots(k)) \in Nat
         /\ IsFiniteSet(OutOf(k)) /\ Cardinality(OutOf(k)) \in Nat
         /\ Len(idle[k]) \in Nat /\ Len(closeList[k]) \in Nat /\ total[k] \in Nat
         /\ total[k] <= MaxSessionsPerKey
<1>1. IsFiniteSet(Slots(k))
  <2>1. Slots(k) \subseteq Queries /\ IsFiniteSet(Queries)
    BY QueriesAssumption DEF Slots
  <2>. QED
    BY <2>1, FS_Subset
<1>2. IsFiniteSet(OutOf(k))
  <2>1. OutOf(k) \subseteq Sessions
    <3>1. ASSUME NEW s \in OutOf(k) PROVE s \in Sessions
      <4>1. PICK q \in Queries : s \in Range(drained[q][k])
        BY <3>1, Zenon DEF OutOf
      <4>2. drained[q][k] \in Seq(Sessions)
        BY DEF TypeOK
      <4>. QED
        BY <4>1, <4>2 DEF Range
    <3>. QED
      BY <3>1
  <2>2. IsFiniteSet(Sessions)
    BY FS_Interval, QueriesAssumption DEF Sessions
  <2>. QED
    BY <2>1, <2>2, FS_Subset
<1>3. Cardinality(Slots(k)) \in Nat /\ Cardinality(OutOf(k)) \in Nat
  BY <1>1, <1>2, FS_CardinalityType
<1>4. /\ idle[k] \in Seq(Sessions) /\ closeList[k] \in Seq(Sessions)
      /\ total[k] \in 0..MaxSessionsPerKey
  BY DEF TypeOK
<1>. QED
  BY <1>1, <1>2, <1>3, <1>4, CapAssumption

\* A step of a query changes who holds a slot of its key by that query alone.
LEMMA SlotsChange ==
  ASSUME TypeOK, TypeOK', NEW q \in Queries, Step(q) \/ Cancel(q), NEW k \in Keys
  PROVE  /\ (HoldsSlot(q)' <=> HoldsSlot(q)) \/ k # KeyOf[q] => Slots(k)' = Slots(k)
         /\ HoldsSlot(q)' /\ ~HoldsSlot(q) /\ k = KeyOf[q] =>
              Cardinality(Slots(k)') = Cardinality(Slots(k)) + 1
         /\ ~HoldsSlot(q)' /\ HoldsSlot(q) /\ k = KeyOf[q] =>
              Cardinality(Slots(k)') = Cardinality(Slots(k)) - 1 /\ Cardinality(Slots(k)) > 0
<1>1. \A r \in Queries : r # q => (HoldsSlot(r)' <=> HoldsSlot(r))
  <2>1. ASSUME NEW r \in Queries, r # q
        PROVE  phase'[r] = phase[r] /\ fromPool'[r] = fromPool[r]
    BY <2>1, OthersUntouched
  <2>. QED
    BY <2>1 DEF HoldsSlot
<1>2. \A r : /\ r \in Slots(k) <=> r \in Queries /\ HoldsSlot(r) /\ KeyOf[r] = k
             /\ r \in Slots(k)' <=> r \in Queries /\ HoldsSlot(r)' /\ KeyOf[r] = k
  BY DEF Slots
<1>3. IsFiniteSet(Slots(k)) /\ Cardinality(Slots(k)) \in Nat
  BY CountTypes
<1>4. CASE (HoldsSlot(q)' <=> HoldsSlot(q)) \/ k # KeyOf[q]
  <2>1. \A r : r \in Slots(k)' <=> r \in Slots(k)
    BY <1>1, <1>2, <1>4
  <2>2. Slots(k)' = Slots(k)
    BY <2>1 DEF Slots
  <2>. QED
    BY <1>4, <2>2, Zenon
<1>5. CASE HoldsSlot(q)' /\ ~HoldsSlot(q) /\ k = KeyOf[q]
  <2>1. Slots(k)' = Slots(k) \cup {q} /\ q \notin Slots(k)
    <3>1. \A r : r \in Slots(k)' <=> r \in Slots(k) \/ r = q
      BY <1>1, <1>2, <1>5
    <3>. QED
      BY <1>2, <1>5, <3>1 DEF Slots
  <2>. QED
    BY <1>3, <1>5, <2>1, FS_AddElement
<1>6. CASE ~HoldsSlot(q)' /\ HoldsSlot(q) /\ k = KeyOf[q]
  <2>1. Slots(k)' = Slots(k) \ {q} /\ q \in Slots(k)
    <3>1. \A r : r \in Slots(k)' <=> r \in Slots(k) /\ r # q
      BY <1>1, <1>2, <1>6
    <3>. QED
      BY <1>2, <1>6, <3>1 DEF Slots
  <2>2. Cardinality(Slots(k)') = Cardinality(Slots(k)) - 1
    BY <1>3, <2>1, FS_RemoveElement
  <2>3. Cardinality(Slots(k)) # 0
    BY <1>3, <2>1, FS_EmptySet
  <2>. QED
    BY <1>3, <1>6, <2>2, <2>3
<1>. QED
  BY <1>4, <1>5, <1>6

\* Sessions taken off the pool are nowhere twice.
OutApart ==
  /\ \A q \in Queries, k \in Keys : IsInjective(drained[q][k])
  /\ \A k \in Keys : \A q, r \in Queries :
       q # r => Range(drained[q][k]) \cap Range(drained[r][k]) = {}

Counted(k) ==
  total[k] = Len(idle[k]) + Cardinality(Slots(k)) + Cardinality(OutOf(k)) + Len(closeList[k])

CountInv == OutApart /\ \A k \in Keys : Counted(k)

\* One slot more or less, with what pays for it.
LEMMA CountMoves ==
  ASSUME TypeOK, TypeOK', NEW k \in Keys, Counted(k),
         OutOf(k)' = OutOf(k), closeList' = closeList,
         NEW more \in {-1, 0, 1},
         Cardinality(Slots(k)') = Cardinality(Slots(k)) + more,
         more = -1 => Cardinality(Slots(k)) > 0,
         \/ /\ Len(idle'[k]) = Len(idle[k])
            /\ total'[k] = IF more = -1 THEN Minus(total[k], 1) ELSE total[k] + more
         \/ total'[k] = total[k] /\ Len(idle'[k]) = Len(idle[k]) - more
  PROVE  Counted(k)'
<1>. DEFINE n == total[k]     n1 == total'[k]
            i == Len(idle[k]) i1 == Len(idle'[k])
            s == Cardinality(Slots(k))
            o == Cardinality(OutOf(k))
            c == Len(closeList[k])
<1>1. /\ n \in Nat /\ i \in Nat /\ s \in Nat /\ o \in Nat /\ c \in Nat
      /\ n = i + s + o + c
  BY CountTypes DEF Counted
<1>2. i1 \in Nat
  <2>1. idle'[k] \in Seq(Sessions)
    BY DEF TypeOK
  <2>. QED
    BY <2>1
<1>3. SUFFICES n1 = i1 + (s + more) + o + c
  BY DEF Counted
<1>4. more = -1 => s > 0
  OBVIOUS
<1>5. \/ i1 = i /\ n1 = IF more = -1 THEN Minus(n, 1) ELSE n + more
      \/ n1 = n /\ i1 = i - more
  OBVIOUS
<1>. HIDE DEF n, n1, i, i1, s, o, c
<1>6. more = -1 => Minus(n, 1) = n + more
  BY <1>1, <1>4 DEF Minus
<1>. HIDE DEF Minus
<1>7. CASE i1 = i /\ n1 = n + more
  <2>1. more \in Int
    OBVIOUS
  <2>2. n + more = i + (s + more) + o + c
    BY <1>1, <2>1
  <2>. QED
    BY <1>7, <2>2, Zenon
<1>8. CASE n1 = n /\ i1 = i - more
  <2>1. more \in Int
    OBVIOUS
  <2>2. i1 + (s + more) = i + s
    BY <1>1, <1>8, <2>1
  <2>. QED
    BY <1>1, <1>8, <2>1, <2>2
<1>. QED
  BY <1>5, <1>6, <1>7, <1>8

\* A step that only moves slots: what a key counts follows who holds them.
LEMMA CountKept ==
  ASSUME TypeOK, TypeOK', NEW q \in Queries, Step(q) \/ Cancel(q), NEW k \in Keys, Counted(k),
         closeList' = closeList, drained' = drained,
         k # KeyOf[q] \/ (HoldsSlot(q)' <=> HoldsSlot(q)) =>
           total'[k] = total[k] /\ idle'[k] = idle[k],
         k = KeyOf[q] /\ HoldsSlot(q)' /\ ~HoldsSlot(q) =>
           \/ total'[k] = total[k] + 1 /\ idle'[k] = idle[k]
           \/ total'[k] = total[k] /\ Len(idle[k]) = Len(idle'[k]) + 1,
         k = KeyOf[q] /\ ~HoldsSlot(q)' /\ HoldsSlot(q) =>
           \/ total'[k] = Minus(total[k], 1) /\ idle'[k] = idle[k]
           \/ total'[k] = total[k] /\ Len(idle'[k]) = Len(idle[k]) + 1
  PROVE  Counted(k)'
<1>1. OutOf(k)' = OutOf(k)
  BY DEF OutOf
<1>2. /\ Cardinality(Slots(k)) \in Nat /\ total[k] \in Nat
      /\ Len(idle[k]) \in Nat /\ Len(idle'[k]) \in Nat
  <2>1. idle'[k] \in Seq(Sessions)
    BY DEF TypeOK
  <2>. QED
    BY <2>1, CountTypes
<1>3. CASE k # KeyOf[q] \/ (HoldsSlot(q)' <=> HoldsSlot(q))
  <2>1. Slots(k)' = Slots(k) /\ total'[k] = total[k] /\ idle'[k] = idle[k]
    BY <1>3, SlotsChange, Zenon
  <2>2. /\ Cardinality(Slots(k)') = Cardinality(Slots(k)) + 0
        /\ total'[k] = total[k] + 0 /\ Len(idle'[k]) = Len(idle[k])
    BY <1>2, <2>1
  <2>. QED
    BY <1>1, <2>2, CountMoves
<1>4. CASE k = KeyOf[q] /\ HoldsSlot(q)' /\ ~HoldsSlot(q)
  <2>1. /\ Cardinality(Slots(k)') = Cardinality(Slots(k)) + 1
        /\ \/ total'[k] = total[k] + 1 /\ idle'[k] = idle[k]
           \/ total'[k] = total[k] /\ Len(idle[k]) = Len(idle'[k]) + 1
    BY <1>4, SlotsChange, Zenon
  <2>2. \/ total'[k] = total[k] + 1 /\ Len(idle'[k]) = Len(idle[k])
        \/ total'[k] = total[k] /\ Len(idle'[k]) = Len(idle[k]) - 1
    BY <1>2, <2>1
  <2>. QED
    BY <1>1, <2>1, <2>2, CountMoves
<1>5. CASE k = KeyOf[q] /\ ~HoldsSlot(q)' /\ HoldsSlot(q)
  <2>1. /\ Cardinality(Slots(k)') = Cardinality(Slots(k)) - 1 /\ Cardinality(Slots(k)) > 0
        /\ \/ total'[k] = Minus(total[k], 1) /\ idle'[k] = idle[k]
           \/ total'[k] = total[k] /\ Len(idle'[k]) = Len(idle[k]) + 1
    BY <1>5, SlotsChange, Zenon
  <2>2. /\ Cardinality(Slots(k)') = Cardinality(Slots(k)) + (-1)
        /\ \/ total'[k] = Minus(total[k], 1) /\ Len(idle'[k]) = Len(idle[k])
           \/ total'[k] = total[k] /\ Len(idle'[k]) = Len(idle[k]) - (-1)
    BY <1>2, <2>1
  <2>. QED
    BY <1>1, <2>1, <2>2, CountMoves
<1>. QED
  BY <1>3, <1>4, <1>5, Zenon

\* The steps of a query, but for the two of a drain.
LEMMA CountStep ==
  ASSUME Typed, TypeOK', NEW q \in Queries, Step(q) \/ Cancel(q),
         ~DrainSiblings(q), ~DiscountSiblings(q), NEW k \in Keys, Counted(k)
  PROVE  Counted(k)'
<1>. USE DEF poolVars, queryVars, closeVars, serverVars, MoveTo
<1>1. TypeOK /\ KeyOf[q] \in Keys /\ HoldsOne(q)
  BY QueriesAssumption DEF Typed
<1>2. closeList' = closeList /\ drained' = drained
  BY DEF Step, Cancel, TakeIdle, TakeNothing, ReserveSlot, OpenSession, OpenSessionFails,
         StatementAccepted, StatementRejected, SubmitFails, StatementFinished, StatementFails,
         SubmitKeeps, Ready, NotReady, CloseOwn, FetchLoopEnds, CloseOperation, CancelOpening,
         CancelSubmitting, CancelClosing
<1>3. CASE \/ TakeNothing(q) \/ (ReserveSlot(q) /\ ~HasRoom(KeyOf[q])) \/ OpenSession(q)
           \/ ((OpenSessionFails(q) \/ CancelOpening(q)) /\ phase[q] # "opening")
           \/ StatementAccepted(q) \/ StatementRejected(q) \/ SubmitFails(q)
           \/ StatementFinished(q) \/ StatementFails(q)
           \/ ((Ready(q) \/ NotReady(q) \/ CancelSubmitting(q)) /\ ~fromPool[q])
           \/ CloseOwn(q) \/ FetchLoopEnds(q) \/ CloseOperation(q) \/ CancelClosing(q)
  <2>1. UNCHANGED <<idle, total>>
    BY <1>3 DEF TakeNothing, ReserveSlot, OpenSession, OpenSessionFails, StatementAccepted,
         StatementRejected, SubmitFails, StatementFinished, StatementFails, SubmitKeeps, Ready,
         NotReady, CloseOwn, FetchLoopEnds, CloseOperation, CancelOpening, CancelSubmitting,
         DropGuard, CancelClosing
  <2>2. HoldsSlot(q)' <=> HoldsSlot(q)
    <3>1. CASE \/ TakeNothing(q) \/ (ReserveSlot(q) /\ ~HasRoom(KeyOf[q]))
               \/ ((OpenSessionFails(q) \/ CancelOpening(q)) /\ phase[q] # "opening")
      <4>1. /\ phase[q] \in {"checkout", "reserving", "opening_own"}
            /\ phase'[q] \in {"reserving", "opening_own", "failed", "cancelled"}
            /\ fromPool' = fromPool
        BY <1>1, <3>1 DEF TypeOK, TakeNothing, ReserveSlot, PoolFull, Opening,
             OpenSessionFails, CancelOpening
      <4>. QED
        BY <4>1 DEF HoldsSlot, Submitting
    <3>4. CASE OpenSession(q)
      <4>1. phase[q] \in {"opening", "opening_own"} /\ phase'[q] = "submitting"
        BY <1>1, <3>4 DEF TypeOK, OpenSession, Opening
      <4>2. fromPool'[q] <=> phase[q] = "opening"
        BY <1>1, <3>4, Zenon DEF TypeOK, OpenSession, Hold
      <4>. QED
        BY <4>1, <4>2 DEF HoldsSlot, Submitting
    <3>2. CASE \/ StatementAccepted(q) \/ StatementRejected(q) \/ SubmitFails(q)
               \/ StatementFinished(q) \/ StatementFails(q)
      <4>1. fromPool' = fromPool
        BY <3>2 DEF StatementAccepted, StatementRejected, SubmitFails, StatementFinished,
             StatementFails, SubmitKeeps
      <4>2. /\ phase[q] \in Submitting \cup {"settling"}
            /\ phase'[q] \in Submitting \cup {"settling"}
        BY <1>1, <3>2 DEF TypeOK, Submitting, StatementAccepted, StatementRejected, SubmitFails,
             StatementFinished, StatementFails, AnswerIs
      <4>. QED
        BY <4>1, <4>2 DEF HoldsSlot, Submitting
    <3>3. CASE \/ ((Ready(q) \/ NotReady(q) \/ CancelSubmitting(q)) /\ ~fromPool[q])
               \/ CloseOwn(q) \/ FetchLoopEnds(q) \/ CloseOperation(q) \/ CancelClosing(q)
      <4>1. ~HoldsSlot(q)
        BY <3>3 DEF HoldsSlot, Submitting, Ready, NotReady, CancelSubmitting, CloseOwn,
             FetchLoopEnds, CloseOperation, CancelClosing
      <4>2. \E p \in {"fetching", "closing_own", "cancelled", "failed", "done",
                     "closing_operation", "closing_session"} : MoveTo(q, p)
        BY <3>3 DEF Ready, NotReady, CancelSubmitting, CloseOwn, FetchLoopEnds, CloseOperation,
             CancelClosing
      <4>3. ~HoldsSlot(q)'
        BY <1>1, <4>2 DEF TypeOK, HoldsSlot, Submitting
      <4>. QED
        BY <4>1, <4>3
    <3>. QED
      BY <1>3, <3>1, <3>2, <3>3, <3>4, Zenon
  <2>3. total'[k] = total[k] /\ idle'[k] = idle[k]
    BY <2>1
  <2>. QED
    BY <1>1, <1>2, <2>2, <2>3, CountKept, Zenon
<1>4. CASE ReserveSlot(q) /\ HasRoom(KeyOf[q])
  <2>1. HoldsSlot(q)' /\ ~HoldsSlot(q)
    BY <1>1, <1>4 DEF ReserveSlot, HoldsSlot, Submitting, TypeOK
  <2>2. /\ idle'[k] = idle[k]
        /\ k = KeyOf[q] => total'[k] = total[k] + 1
        /\ k # KeyOf[q] => total'[k] = total[k]
    BY <1>1, <1>4 DEF ReserveSlot, Reserve, TypeOK
  <2>. QED
    BY <1>1, <1>2, <2>1, <2>2, CountKept, Zenon
<1>5. CASE TakeIdle(q)
  <2>1. HoldsSlot(q)' /\ ~HoldsSlot(q)
    BY <1>1, <1>5 DEF TakeIdle, Hold, HoldsSlot, Submitting, TypeOK
  <2>2. /\ total'[k] = total[k]
        /\ k = KeyOf[q] => idle'[k] = Front(idle[k]) /\ idle[k] # <<>>
        /\ k # KeyOf[q] => idle'[k] = idle[k]
    BY <1>1, <1>5 DEF TakeIdle, Take, Popped, HasIdle, TypeOK
  <2>3. idle[k] # <<>> => Len(idle[k]) = Len(Front(idle[k])) + 1
    <3>1. idle[k] \in Seq(Sessions)
      BY <1>1 DEF TypeOK
    <3>. QED
      BY <3>1 DEF Front
  <2>4. k = KeyOf[q] => Len(idle[k]) = Len(idle'[k]) + 1
    BY <2>2, <2>3
  <2>. QED
    BY <1>1, <1>2, <2>1, <2>2, <2>4, CountKept, Zenon
<1>6. CASE \/ ((OpenSessionFails(q) \/ CancelOpening(q)) /\ phase[q] = "opening")
           \/ ((NotReady(q) \/ CancelSubmitting(q)) /\ fromPool[q])
  <2>1. HoldsSlot(q)
    BY <1>6 DEF HoldsSlot, NotReady, CancelSubmitting
  <2>2. ~HoldsSlot(q)'
    <3>1. phase'[q] \in {"opening_own", "failed", "cancelled", "stale"}
      BY <1>1, <1>6 DEF TypeOK, OpenSessionFails, CancelOpening, NotReady, CancelSubmitting
    <3>. QED
      BY <3>1 DEF HoldsSlot, Submitting
  <2>3. idle' = idle /\ Release(KeyOf[q])
    BY <1>6 DEF OpenSessionFails, CancelOpening, NotReady, Checkin, CancelSubmitting, DropGuard
  <2>4. /\ idle'[k] = idle[k]
        /\ k = KeyOf[q] => total'[k] = Minus(total[k], 1)
        /\ k # KeyOf[q] => total'[k] = total[k]
    BY <1>1, <2>3 DEF Release, TypeOK
  <2>. QED
    BY <1>1, <1>2, <2>1, <2>2, <2>4, CountKept, Zenon
<1>7. CASE Ready(q) /\ fromPool[q]
  <2>1. HoldsSlot(q) /\ ~HoldsSlot(q)'
    BY <1>1, <1>7 DEF Ready, HoldsSlot, Submitting, TypeOK
  <2>2. Put(KeyOf[q], session[q]) /\ total' = total
    BY <1>7 DEF Ready, Checkin
  <2>3. /\ total'[k] = total[k]
        /\ k = KeyOf[q] => idle'[k] = Append(idle[k], session[q])
        /\ k # KeyOf[q] => idle'[k] = idle[k]
    BY <1>1, <2>2 DEF Put, TypeOK
  <2>4. Len(Append(idle[k], session[q])) = Len(idle[k]) + 1
    <3>1. idle[k] \in Seq(Sessions) /\ session[q] \in Sessions
      BY <1>1, <1>7 DEF TypeOK, Ready, HoldsOne
    <3>. QED
      BY <3>1
  <2>. QED
    BY <1>1, <1>2, <2>1, <2>3, <2>4, CountKept, Zenon
<1>. QED
  BY <1>3, <1>4, <1>5, <1>6, <1>7, Zenon DEF Step, Cancel

\* What a drain takes leaves the stack of its key for the hands of the query.
LEMMA CountDrain ==
  ASSUME Typed, TypeOK', OwnInv, CountInv, NEW q \in Queries, DrainSiblings(q)
  PROVE  OutApart' /\ \A k \in Keys : Counted(k)'
<1>. USE DEF MoveTo, closeVars
<1>1. TypeOK /\ KeyOf[q] \in Keys /\ Apart /\ SweptInTime /\ OutApart
  BY QueriesAssumption DEF Typed, OwnInv, CountInv
<1>2. ASSUME NEW k \in Keys
      PROVE  /\ drained[q][k] = <<>>
             /\ drained'[q][k] = IF k = KeyOf[q] THEN idle[k] ELSE <<>>
             /\ idle'[k] = IF k = KeyOf[q] THEN <<>> ELSE idle[k]
             /\ IsInjective(idle[k])
             /\ \A r \in Queries : Range(drained[r][k]) \cap Range(idle[k]) = {}
  <2>1. drained[q][k] = <<>>
    BY <1>1 DEF DrainSiblings, SweptInTime, NothingDrained
  <2>2. drained'[q] = Drained({KeyOf[q]})
    BY <1>1 DEF DrainSiblings, TypeOK
  <2>3. drained'[q][k] = IF k = KeyOf[q] THEN idle[k] ELSE <<>>
    BY <2>2 DEF Drained
  <2>4. idle'[k] = IF k = KeyOf[q] THEN <<>> ELSE idle[k]
    BY DEF DrainSiblings, RemoveIdle
  <2>5. IsInjective(idle[k])
    BY <1>1 DEF Apart, StacksApart
  <2>6. ASSUME NEW r \in Queries, NEW s \in Range(drained[r][k]), s \in Range(idle[k]) PROVE FALSE
    <3>1. s \in SessionsIn(drained[r]) /\ s \in Parked
      BY <2>6, Members
    <3>2. s \in Going
      BY <3>1, Members DEF Going
    <3>. QED
      BY <1>1, <3>1, <3>2 DEF Apart
  <2>. QED
    BY <2>1, <2>3, <2>4, <2>5, <2>6
<1>3. \A r \in Queries : r # q => drained'[r] = drained[r]
  BY <1>1, Zenon DEF DrainSiblings, TypeOK
<1>4. OutApart'
  <2>1. ASSUME NEW r \in Queries, NEW k \in Keys PROVE IsInjective(drained'[r][k])
    BY <1>1, <1>2, <1>3, RangeOfNone DEF OutApart
  <2>2. \A k \in Keys : Range(drained'[q][k]) \subseteq Range(idle[k])
    BY <1>2, RangeOfNone
  <2>3. ASSUME NEW k \in Keys, NEW r \in Queries, NEW p \in Queries, r # p
        PROVE  Range(drained'[r][k]) \cap Range(drained'[p][k]) = {}
    <3>1. CASE r # q /\ p # q
      BY <1>1, <1>3, <2>3, <3>1 DEF OutApart
    <3>2. CASE r = q
      BY <1>2, <1>3, <2>2, <2>3, <3>2
    <3>3. CASE p = q
      BY <1>2, <1>3, <2>2, <2>3, <3>3
    <3>. QED
      BY <3>1, <3>2, <3>3
  <2>. QED
    BY <2>1, <2>3, Zenon DEF OutApart
<1>5. ASSUME NEW k \in Keys PROVE Counted(k)'
  <2>. DEFINE taken == IF k = KeyOf[q] THEN Range(idle[k]) ELSE {}
  <2>1. Slots(k)' = Slots(k)
    <3>1. ~HoldsSlot(q) /\ ~HoldsSlot(q)'
      BY <1>1 DEF DrainSiblings, HoldsSlot, Submitting, TypeOK
    <3>. QED
      BY <1>1, <3>1, SlotsChange DEF Step
  <2>2. OutOf(k)' = OutOf(k) \cup taken
    <3>1. /\ \A s : s \in OutOf(k) <=> \E r \in Queries : s \in Range(drained[r][k])
          /\ \A s : s \in OutOf(k)' <=> \E r \in Queries : s \in Range(drained'[r][k])
      BY Zenon DEF OutOf
    <3>2. Range(drained[q][k]) = {} /\ Range(drained'[q][k]) = taken
      BY <1>2, RangeOfNone
    <3>. HIDE DEF taken
    <3>3. \A s : s \in OutOf(k)' <=> s \in OutOf(k) \/ s \in taken
      BY <1>3, <3>1, <3>2
    <3>. QED
      BY <3>3 DEF OutOf
  <2>3. OutOf(k) \cap taken = {}
    <3>1. \A s : s \in OutOf(k) <=> \E r \in Queries : s \in Range(drained[r][k])
      BY Zenon DEF OutOf
    <3>. QED
      BY <1>2, <3>1
  <2>4. /\ IsFiniteSet(taken)
        /\ Cardinality(taken) \in Nat
        /\ Len(idle[k]) = Len(idle'[k]) + Cardinality(taken)
        /\ Len(idle'[k]) \in Nat
    <3>1. idle[k] \in Seq(Sessions) /\ Len(idle[k]) \in Nat
      BY <1>1 DEF TypeOK
    <3>2. CASE k = KeyOf[q]
      <4>1. IsFiniteSet(taken) /\ Cardinality(taken) = Len(idle[k])
        BY <1>2, <3>1, <3>2, StackSize
      <4>2. Len(idle'[k]) = 0
        BY <1>2, <3>2
      <4>. QED
        BY <3>1, <4>1, <4>2
    <3>3. CASE k # KeyOf[q]
      <4>1. IsFiniteSet(taken) /\ Cardinality(taken) = 0
        BY <3>3, FS_EmptySet
      <4>2. Len(idle'[k]) = Len(idle[k])
        BY <1>2, <3>3
      <4>. QED
        BY <3>1, <4>1, <4>2
    <3>. QED
      BY <3>2, <3>3
  <2>. HIDE DEF taken
  <2>5. Cardinality(OutOf(k)') = Cardinality(OutOf(k)) + Cardinality(taken)
    <3>1. IsFiniteSet(OutOf(k)) /\ Cardinality(OutOf(k)) \in Nat
      BY <1>1, CountTypes
    <3>2. Cardinality(OutOf(k) \cup taken) =
            Cardinality(OutOf(k)) + Cardinality(taken) - Cardinality(OutOf(k) \cap taken)
      BY <2>4, <3>1, FS_Union
    <3>3. Cardinality(OutOf(k) \cap taken) = 0
      BY <2>3, FS_EmptySet
    <3>. QED
      BY <2>2, <2>4, <3>1, <3>2, <3>3
  <2>6. total' = total /\ closeList' = closeList
    BY DEF DrainSiblings
  <2>7. /\ Cardinality(Slots(k)) \in Nat /\ Cardinality(OutOf(k)) \in Nat
        /\ Len(closeList[k]) \in Nat
        /\ total[k] = Len(idle[k]) + Cardinality(Slots(k)) + Cardinality(OutOf(k)) + Len(closeList[k])
    BY <1>1, CountTypes DEF CountInv, Counted
  <2>8. total'[k] = Len(idle'[k]) + Cardinality(Slots(k)') + Cardinality(OutOf(k)') + Len(closeList'[k])
    BY <2>1, <2>4, <2>5, <2>6, <2>7
  <2>. QED
    BY <2>8 DEF Counted
<1>. QED
  BY <1>4, <1>5

\* What the drain then takes off the count is what it has in its hands.
LEMMA CountDiscount ==
  ASSUME Typed, TypeOK', CountInv, NEW q \in Queries, DiscountSiblings(q)
  PROVE  OutApart' /\ \A k \in Keys : Counted(k)'
<1>. USE DEF MoveTo
<1>1. TypeOK /\ OutApart
  BY DEF Typed, CountInv
<1>2. /\ \A k \in Keys : drained'[q][k] = <<>>
      /\ \A r \in Queries : r # q => drained'[r] = drained[r]
  <2>1. drained' = [drained EXCEPT ![q] = NothingDrained]
    BY DEF DiscountSiblings
  <2>. QED
    BY <1>1, <2>1 DEF TypeOK, NothingDrained
<1>3. OutApart'
  <2>1. ASSUME NEW r \in Queries, NEW k \in Keys PROVE IsInjective(drained'[r][k])
    BY <1>1, <1>2, RangeOfNone DEF OutApart
  <2>2. \A k \in Keys : Range(drained'[q][k]) = {}
    BY <1>2, RangeOfNone
  <2>3. ASSUME NEW k \in Keys, NEW r \in Queries, NEW p \in Queries, r # p
        PROVE  Range(drained'[r][k]) \cap Range(drained'[p][k]) = {}
    BY <1>1, <1>2, <2>2, <2>3 DEF OutApart
  <2>. QED
    BY <2>1, <2>3, Zenon DEF OutApart
<1>4. ASSUME NEW k \in Keys PROVE Counted(k)'
  <2>. DEFINE taken == Range(drained[q][k])
  <2>1. Slots(k)' = Slots(k)
    <3>1. ~HoldsSlot(q) /\ ~HoldsSlot(q)'
      BY <1>1 DEF DiscountSiblings, HoldsSlot, Submitting, TypeOK
    <3>. QED
      BY <1>1, <3>1, SlotsChange DEF Step
  <2>2. /\ IsFiniteSet(taken)
        /\ Cardinality(taken) = Len(drained[q][k])
        /\ Len(drained[q][k]) \in Nat
    <3>1. drained[q][k] \in Seq(Sessions) /\ IsInjective(drained[q][k])
      BY <1>1 DEF TypeOK, OutApart
    <3>. QED
      BY <3>1, StackSize
  <2>3. /\ \A s : s \in OutOf(k) <=> \E r \in Queries : s \in Range(drained[r][k])
        /\ \A s : s \in OutOf(k)' <=> \E r \in Queries : s \in Range(drained'[r][k])
    BY Zenon DEF OutOf
  <2>4. Range(drained'[q][k]) = {}
    BY <1>2, RangeOfNone
  <2>5. \A r \in Queries : r # q => Range(drained[r][k]) \cap taken = {}
    BY <1>1 DEF OutApart
  <2>. HIDE DEF taken
  <2>6. OutOf(k) = OutOf(k)' \cup taken /\ OutOf(k)' \cap taken = {}
    <3>1. \A s : s \in taken <=> s \in Range(drained[q][k])
      BY DEF taken
    <3>2. \A s : s \in OutOf(k) <=> s \in OutOf(k)' \/ s \in taken
      BY <1>2, <2>3, <2>4, <3>1
    <3>3. \A s : ~(s \in OutOf(k)' /\ s \in taken)
      BY <1>2, <2>3, <2>4, <2>5
    <3>. QED
      BY <3>2, <3>3 DEF OutOf
  <2>7. /\ Cardinality(OutOf(k)) = Cardinality(OutOf(k)') + Cardinality(taken)
        /\ Cardinality(OutOf(k)') \in Nat
    <3>1. IsFiniteSet(OutOf(k))
      BY <1>1, CountTypes
    <3>2. IsFiniteSet(OutOf(k)')
      BY <2>6, <3>1, FS_Subset
    <3>3. Cardinality(OutOf(k)' \cup taken) =
            Cardinality(OutOf(k)') + Cardinality(taken) - Cardinality(OutOf(k)' \cap taken)
      BY <2>2, <3>2, FS_Union
    <3>4. Cardinality(OutOf(k)' \cap taken) = 0
      BY <2>6, FS_EmptySet
    <3>5. Cardinality(OutOf(k)') \in Nat /\ Cardinality(taken) \in Nat
      BY <2>2, <3>2, FS_CardinalityType
    <3>. QED
      BY <2>6, <3>3, <3>4, <3>5
  <2>8. idle' = idle /\ closeList' = closeList
    BY DEF DiscountSiblings
  <2>9. total'[k] = Minus(total[k], Len(drained[q][k]))
    BY DEF DiscountSiblings, Discount
  <2>10. /\ Cardinality(Slots(k)) \in Nat /\ Len(idle[k]) \in Nat /\ Len(closeList[k]) \in Nat
         /\ total[k] = Len(idle[k]) + Cardinality(Slots(k)) + Cardinality(OutOf(k)) + Len(closeList[k])
    BY <1>1, CountTypes DEF CountInv, Counted
  <2>11. total'[k] = Len(idle[k]) + Cardinality(Slots(k)) + Cardinality(OutOf(k)') + Len(closeList[k])
    <3>. DEFINE n == total[k]
                d == Len(drained[q][k])
                i == Len(idle[k])
                s == Cardinality(Slots(k))
                o == Cardinality(OutOf(k)')
                c == Len(closeList[k])
    <3>1. Cardinality(OutOf(k)) = o + d /\ o \in Nat
      BY <2>2, <2>7
    <3>2. /\ n = i + s + (o + d) + c
          /\ d \in Nat /\ i \in Nat /\ s \in Nat /\ o \in Nat /\ c \in Nat
      BY <2>2, <2>10, <3>1
    <3>3. total'[k] = Minus(n, d)
      BY <2>9
    <3>. HIDE DEF n, d, i, s, o, c
    <3>4. Minus(n, d) = i + s + o + c
      BY <3>2 DEF Minus
    <3>5. total'[k] = i + s + o + c
      BY <3>3, <3>4
    <3>. QED
      BY <3>5 DEF i, s, o, c
  <2>. QED
    BY <2>1, <2>8, <2>11 DEF Counted
<1>. QED
  BY <1>3, <1>4

\* close_all_thrift_sessions drains every key, then discounts what it took.
LEMMA CountShared ==
  ASSUME Typed, TypeOK', SweptInTime, CountInv, SharedStep \/ UNCHANGED vars
  PROVE  OutApart' /\ \A k \in Keys : Counted(k)'
<1>. USE DEF poolVars, queryVars, closeVars, serverVars
<1>1. UNCHANGED <<phase, fromPool, drained>>
  BY SharedSteps DEF vars
<1>2. OutApart'
  BY <1>1 DEF CountInv, OutApart
<1>3. ASSUME NEW k \in Keys PROVE Counted(k)'
  <2>1. Slots(k)' = Slots(k) /\ OutOf(k)' = OutOf(k)
    BY <1>1 DEF Slots, HoldsSlot, OutOf
  <2>2. /\ Cardinality(Slots(k)) \in Nat /\ Cardinality(OutOf(k)) \in Nat
        /\ Len(idle[k]) \in Nat /\ Len(closeList[k]) \in Nat /\ total[k] \in Nat
        /\ total[k] = Len(idle[k]) + Cardinality(Slots(k)) + Cardinality(OutOf(k)) + Len(closeList[k])
    BY CountTypes DEF Typed, CountInv, Counted
  <2>3. SUFFICES total'[k] = Len(idle'[k]) + Cardinality(Slots(k)) + Cardinality(OutOf(k)) + Len(closeList'[k])
    BY <2>1 DEF Counted
  <2>4. CASE CloseAll
    <3>1. total' = total /\ Len(idle'[k]) = 0 /\ Len(closeList'[k]) = Len(idle[k])
      BY <2>4 DEF CloseAll, RemoveIdle, Drained
    <3>2. Len(closeList[k]) = 0
      BY <2>4 DEF CloseAll, SweptInTime, NothingDrained
    <3>. QED
      BY <2>2, <3>1, <3>2
  <2>5. CASE DiscountAll
    <3>1. /\ idle' = idle /\ total'[k] = Minus(total[k], Len(closeList[k]))
          /\ Len(closeList'[k]) = 0
      BY <2>5 DEF DiscountAll, Discount, NothingDrained
    <3>2. Minus(total[k], Len(closeList[k])) = total[k] - Len(closeList[k])
      BY <2>2 DEF Minus
    <3>. QED
      BY <2>2, <3>1, <3>2
  <2>6. CASE Restart \/ UNCHANGED vars \/ \E s \in Sessions : CloseSession(s)
    <3>1. UNCHANGED <<idle, total, closeList>>
      BY <2>6 DEF Restart, vars, CloseSession
    <3>. QED
      BY <2>2, <3>1
  <2>. QED
    BY <2>4, <2>5, <2>6, Zenon DEF SharedStep
<1>. QED
  BY <1>2, <1>3

\* Every step keeps the count.
LEMMA CountInvStep == Typed /\ OwnInv /\ CountInv /\ TypeOK' /\ [Next]_vars => CountInv'
<1>. SUFFICES ASSUME Typed, OwnInv, CountInv, TypeOK', [Next]_vars
              PROVE  OutApart' /\ \A k \in Keys : Counted(k)'
  BY DEF CountInv
<1>1. CASE SharedStep \/ UNCHANGED vars
  BY <1>1, CountShared DEF OwnInv
<1>2. ASSUME NEW q \in Queries, Step(q) \/ Cancel(q)
      PROVE  OutApart' /\ \A k \in Keys : Counted(k)'
  <2>1. CASE DrainSiblings(q)
    BY <2>1, CountDrain
  <2>2. CASE DiscountSiblings(q)
    BY <2>2, CountDiscount
  <2>3. CASE ~DrainSiblings(q) /\ ~DiscountSiblings(q)
    <3>1. drained' = drained
      BY <1>2, <2>3 DEF Step, Cancel, TakeIdle, TakeNothing, ReserveSlot, OpenSession,
         OpenSessionFails, StatementAccepted, StatementRejected, SubmitFails, StatementFinished,
         StatementFails, SubmitKeeps, Ready, NotReady, CloseOwn, FetchLoopEnds, CloseOperation,
         CancelOpening, CancelSubmitting, CancelClosing, queryVars
    <3>2. OutApart'
      BY <3>1 DEF CountInv, OutApart
    <3>3. \A k \in Keys : Counted(k)'
      BY <1>2, <2>3, CountStep DEF CountInv
    <3>. QED
      BY <3>2, <3>3
  <2>. QED
    BY <2>1, <2>2, <2>3
<1>. QED
  BY <1>1, <1>2, Zenon DEF Next, SharedStep

\* At the start the count is that of the warm sessions.
LEMMA CountInit == Init => CountInv
<1>. SUFFICES ASSUME Init PROVE CountInv
  OBVIOUS
<1>1. /\ \A q \in Queries, k \in Keys : drained[q][k] = <<>>
      /\ \A k \in Keys : closeList[k] = <<>> /\ total[k] = Len(Warm[k]) /\ idle[k] = Warm[k]
  BY DEF Init, NothingDrained
<1>2. OutApart
  BY <1>1, RangeOfNone DEF OutApart
<1>3. ASSUME NEW k \in Keys PROVE Counted(k)
  <2>1. Slots(k) = {}
    BY DEF Init, Slots, HoldsSlot, Submitting
  <2>2. OutOf(k) = {}
    <3>1. \A s : s \in OutOf(k) <=> \E q \in Queries : s \in Range(drained[q][k])
      BY Zenon DEF OutOf
    <3>. QED
      BY <1>1, <3>1, RangeOfNone
  <2>3. Cardinality(Slots(k)) = 0 /\ Cardinality(OutOf(k)) = 0
    BY <2>1, <2>2, FS_EmptySet
  <2>4. Len(Warm[k]) \in Nat /\ Len(closeList[k]) = 0
    BY <1>1, WarmAssumption
  <2>. QED
    BY <1>1, <2>3, <2>4 DEF Counted
<1>. QED
  BY <1>2, <1>3 DEF CountInv

\* The count of each key is what there is: its idle sessions, the slots in the
\* hands of queries and what drains have taken but not yet discounted; and no
\* session is lent to two queries.  No cancellation, failure or drain leaks a
\* slot or frees one twice.
THEOREM PoolStaysExact == Spec => []PoolIsExact
<1>1. Init => Typed /\ OnceInv /\ OwnInv /\ CountInv
  <2>1. Init => \A q \in Queries : HoldsOne(q)
    BY DEF Init, HoldsOne, Submitting, Fetching
  <2>. QED
    BY <2>1, TypeInit, OnceInit, OwnInit, CountInit DEF Typed
<1>2. Typed /\ OnceInv /\ OwnInv /\ CountInv /\ [Next]_vars
        => (Typed /\ OnceInv /\ OwnInv /\ CountInv)'
  BY TypeStep, HoldsOneStep, OnceStep, OwnInvStep, CountInvStep DEF Typed
<1>3. Typed /\ OwnInv /\ CountInv => SlotsAddUp
  <2>. SUFFICES ASSUME TypeOK, SweptInTime, CountInv, NEW k \in Keys
                PROVE  total[k] =
                         Len(idle[k])
                           + Cardinality({q \in Queries : HoldsSlot(q) /\ KeyOf[q] = k})
                           + Cardinality(UNION {Range(drained[q][k]) : q \in Drainers})
                           + Len(closeList[k])
    BY DEF Typed, OwnInv, SlotsAddUp
  <2>1. UNION {Range(drained[q][k]) : q \in Drainers} = OutOf(k)
    <3>1. \A q \in Queries : q \notin Drainers => Range(drained[q][k]) = {}
      BY RangeOfNone DEF Drainers, SweptInTime, NothingDrained
    <3>2. \A s : s \in UNION {Range(drained[q][k]) : q \in Drainers} <=>
                   \E q \in Drainers : s \in Range(drained[q][k])
      BY Zenon
    <3>3. \A s : s \in OutOf(k) <=> \E q \in Queries : s \in Range(drained[q][k])
      BY Zenon DEF OutOf
    <3>4. Drainers \subseteq Queries
      BY DEF Drainers
    <3>5. \A s : s \in UNION {Range(drained[q][k]) : q \in Drainers} <=> s \in OutOf(k)
      BY <3>1, <3>2, <3>3, <3>4
    <3>. QED
      BY <3>5, Zenon
  <2>. QED
    BY <2>1 DEF CountInv, Counted, Slots
<1>4. Spec => [](Typed /\ OwnInv /\ CountInv)
  BY <1>1, <1>2, PTL DEF Spec
<1>. QED
  BY <1>3, <1>4, SessionsNeverShared, PTL DEF PoolIsExact
=============================================================================
