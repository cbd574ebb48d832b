-------------------------- MODULE SeaStatementProofs --------------------------
(***************************************************************************)
(* Theorems about SeaStatement, for any number of queries, keys, sessions   *)
(* and retries.                                                             *)
(***************************************************************************)
EXTENDS SeaStatement, FiniteSetTheorems, TLAPS

-----------------------------------------------------------------------------
(* Stacks of sessions                                                       *)

\* A stack without its top.
LEMMA FrontFacts ==
  ASSUME NEW S, NEW s \in Seq(S), s # <<>>
  PROVE  /\ Front(s) \in Seq(S)
         /\ Last(s) \in S
         /\ Range(s) = Range(Front(s)) \cup {Last(s)}
         /\ IsInjective(s) => IsInjective(Front(s)) /\ Last(s) \notin Range(Front(s))
<1>. DEFINE f == Front(s)
            last == Last(s)
            n == Len(s)
<1>1. /\ n \in Nat /\ n > 0
      /\ DOMAIN s = 1..n
      /\ last = s[n] /\ last \in S
      /\ f \in Seq(S)
      /\ DOMAIN f = 1..(n - 1)
      /\ \A i \in 1..(n - 1) : f[i] = s[i]
  BY DEF Front, Last
<1>2. SUFFICES /\ Range(s) = Range(f) \cup {last}
               /\ IsInjective(s) => IsInjective(f) /\ last \notin Range(f)
  BY <1>1
<1>. HIDE DEF f, last, n
<1>3. /\ n \in 1..n
      /\ \A i \in 1..n : i = n \/ i \in 1..(n - 1)
      /\ \A i \in 1..(n - 1) : i \in 1..n /\ i # n
  BY <1>1
<1>4. ASSUME NEW x \in Range(s) PROVE x \in Range(f) \cup {last}
  BY <1>1, <1>3, <1>4, Zenon DEF Range
<1>5. ASSUME NEW x \in Range(f) \cup {last} PROVE x \in Range(s)
  BY <1>1, <1>3, <1>5, Zenon DEF Range
<1>6. ASSUME IsInjective(s) PROVE IsInjective(f)
  BY <1>1, <1>3, <1>6, Zenon DEF IsInjective
<1>7. ASSUME IsInjective(s), last \in Range(f) PROVE FALSE
  <2>1. PICK i \in 1..(n - 1) : f[i] = last
    BY <1>1, <1>7, Zenon DEF Range
  <2>. QED
    BY <1>1, <1>3, <1>7, <2>1, Zenon DEF IsInjective
<1>. QED
  BY <1>4, <1>5, <1>6, <1>7

\* A stack with one more session.
LEMMA AppendFacts ==
  ASSUME NEW S, NEW s \in Seq(S), NEW x \in S
  PROVE  /\ Append(s, x) \in Seq(S)
         /\ Range(Append(s, x)) = Range(s) \cup {x}
         /\ IsInjective(s) /\ x \notin Range(s) => IsInjective(Append(s, x))
<1>1. /\ Len(s) \in Nat
      /\ DOMAIN s = 1..Len(s)
      /\ DOMAIN Append(s, x) = 1..(Len(s) + 1)
      /\ Append(s, x)[Len(s) + 1] = x
      /\ \A n \in 1..Len(s) : Append(s, x)[n] = s[n]
      /\ Append(s, x) \in Seq(S)
  OBVIOUS
<1>2. \A n \in 1..(Len(s) + 1) : n = Len(s) + 1 \/ n \in 1..Len(s)
  BY <1>1
<1>3. Len(s) + 1 \in 1..(Len(s) + 1) /\ \A n \in 1..Len(s) : n \in 1..(Len(s) + 1)
  BY <1>1
<1>4. ASSUME NEW y \in Range(Append(s, x)) PROVE y \in Range(s) \cup {x}
  BY <1>1, <1>2, <1>4 DEF Range
<1>5. ASSUME NEW y \in Range(s) \cup {x} PROVE y \in Range(Append(s, x))
  BY <1>1, <1>3, <1>5 DEF Range
<1>6. ASSUME IsInjective(s), x \notin Range(s) PROVE IsInjective(Append(s, x))
  <2>1. \A n \in 1..Len(s) : s[n] # x
    BY <1>1, <1>6 DEF Range
  <2>2. ASSUME NEW a \in 1..(Len(s) + 1), NEW b \in 1..(Len(s) + 1), Append(s, x)[a] = Append(s, x)[b]
        PROVE  a = b
    <3>1. CASE a \in 1..Len(s) /\ b \in 1..Len(s)
      BY <1>1, <1>6, <2>2, <3>1 DEF IsInjective
    <3>2. CASE a = Len(s) + 1 /\ b \in 1..Len(s)
      BY <1>1, <2>1, <2>2, <3>2
    <3>3. CASE b = Len(s) + 1 /\ a \in 1..Len(s)
      BY <1>1, <2>1, <2>2, <3>3
    <3>. QED
      BY <1>2, <3>1, <3>2, <3>3
  <2>. QED
    BY <1>1, <2>2 DEF IsInjective
<1>. QED
  BY <1>1, <1>4, <1>5, <1>6

\* The empty stack.
LEMMA RangeOfNone == Range(<<>>) = {} /\ IsInjective(<<>>)
  BY DEF Range, IsInjective

-----------------------------------------------------------------------------
(* Types of the pool                                                        *)

PoolTyped(S) == idle \in [Keys -> Seq(S)] /\ total \in [Keys -> 0..MaxSessionsPerKey]

\* The critical sections of the pool that touch one key keep its types.
LEMMA PoolTypes ==
  ASSUME NEW S, PoolTyped(S), NEW k \in Keys
  PROVE  /\ HasIdle(k) => TopIdle(k) \in S
         /\ HasIdle(k) /\ Take(k) => idle' \in [Keys -> Seq(S)]
         /\ HasRoom(k) /\ Reserve(k) => total' \in [Keys -> 0..MaxSessionsPerKey]
         /\ Release(k) => total' \in [Keys -> 0..MaxSessionsPerKey]
         /\ \A s \in S, keep \in BOOLEAN :
              Checkin(k, s, keep) =>
                /\ idle' \in [Keys -> Seq(S)]
                /\ total' \in [Keys -> 0..MaxSessionsPerKey]
<1>1. /\ idle \in [Keys -> Seq(S)]
      /\ total \in [Keys -> 0..MaxSessionsPerKey]
  BY DEF PoolTyped
<1>2. ASSUME HasIdle(k)
      PROVE  TopIdle(k) \in S /\ Front(idle[k]) \in Seq(S)
  <2>1. idle[k] \in Seq(S) /\ idle[k] # <<>>
    BY <1>1, <1>2 DEF HasIdle
  <2>. QED
    BY <2>1, FrontFacts, Zenon DEF TopIdle
<1>3. ASSUME HasIdle(k), Take(k) PROVE idle' \in [Keys -> Seq(S)]
  BY <1>1, <1>2, <1>3 DEF Take, Popped
<1>4. ASSUME HasRoom(k), Reserve(k) PROVE total' \in [Keys -> 0..MaxSessionsPerKey]
  <2>1. total[k] + 1 \in 0..MaxSessionsPerKey
    BY <1>1, <1>4, CapAssumption DEF HasRoom
  <2>. QED
    BY <1>1, <1>4, <2>1 DEF Reserve
<1>5. ASSUME Release(k) PROVE total' \in [Keys -> 0..MaxSessionsPerKey]
  <2>1. Minus(total[k], 1) \in 0..MaxSessionsPerKey
    BY <1>1, CapAssumption DEF Minus
  <2>. QED
    BY <1>1, <1>5, <2>1 DEF Release
<1>6. ASSUME NEW s \in S, NEW keep \in BOOLEAN, Checkin(k, s, keep)
      PROVE  /\ idle' \in [Keys -> Seq(S)]
             /\ total' \in [Keys -> 0..MaxSessionsPerKey]
  <2>1. Append(idle[k], s) \in Seq(S)
    BY <1>1
  <2>2. CASE keep
    BY <1>1, <1>6, <2>1, <2>2 DEF Checkin, Put
  <2>3. CASE ~keep
    BY <1>1, <1>5, <1>6, <2>3 DEF Checkin
  <2>. QED
    BY <2>2, <2>3
<1>. QED
  BY <1>2, <1>3, <1>4, <1>5, <1>6

\* So does taking every idle session of some keys.
LEMMA DrainTypes ==
  ASSUME NEW S, PoolTyped(S), NEW ks \in SUBSET Keys
  PROVE  /\ Drained(ks) \in [Keys -> Seq(S)]
         /\ RemoveIdle(ks) => idle' \in [Keys -> Seq(S)]
<1>1. <<>> \in Seq(S) /\ idle \in [Keys -> Seq(S)]
  BY DEF PoolTyped
<1>. QED
  BY <1>1 DEF Drained, RemoveIdle

\* And discounting what was taken.
LEMMA DiscountTypes ==
  ASSUME NEW S, PoolTyped(S), NEW lists \in [Keys -> Seq(S)]
  PROVE  /\ NothingDrained \in [Keys -> Seq(S)]
         /\ Discount(lists) => total' \in [Keys -> 0..MaxSessionsPerKey]
         /\ SessionsIn(lists) \subseteq S
<1>1. ASSUME Discount(lists) PROVE total' \in [Keys -> 0..MaxSessionsPerKey]
  <2>1. ASSUME NEW k \in Keys PROVE Minus(total[k], Len(lists[k])) \in 0..MaxSessionsPerKey
    <3>1. total[k] \in 0..MaxSessionsPerKey /\ Len(lists[k]) \in Nat
      BY DEF PoolTyped
    <3>. QED
      BY <3>1, CapAssumption DEF Minus
  <2>. QED
    BY <1>1, <2>1 DEF Discount
<1>2. ASSUME NEW s \in SessionsIn(lists) PROVE s \in S
  <2>1. PICK k \in Keys : s \in Range(lists[k])
    BY <1>2, Zenon DEF SessionsIn
  <2>2. lists[k] \in Seq(S)
    OBVIOUS
  <2>. QED
    BY <2>1, <2>2 DEF Range
<1>3. NothingDrained \in [Keys -> Seq(S)]
  BY DEF NothingDrained
<1>. QED
  BY <1>1, <1>2, <1>3

-----------------------------------------------------------------------------
(* The sessions in the pool                                                 *)

Parked == SessionsIn(idle)

\* What it means to be on one of some stacks.
LEMMA ParkedMembers ==
  /\ \A lists, s : s \in SessionsIn(lists) <=> \E k \in Keys : s \in Range(lists[k])
  /\ \A s : s \in Parked <=> \E k \in Keys : s \in Range(idle[k])
<1>1. \A lists, s : s \in SessionsIn(lists) <=> \E k \in Keys : s \in Range(lists[k])
  BY Zenon DEF SessionsIn
<1>. QED
  BY <1>1, Zenon DEF Parked

\* An empty drain holds no session.
LEMMA NothingSwept == SessionsIn(NothingDrained) = {}
<1>1. \A k \in Keys : NothingDrained[k] = <<>>
  BY DEF NothingDrained
<1>. QED
  BY <1>1, ParkedMembers, RangeOfNone, Zenon

\* No session is twice on a stack, or on two stacks.
StacksApart ==
  /\ \A k \in Keys : IsInjective(idle[k])
  /\ \A k, l \in Keys : k # l => Range(idle[k]) \cap Range(idle[l]) = {}

\* Pool::take hands out the top of a stack, and of that stack alone.
LEMMA TakeParked ==
  ASSUME NEW S, PoolTyped(S), StacksApart, NEW k \in Keys, HasIdle(k), Take(k)
  PROVE  /\ StacksApart'
         /\ TopIdle(k) \in Parked
         /\ Parked' = Parked \ {TopIdle(k)}
<1>. DEFINE top == TopIdle(k)
            rest == Front(idle[k])
<1>1. /\ Range(idle[k]) = Range(rest) \cup {top}
      /\ IsInjective(rest)
      /\ top \notin Range(rest)
  <2>1. idle[k] \in Seq(S) /\ idle[k] # <<>> /\ IsInjective(idle[k])
    BY DEF PoolTyped, HasIdle, StacksApart
  <2>. QED
    BY <2>1, FrontFacts, Zenon DEF TopIdle
<1>2. /\ idle'[k] = rest
      /\ \A l \in Keys \ {k} : idle'[l] = idle[l]
  BY DEF PoolTyped, Take, Popped
<1>. HIDE DEF top, rest
<1>3. \A l \in Keys : Range(idle'[l]) = Range(idle[l]) \ {top}
  <2>1. ASSUME NEW l \in Keys, l # k PROVE top \notin Range(idle[l])
    BY <1>1, <2>1 DEF StacksApart
  <2>. QED
    BY <1>1, <1>2, <2>1
<1>4. StacksApart'
  <2>1. \A l \in Keys : IsInjective(idle'[l])
    BY <1>1, <1>2, Zenon DEF StacksApart
  <2>2. \A l, m \in Keys : l # m => Range(idle'[l]) \cap Range(idle'[m]) = {}
    BY <1>3 DEF StacksApart
  <2>. QED
    BY <2>1, <2>2, Zenon DEF StacksApart
<1>5. top \in Parked
  BY <1>1, ParkedMembers
<1>6. \A s : s \in Parked' <=> \E l \in Keys : s \in Range(idle'[l])
  BY Zenon DEF Parked, SessionsIn
<1>7. Parked' = Parked \ {top}
  <2>1. \A s : s \in Parked' <=> s \in Parked /\ s # top
    BY <1>3, <1>6, ParkedMembers
  <2>. QED
    BY <2>1
<1>. QED
  BY <1>4, <1>5, <1>7 DEF top

\* Pool::put of a session that is not idle keeps the stacks apart.
LEMMA PutParked ==
  ASSUME NEW S, PoolTyped(S), StacksApart, NEW k \in Keys, NEW s \in S, s \notin Parked, Put(k, s)
  PROVE  /\ StacksApart'
         /\ Parked' = Parked \cup {s}
<1>1. /\ Range(Append(idle[k], s)) = Range(idle[k]) \cup {s}
      /\ IsInjective(Append(idle[k], s))
  <2>1. idle[k] \in Seq(S) /\ IsInjective(idle[k])
    BY DEF PoolTyped, StacksApart
  <2>2. s \notin Range(idle[k])
    BY ParkedMembers
  <2>. QED
    BY <2>1, <2>2, AppendFacts, ZenonT(40)
<1>2. /\ idle'[k] = Append(idle[k], s)
      /\ \A l \in Keys \ {k} : idle'[l] = idle[l]
  BY DEF PoolTyped, Put
<1>3. /\ Range(idle'[k]) = Range(idle[k]) \cup {s}
      /\ \A l \in Keys \ {k} : Range(idle'[l]) = Range(idle[l])
      /\ \A l \in Keys : s \notin Range(idle[l])
  BY <1>1, <1>2, ParkedMembers
<1>4. StacksApart'
  <2>1. \A l \in Keys : IsInjective(idle'[l])
    BY <1>1, <1>2, Zenon DEF StacksApart
  <2>2. \A l, m \in Keys : l # m => Range(idle'[l]) \cap Range(idle'[m]) = {}
    BY <1>3 DEF StacksApart
  <2>. QED
    BY <2>1, <2>2, Zenon DEF StacksApart
<1>5. \A x : x \in Parked' <=> \E l \in Keys : x \in Range(idle'[l])
  BY Zenon DEF Parked, SessionsIn
<1>6. \A x : x \in Parked' <=> x \in Parked \/ x = s
  BY <1>3, <1>5, ParkedMembers
<1>. QED
  BY <1>4, <1>6

\* A drain takes the idle sessions of its keys and no other.
LEMMA RemoveParked ==
  ASSUME NEW S, PoolTyped(S), StacksApart, NEW ks \in SUBSET Keys, RemoveIdle(ks)
  PROVE  /\ StacksApart'
         /\ SessionsIn(Drained(ks)) \subseteq Parked
         /\ Parked' = Parked \ SessionsIn(Drained(ks))
<1>1. \A k \in Keys : /\ Range(Drained(ks)[k]) = IF k \in ks THEN Range(idle[k]) ELSE {}
                      /\ Range(idle'[k]) = IF k \in ks THEN {} ELSE Range(idle[k])
                      /\ IsInjective(idle'[k])
  <2>. SUFFICES ASSUME NEW k \in Keys
                PROVE  /\ Range(Drained(ks)[k]) = IF k \in ks THEN Range(idle[k]) ELSE {}
                       /\ Range(idle'[k]) = IF k \in ks THEN {} ELSE Range(idle[k])
                       /\ IsInjective(idle'[k])
    OBVIOUS
  <2>1. /\ Drained(ks)[k] = IF k \in ks THEN idle[k] ELSE <<>>
        /\ idle'[k] = IF k \in ks THEN <<>> ELSE idle[k]
    BY DEF Drained, RemoveIdle
  <2>2. IsInjective(idle[k])
    BY DEF StacksApart
  <2>3. CASE k \in ks
    BY <2>1, <2>3, RangeOfNone
  <2>4. CASE k \notin ks
    BY <2>1, <2>2, <2>4, RangeOfNone
  <2>. QED
    BY <2>3, <2>4
<1>2. StacksApart'
  <2>1. \A k, l \in Keys : k # l => Range(idle'[k]) \cap Range(idle'[l]) = {}
    BY <1>1 DEF StacksApart
  <2>. QED
    BY <1>1, <2>1, Zenon DEF StacksApart
<1>3. /\ \A s : s \in Parked' <=> \E k \in Keys : s \in Range(idle'[k])
      /\ \A s : s \in SessionsIn(Drained(ks)) <=> \E k \in Keys : s \in Range(Drained(ks)[k])
      /\ \A s : s \in Parked <=> \E k \in Keys : s \in Range(idle[k])
  BY ParkedMembers, Zenon DEF Parked, SessionsIn
<1>4. \A s : s \in SessionsIn(Drained(ks)) <=> \E k \in ks : s \in Range(idle[k])
  BY <1>1, <1>3
<1>5. \A s : s \in Parked' <=> \E k \in Keys \ ks : s \in Range(idle[k])
  BY <1>1, <1>3
<1>6. \A k \in ks, l \in Keys \ ks : \A s : ~(s \in Range(idle[k]) /\ s \in Range(idle[l]))
  BY DEF StacksApart
<1>7. \A s : s \in Parked' <=> s \in Parked /\ s \notin SessionsIn(Drained(ks))
  BY <1>3, <1>4, <1>5, <1>6
<1>. QED
  BY <1>2, <1>3, <1>4, <1>7

-----------------------------------------------------------------------------
(* Types                                                                    *)

\* The pool of a well-typed state is well typed.
LEMMA PoolIsTyped == TypeOK => PoolTyped(Sessions)
  BY DEF TypeOK, PoolTyped

\* A sequence of some values is one of any superset of them.
LEMMA SeqOfMore ==
  ASSUME NEW S, NEW T, S \subseteq T
  PROVE  Seq(S) \subseteq Seq(T)
OBVIOUS

\* A statement that changes is still one of the statements.
LEMMA ReplacedType ==
  ASSUME NEW S, NEW s \in Seq(S), NEW i \in DOMAIN s, NEW x \in S
  PROVE  [s EXCEPT ![i] = x] \in Seq(S)
OBVIOUS

\* The initial states are well typed.
LEMMA TypeInit == Init => TypeOK
<1>. SUFFICES ASSUME Init PROVE TypeOK
  OBVIOUS
<1>1. NothingDrained \in [Keys -> Seq(Sessions)]
  BY DEF NothingDrained
<1>2. /\ Warm \in [Keys -> Seq(Sessions)]
      /\ \A k \in Keys : Len(Warm[k]) \in 0..MaxSessionsPerKey
      /\ 1 \in 1..RetryAttempts
      /\ PreferInline \subseteq Queries
  BY WarmAssumption, CapAssumption, StatementAssumption
<1>3. /\ statements \in Seq(Statement)
      /\ reports \in [Queries -> Seq({None} \cup DOMAIN statements)]
  BY DEF Init
<1>4. sessions \in 0..MaxSessions
  <2>. DEFINE n == Cardinality(SessionsIn(Warm))
  <2>1. IsFiniteSet(Sessions) /\ Cardinality(Sessions) = MaxSessions
    BY FS_Interval, StatementAssumption DEF Sessions
  <2>2. SessionsIn(Warm) \subseteq Sessions
    <3>1. ASSUME NEW s \in SessionsIn(Warm) PROVE s \in Sessions
      <4>1. PICK k \in Keys : s \in Range(Warm[k])
        BY <3>1, Zenon DEF SessionsIn
      <4>. QED
        BY <1>2, <4>1 DEF Range
    <3>. QED
      BY <3>1
  <2>3. n \in Nat /\ n <= MaxSessions
    BY <2>1, <2>2, FS_Subset, FS_CardinalityType
  <2>4. sessions = n
    BY Zenon DEF Init
  <2>. HIDE DEF n
  <2>. QED
    BY <2>3, <2>4, StatementAssumption
<1>5. /\ idle \in [Keys -> Seq(Sessions)]
      /\ total \in [Keys -> 0..MaxSessionsPerKey]
      /\ closeList \in [Keys -> Seq(Sessions)]
  BY <1>1, <1>2 DEF Init
<1>. QED
  BY <1>2, <1>3, <1>4, <1>5 DEF Init, TypeOK

\* A statement the server accepts comes last, and leaves the others alone.
LEMMA Accepted ==
  ASSUME TypeOK, NEW q \in Queries, Accept(q)
  PROVE  /\ statements' \in Seq(Statement)
         /\ DOMAIN statements' = DOMAIN statements \cup {Len(statements')}
         /\ Len(statements') \notin DOMAIN statements
         /\ \A i \in DOMAIN statements : statements'[i] = statements[i]
         /\ statements'[Len(statements')] =
              [query |-> q, session |-> session[q], inline |-> inline[q], state |-> "running"]
<1>. DEFINE new == [query |-> q, session |-> session[q], inline |-> inline[q], state |-> "running"]
<1>1. statements \in Seq(Statement) /\ new \in Statement
  BY DEF TypeOK, Statement
<1>2. statements' = Append(statements, new)
  BY DEF Accept
<1>. HIDE DEF new
<1>3. /\ statements' \in Seq(Statement)
      /\ Len(statements') = Len(statements) + 1
      /\ DOMAIN statements = 1..Len(statements)
      /\ DOMAIN statements' = 1..(Len(statements) + 1)
      /\ \A i \in 1..Len(statements) : statements'[i] = statements[i]
      /\ statements'[Len(statements) + 1] = new
      /\ Len(statements) \in Nat
  BY <1>1, <1>2
<1>. QED
  BY <1>3 DEF new

\* The statements are counted from 1.
LEMMA Positions ==
  ASSUME TypeOK, NEW i \in DOMAIN statements
  PROVE  i # None /\ i \in Nat /\ statements[i] \in Statement /\ statements[i].query \in Queries
<1>1. statements \in Seq(Statement)
  BY DEF TypeOK
<1>2. i \in 1..Len(statements) /\ statements[i] \in Statement
  BY <1>1
<1>. QED
  BY <1>2 DEF Statement, None

\* A statement that ends changes its state alone.
LEMMA EndedOne ==
  ASSUME TypeOK, NEW i \in DOMAIN statements, NEW state \in Terminal, SetState(i, state)
  PROVE  /\ DOMAIN statements' = DOMAIN statements
         /\ \A j \in DOMAIN statements :
              /\ statements'[j].query = statements[j].query
              /\ statements'[j].session = statements[j].session
              /\ statements'[j].state = IF j = i THEN state ELSE statements[j].state
<1>1. statements \in Seq(Statement) /\ statements[i] \in Statement
  BY DEF TypeOK
<1>2. statements' = [statements EXCEPT ![i] = [statements[i] EXCEPT !.state = state]]
  BY DEF SetState
<1>. QED
  BY <1>1, <1>2 DEF Statement

\* What names a statement still names one when there are more of them.
LEMMA StillNames ==
  ASSUME TypeOK, DOMAIN statements \subseteq DOMAIN statements'
  PROVE  /\ inFlight \in [Queries -> {None} \cup DOMAIN statements']
         /\ stream \in [Queries -> {None} \cup DOMAIN statements']
         /\ reports \in [Queries -> Seq({None} \cup DOMAIN statements')]
         /\ cancels \subseteq DOMAIN statements'
         /\ strays \subseteq [kind : {"session", "undeleted"}, of : Sessions]
                              \cup [kind : {"statement"}, of : DOMAIN statements']
<1>1. Seq({None} \cup DOMAIN statements) \subseteq Seq({None} \cup DOMAIN statements')
  BY SeqOfMore
<1>. QED
  BY <1>1 DEF TypeOK

\* A session is given back into its stack, or its slot is released.
LEMMA GiveBackTypes ==
  ASSUME TypeOK, NEW q \in Queries, NEW ok \in BOOLEAN, GiveBack(q, ok)
  PROVE  /\ idle' \in [Keys -> Seq(Sessions)]
         /\ total' \in [Keys -> 0..MaxSessionsPerKey]
         /\ session' \in [Queries -> Sessions \cup {None}]
         /\ deleted' \subseteq Sessions
<1>1. KeyOf[q] \in Keys
  BY StatementAssumption
<1>2. session' \in [Queries -> Sessions \cup {None}] /\ deleted' \subseteq Sessions
  BY DEF GiveBack, TypeOK
<1>3. CASE session[q] = None
  BY <1>2, <1>3 DEF GiveBack, poolVars, TypeOK
<1>4. CASE session[q] # None
  <2>1. session[q] \in Sessions /\ Checkin(KeyOf[q], session[q], ok)
    BY <1>4 DEF GiveBack, TypeOK
  <2>. QED
    BY <1>1, <1>2, <2>1, PoolTypes, PoolIsTyped
<1>. QED
  BY <1>3, <1>4

\* What a query that leaves submit_and_poll changes keeps its types.
LEMMA LeaveTypes ==
  ASSUME TypeOK, NEW q \in Queries, NEW how \in {"failed", "cancelled"}, Leave(q, how),
         DOMAIN statements \subseteq DOMAIN statements'
  PROVE  /\ phase' \in [Queries -> {"new", "checkout", "creating", "submitting", "polling"} \cup Ended]
         /\ idle' \in [Keys -> Seq(Sessions)]
         /\ total' \in [Keys -> 0..MaxSessionsPerKey]
         /\ session' \in [Queries -> Sessions \cup {None}]
         /\ deleted' \subseteq Sessions
         /\ inFlight' \in [Queries -> {None} \cup DOMAIN statements']
         /\ stream' \in [Queries -> {None} \cup DOMAIN statements']
         /\ reports' \in [Queries -> Seq({None} \cup DOMAIN statements')]
         /\ cancels' \subseteq DOMAIN statements'
<1>1. /\ idle' \in [Keys -> Seq(Sessions)]
      /\ total' \in [Keys -> 0..MaxSessionsPerKey]
      /\ session' \in [Queries -> Sessions \cup {None}]
      /\ deleted' \subseteq Sessions
  BY GiveBackTypes DEF Leave
<1>2. phase' \in [Queries -> {"new", "checkout", "creating", "submitting", "polling"} \cup Ended]
  BY DEF Leave, MoveTo, TypeOK, Ended
<1>3. /\ inFlight' \in [Queries -> {None} \cup DOMAIN statements']
      /\ stream' \in [Queries -> {None} \cup DOMAIN statements']
      /\ cancels' \subseteq DOMAIN statements'
  BY StillNames DEF Leave, CancelInFlight, TypeOK
<1>4. reports' \in [Queries -> Seq({None} \cup DOMAIN statements')]
  <2>1. reports \in [Queries -> Seq({None} \cup DOMAIN statements')]
    BY StillNames
  <2>2. reports' = reports \/ reports' = [reports EXCEPT ![q] = Append(@, None)]
    BY DEF Leave, ReportSubmitError, Report
  <2>. DEFINE known == {None} \cup DOMAIN statements'
  <2>3. None \in known
    OBVIOUS
  <2>. HIDE DEF known
  <2>4. reports \in [Queries -> Seq(known)]
    BY <2>1 DEF known
  <2>5. [reports EXCEPT ![q] = Append(@, None)] \in [Queries -> Seq(known)]
    BY <2>3, <2>4
  <2>6. reports' \in [Queries -> Seq(known)]
    BY <2>2, <2>4, <2>5, Zenon
  <2>. QED
    BY <2>6 DEF known
<1>. QED
  BY <1>1, <1>2, <1>3, <1>4

\* Every step keeps the types.
LEMMA TypeStep == TypeOK /\ [Next]_vars => TypeOK'
<1>. SUFFICES ASSUME TypeOK, [Next]_vars PROVE TypeOK'
  OBVIOUS
<1>. USE DEF poolVars, queryVars, toldVars, serverVars, cleanVars, closeVars
<1>. DEFINE AnyPhase == {"new", "checkout", "creating", "submitting", "polling"} \cup Ended
<1>1. ASSUME NEW q \in Queries, Ensure(q) PROVE TypeOK'
  <2>1. phase' \in [Queries -> AnyPhase]
    BY <1>1 DEF Ensure, MoveTo, TypeOK, Ended
  <2>2. reports' \in [Queries -> Seq({None} \cup DOMAIN statements)]
    <3>1. reports' = reports \/ reports' = [reports EXCEPT ![q] = Append(@, None)]
      BY <1>1 DEF Ensure, ReportSubmitError, Report
    <3>. DEFINE known == {None} \cup DOMAIN statements
    <3>2. reports \in [Queries -> Seq(known)] /\ None \in known
      BY DEF TypeOK
    <3>. HIDE DEF known
    <3>3. [reports EXCEPT ![q] = Append(@, None)] \in [Queries -> Seq(known)]
      BY <3>2
    <3>4. reports' \in [Queries -> Seq(known)]
      BY <3>1, <3>2, <3>3, Zenon
    <3>. QED
      BY <3>4 DEF known
  <2>. QED
    BY <1>1, <2>1, <2>2 DEF Ensure, TypeOK
<1>2. ASSUME NEW q \in Queries, TakeIdle(q) PROVE TypeOK'
  <2>1. KeyOf[q] \in Keys
    BY StatementAssumption
  <2>2. idle' \in [Keys -> Seq(Sessions)] /\ TopIdle(KeyOf[q]) \in Sessions
    BY <1>2, <2>1, PoolTypes, PoolIsTyped DEF TakeIdle
  <2>. QED
    BY <1>2, <2>2 DEF TakeIdle, Hold, MoveTo, TypeOK
<1>3. ASSUME NEW q \in Queries, ReserveSlot(q) PROVE TypeOK'
  <2>1. KeyOf[q] \in Keys
    BY StatementAssumption
  <2>2. total' \in [Keys -> 0..MaxSessionsPerKey]
    <3>1. \/ HasRoom(KeyOf[q]) /\ Reserve(KeyOf[q])
          \/ total' = total
      BY <1>3 DEF ReserveSlot
    <3>. QED
      BY <2>1, <3>1, PoolTypes, PoolIsTyped DEF TypeOK
  <2>3. phase' \in [Queries -> AnyPhase]
    BY <1>3 DEF ReserveSlot, MoveTo, TypeOK
  <2>. QED
    BY <1>3, <2>2, <2>3 DEF ReserveSlot, TypeOK
<1>4. ASSUME NEW q \in Queries, CreateSession(q) PROVE TypeOK'
  <2>1. sessions' \in 0..MaxSessions /\ sessions' \in Sessions
    BY <1>4, StatementAssumption DEF CreateSession, TypeOK, Sessions
  <2>2. session' \in [Queries -> Sessions \cup {None}] /\ phase' \in [Queries -> AnyPhase]
    BY <1>4, <2>1 DEF CreateSession, Hold, MoveTo, TypeOK
  <2>. QED
    BY <1>4, <2>1, <2>2 DEF CreateSession, TypeOK
<1>5. ASSUME NEW q \in Queries, CreateFails(q) PROVE TypeOK'
  <2>1. KeyOf[q] \in Keys
    BY StatementAssumption
  <2>2. total' \in [Keys -> 0..MaxSessionsPerKey]
    BY <1>5, <2>1, PoolTypes, PoolIsTyped DEF CreateFails, DropReservation
  <2>3. /\ sessions' \in 0..MaxSessions
        /\ strays' \subseteq [kind : {"session", "undeleted"}, of : Sessions]
                               \cup [kind : {"statement"}, of : DOMAIN statements]
    BY <1>5, StatementAssumption DEF CreateFails, MayStraySession, Stray, TypeOK, Sessions
  <2>4. phase' \in [Queries -> AnyPhase]
    BY <1>5 DEF CreateFails, MoveTo, TypeOK, Ended
  <2>. QED
    BY <1>5, <2>2, <2>3, <2>4 DEF CreateFails, TypeOK
<1>6. ASSUME NEW q \in Queries, Submit(q) PROVE TypeOK'
  <2>1. /\ statements' \in Seq(Statement)
        /\ DOMAIN statements' = DOMAIN statements \cup {Len(statements')}
    BY <1>6, Accepted DEF Submit
  <2>2. /\ stream' \in [Queries -> {None} \cup DOMAIN statements']
        /\ reports' \in [Queries -> Seq({None} \cup DOMAIN statements')]
        /\ cancels' \subseteq DOMAIN statements'
        /\ strays' \subseteq [kind : {"session", "undeleted"}, of : Sessions]
                               \cup [kind : {"statement"}, of : DOMAIN statements']
        /\ inFlight' \in [Queries -> {None} \cup DOMAIN statements']
    BY <1>6, <2>1, StillNames DEF Submit
  <2>3. phase' \in [Queries -> AnyPhase]
    BY <1>6 DEF Submit, MoveTo, TypeOK
  <2>. QED
    BY <1>6, <2>1, <2>2, <2>3 DEF Submit, TypeOK
<1>7. ASSUME NEW q \in Queries, NEW how \in {"failed", "cancelled"}, Leave(q, how),
             Unheard(q) \/ UNCHANGED <<statements, strays>>,
             UNCHANGED <<inline, attempt, sessions, closeVars>>
      PROVE  TypeOK'
  <2>1. /\ statements' \in Seq(Statement)
        /\ DOMAIN statements \subseteq DOMAIN statements'
        /\ strays' \subseteq [kind : {"session", "undeleted"}, of : Sessions]
                               \cup [kind : {"statement"}, of : DOMAIN statements']
    <3>1. CASE Unheard(q)
      <4>1. /\ statements' \in Seq(Statement)
            /\ DOMAIN statements' = DOMAIN statements \cup {Len(statements')}
        BY <3>1, Accepted DEF Unheard
      <4>2. strays \subseteq [kind : {"session", "undeleted"}, of : Sessions]
                               \cup [kind : {"statement"}, of : DOMAIN statements']
        BY <4>1, StillNames
      <4>. DEFINE new == [kind |-> "statement", of |-> Len(statements')]
                  ofStatements == [kind : {"statement"}, of : DOMAIN statements']
      <4>3. strays' = strays \cup {new} /\ new \in ofStatements
        BY <3>1, <4>1 DEF Unheard, Stray
      <4>. HIDE DEF new, ofStatements
      <4>4. strays' \subseteq [kind : {"session", "undeleted"}, of : Sessions] \cup ofStatements
        BY <4>2, <4>3 DEF ofStatements
      <4>. QED
        BY <4>1, <4>4 DEF ofStatements
    <3>2. CASE UNCHANGED <<statements, strays>>
      BY <3>2 DEF TypeOK
    <3>. QED
      BY <1>7, <3>1, <3>2
  <2>2. /\ phase' \in [Queries -> AnyPhase]
        /\ idle' \in [Keys -> Seq(Sessions)]
        /\ total' \in [Keys -> 0..MaxSessionsPerKey]
        /\ session' \in [Queries -> Sessions \cup {None}]
        /\ deleted' \subseteq Sessions
        /\ inFlight' \in [Queries -> {None} \cup DOMAIN statements']
        /\ stream' \in [Queries -> {None} \cup DOMAIN statements']
        /\ reports' \in [Queries -> Seq({None} \cup DOMAIN statements')]
        /\ cancels' \subseteq DOMAIN statements'
    BY <1>7, <2>1, LeaveTypes
  <2>3. UNCHANGED <<inline, attempt, sessions, closeVars>>
    BY <1>7
  <2>. HIDE DEF AnyPhase
  <2>4. phase' \in [Queries -> {"new", "checkout", "creating", "submitting", "polling"} \cup Ended]
    BY <2>2 DEF AnyPhase
  <2>. QED
    BY <2>1, <2>2, <2>3, <2>4 DEF TypeOK
<1>8. ASSUME NEW q \in Queries, SubmitFails(q) PROVE TypeOK'
  <2>1. PICK failure \in R!Failures :
          /\ \/ failure \in R!Ambiguous /\ Unheard(q)
             \/ UNCHANGED <<statements, strays>>
          /\ IF R!Retries(failure, FALSE, attempt[q])
             THEN /\ attempt' = [attempt EXCEPT ![q] = @ + 1]
                  /\ UNCHANGED <<phase, toldVars, poolVars, session, inFlight, cancels, deleted>>
             ELSE Leave(q, "failed") /\ UNCHANGED attempt
    BY <1>8 DEF SubmitFails
  <2>2. UNCHANGED <<inline, sessions, closeVars>>
    BY <1>8 DEF SubmitFails
  <2>3. CASE R!Retries(failure, FALSE, attempt[q])
    <3>1. failure \notin R!Ambiguous /\ attempt[q] + 1 \in 1..RetryAttempts
      BY <2>3, StatementAssumption DEF TypeOK, R!Retries, R!Transient, R!Ambiguous
    <3>2. attempt' \in [Queries -> 1..RetryAttempts]
      BY <2>1, <2>3, <3>1 DEF TypeOK
    <3>3. UNCHANGED <<statements, strays, phase, toldVars, poolVars, session, inFlight, cancels, deleted>>
      BY <2>1, <2>3, <3>1
    <3>. QED
      BY <2>2, <3>2, <3>3 DEF TypeOK
  <2>4. CASE ~R!Retries(failure, FALSE, attempt[q])
    BY <1>7, <2>1, <2>2, <2>4
  <2>. QED
    BY <2>3, <2>4
<1>9. ASSUME NEW q \in Queries, PollFails(q) PROVE TypeOK'
  BY <1>7, <1>9 DEF PollFails
<1>10. ASSUME NEW q \in Queries, Abandon(q) PROVE TypeOK'
  BY <1>7, <1>10 DEF Abandon
<1>11. ASSUME NEW q \in Queries, Terminates(q),
              FallBack(q) \/ StatementFailed(q) \/ AnswerExternal(q) \/ AnswerInline(q) \/ InlineUnusable(q)
       PROVE  TypeOK'
  <2>1. (Polled(q).state = "succeeded") \in BOOLEAN
    OBVIOUS
  <2>2. /\ idle' \in [Keys -> Seq(Sessions)]
        /\ total' \in [Keys -> 0..MaxSessionsPerKey]
        /\ session' \in [Queries -> Sessions \cup {None}]
        /\ deleted' \subseteq Sessions
    BY <1>11, <2>1, GiveBackTypes DEF Terminates
  <2>3. inFlight' \in [Queries -> {None} \cup DOMAIN statements]
    BY <1>11 DEF Terminates, TypeOK
  <2>4. UNCHANGED <<statements, sessions, cancels, closeVars, strays>>
    BY <1>11 DEF Terminates
  <2>5. phase' \in [Queries -> AnyPhase]
    BY <1>11 DEF FallBack, StatementFailed, AnswerExternal, AnswerInline, HandOver, InlineUnusable,
                 MoveTo, TypeOK, Ended
  <2>6. inline' \in [Queries -> BOOLEAN] /\ attempt' \in [Queries -> 1..RetryAttempts]
    <3>1. \/ inline' = [inline EXCEPT ![q] = FALSE] /\ attempt' = [attempt EXCEPT ![q] = 1]
          \/ UNCHANGED <<inline, attempt>>
      BY <1>11
      DEF FallBack, StatementFailed, AnswerExternal, AnswerInline, HandOver, InlineUnusable
    <3>2. 1 \in 1..RetryAttempts
      BY StatementAssumption
    <3>3. inline \in [Queries -> BOOLEAN] /\ attempt \in [Queries -> 1..RetryAttempts]
      BY DEF TypeOK
    <3>4. inline' \in [Queries -> BOOLEAN]
      BY <3>1, <3>3
    <3>5. attempt' \in [Queries -> 1..RetryAttempts]
      BY <3>1, <3>2, <3>3
    <3>. QED
      BY <3>4, <3>5
  <2>7. stream' \in [Queries -> {None} \cup DOMAIN statements]
    BY <1>11
    DEF FallBack, StatementFailed, AnswerExternal, AnswerInline, HandOver, InlineUnusable, TypeOK
  <2>8. reports' \in [Queries -> Seq({None} \cup DOMAIN statements)]
    <3>1. reports' = reports \/ \E i \in {None, inFlight[q]} : reports' = [reports EXCEPT ![q] = Append(@, i)]
      BY <1>11
      DEF FallBack, StatementFailed, AnswerExternal, AnswerInline, HandOver, InlineUnusable,
          ReportSubmitError, ReportUnusable, Report
    <3>. DEFINE known == {None} \cup DOMAIN statements
    <3>2. reports \in [Queries -> Seq(known)] /\ None \in known /\ inFlight[q] \in known
      BY DEF TypeOK
    <3>. HIDE DEF known
    <3>3. \A i \in {None, inFlight[q]} : [reports EXCEPT ![q] = Append(@, i)] \in [Queries -> Seq(known)]
      BY <3>2
    <3>4. reports' \in [Queries -> Seq(known)]
      BY <3>1, <3>2, <3>3, Zenon
    <3>. QED
      BY <3>4 DEF known
  <2>. HIDE DEF AnyPhase
  <2>9. phase' \in [Queries -> {"new", "checkout", "creating", "submitting", "polling"} \cup Ended]
    BY <2>5 DEF AnyPhase
  <2>. QED
    BY <2>2, <2>3, <2>4, <2>6, <2>7, <2>8, <2>9 DEF TypeOK
<1>12. ASSUME CloseAll PROVE TypeOK'
  <2>1. closeList' \in [Keys -> Seq(Sessions)] /\ idle' \in [Keys -> Seq(Sessions)]
    BY <1>12, DrainTypes, PoolIsTyped DEF CloseAll
  <2>. QED
    BY <1>12, <2>1 DEF CloseAll, TypeOK
<1>13. ASSUME DiscountAll PROVE TypeOK'
  <2>1. closeList \in [Keys -> Seq(Sessions)]
    BY DEF TypeOK
  <2>2. /\ total' \in [Keys -> 0..MaxSessionsPerKey]
        /\ SessionsIn(closeList) \subseteq Sessions
        /\ NothingDrained \in [Keys -> Seq(Sessions)]
    BY <1>13, <2>1, DiscountTypes, PoolIsTyped DEF DiscountAll
  <2>. QED
    BY <1>13, <2>2 DEF DiscountAll, TypeOK
<1>17. ASSUME NEW s \in Sessions, DeleteDrained(s) PROVE TypeOK'
  BY <1>17 DEF DeleteDrained, TypeOK
<1>18. ASSUME CancelClose PROVE TypeOK'
  <2>1. strays' \subseteq [kind : {"session", "undeleted"}, of : Sessions]
                            \cup [kind : {"statement"}, of : DOMAIN statements]
    BY <1>18 DEF CancelClose, TypeOK
  <2>2. UNCHANGED <<phase, toldVars, poolVars, queryVars, serverVars, cancels, deleted, closeList>>
    BY <1>18 DEF CancelClose
  <2>3. closer' \in {"idle", "drained", "deleting", "cancelled"} /\ toDelete' \subseteq Sessions
    BY <1>18 DEF CancelClose
  <2>. QED
    BY <2>1, <2>2, <2>3 DEF TypeOK
<1>14. ASSUME NEW i \in DOMAIN statements, ServerFinishes(i) \/ CancelArrives(i) PROVE TypeOK'
  <2>1. statements' \in Seq(Statement) /\ DOMAIN statements' = DOMAIN statements
    <3>1. statements' = statements \/ \E state \in Terminal : SetState(i, state)
      BY <1>14 DEF ServerFinishes, CancelArrives, Terminal
    <3>2. ASSUME NEW state \in Terminal
          PROVE  SetState(i, state) =>
                   statements' \in Seq(Statement) /\ DOMAIN statements' = DOMAIN statements
      <4>1. statements \in Seq(Statement) /\ statements[i] \in Statement
        BY DEF TypeOK
      <4>2. [statements[i] EXCEPT !.state = state] \in Statement
        BY <4>1 DEF Statement, Terminal
      <4>3. [statements EXCEPT ![i] = [statements[i] EXCEPT !.state = state]] \in Seq(Statement)
        BY <4>1, <4>2, ReplacedType, Zenon
      <4>. QED
        BY <4>3 DEF SetState
    <3>. QED
      BY <3>1, <3>2 DEF TypeOK
  <2>2. cancels' \subseteq DOMAIN statements
    BY <1>14 DEF ServerFinishes, CancelArrives, TypeOK
  <2>3. strays' \subseteq [kind : {"session", "undeleted"}, of : Sessions]
                            \cup [kind : {"statement"}, of : DOMAIN statements]
    BY <1>14 DEF ServerFinishes, CancelArrives, Stray, TypeOK
  <2>4. UNCHANGED <<phase, toldVars, poolVars, queryVars, sessions, deleted, closeVars>>
    BY <1>14 DEF ServerFinishes, CancelArrives
  <2>. QED
    BY <2>1, <2>2, <2>3, <2>4 DEF TypeOK
<1>15. CASE UNCHANGED vars
  BY <1>15 DEF vars, TypeOK
<1>16. ASSUME NEW q \in Queries, Step(q) PROVE TypeOK'
  BY <1>1, <1>2, <1>3, <1>4, <1>5, <1>6, <1>8, <1>9, <1>11, <1>16
  DEF Step, FallBack, StatementFailed, AnswerExternal, AnswerInline, InlineUnusable
<1>. QED
  BY <1>10, <1>12, <1>13, <1>14, <1>15, <1>16, <1>17, <1>18 DEF Next, Closes

\* SeaStatement's variables always have the values that its comments give them.
THEOREM TypeCorrect == Spec => []TypeOK
<1>1. Init => TypeOK
  BY TypeInit
<1>2. TypeOK /\ [Next]_vars => TypeOK'
  BY TypeStep
<1>. QED
  BY <1>1, <1>2, PTL DEF Spec

-----------------------------------------------------------------------------
(* A query commits once                                                     *)

\* The statements of a query that have committed or may still do so, and those
\* that have.
Committing(q) == {i \in StatementsOf(q) : statements[i].state \in {"running", "succeeded"}}
Committed(q)  == {i \in StatementsOf(q) : statements[i].state = "succeeded"}

\* What CommitsOnce needs to be inductive: until a submission is accepted
\* nothing of the query may commit, while one is polled it alone may, and the
\* query has a statement in flight exactly then.
Once(q) ==
  /\ \A i, j \in Committing(q) : i = j
  /\ phase[q] \in {"new", "checkout", "creating", "submitting"} => Committing(q) = {}
  /\ phase[q] = "polling" =>
       /\ inFlight[q] \in StatementsOf(q)
       /\ Committing(q) \subseteq {inFlight[q]}
       /\ statements[inFlight[q]].session = session[q]
  /\ phase[q] # "polling" => inFlight[q] = None
  /\ IF phase[q] = "answered" THEN stream[q] \in Committed(q) ELSE stream[q] = None
  /\ IF phase[q] = "failed"
     THEN \E i \in {None} \cup Committed(q) : reports[q] = <<i>>
     ELSE reports[q] = <<>>

OnceInv == \A q \in Queries : Once(q)

\* Nothing has been submitted yet.
LEMMA OnceInit == Init => OnceInv
<1>. SUFFICES ASSUME Init, NEW q \in Queries PROVE Once(q)
  BY DEF OnceInv
<1>1. statements = <<>> /\ phase[q] = "new" /\ inFlight[q] = None /\ stream[q] = None /\ reports[q] = <<>>
  BY DEF Init
<1>2. Committing(q) = {}
  BY <1>1 DEF Committing, StatementsOf
<1>. QED
  BY <1>1, <1>2 DEF Once

\* Of query q, no statement has been accepted, and none has become one that may
\* commit.
Settles(q) ==
  /\ StatementsOf(q)' = StatementsOf(q)
  /\ \A i \in StatementsOf(q) : statements'[i].session = statements[i].session
  /\ Committing(q)' \subseteq Committing(q)
  /\ Committed(q) \subseteq Committed(q)'

\* What another query's step or the server's leaves of Once.
LEMMA OnceKept ==
  ASSUME NEW q \in Queries, Once(q), Settles(q),
         phase'[q] = phase[q], inFlight'[q] = inFlight[q], session'[q] = session[q],
         stream'[q] = stream[q], reports'[q] = reports[q]
  PROVE  Once(q)'
BY DEF Once, Settles

\* An accepted statement is one of its query, and it is running.
LEMMA AcceptGrows ==
  ASSUME TypeOK, NEW q \in Queries, Accept(q)
  PROVE  /\ StatementsOf(q)' = StatementsOf(q) \cup {Len(statements')}
         /\ Committing(q)' = Committing(q) \cup {Len(statements')}
         /\ Committed(q)' = Committed(q)
         /\ \A r \in Queries : r # q => Settles(r)
<1>. DEFINE new == Len(statements')
<1>1. /\ DOMAIN statements' = DOMAIN statements \cup {new}
      /\ new \notin DOMAIN statements
      /\ \A i \in DOMAIN statements : statements'[i] = statements[i]
      /\ statements'[new] = [query |-> q, session |-> session[q], inline |-> inline[q], state |-> "running"]
  BY Accepted
<1>. HIDE DEF new
<1>2. /\ StatementsOf(q)' = StatementsOf(q) \cup {new}
      /\ Committing(q)' = Committing(q) \cup {new}
      /\ Committed(q)' = Committed(q)
  BY <1>1 DEF StatementsOf, Committing, Committed
<1>3. ASSUME NEW r \in Queries, r # q PROVE Settles(r)
  BY <1>1, <1>3 DEF StatementsOf, Committing, Committed, Settles
<1>. QED
  BY <1>2, <1>3 DEF new

\* Without an accepted statement every query settles.
LEMMA NoneAccepted ==
  ASSUME UNCHANGED statements, NEW q \in Queries
  PROVE  /\ Settles(q)
         /\ StatementsOf(q)' = StatementsOf(q)
         /\ Committing(q)' = Committing(q)
         /\ Committed(q)' = Committed(q)
BY DEF StatementsOf, Committing, Committed, Settles

\* So it does when a running statement ends.
LEMMA EndSettles ==
  ASSUME TypeOK, NEW i \in DOMAIN statements, NEW state \in Terminal,
         statements[i].state = "running", SetState(i, state), NEW q \in Queries
  PROVE  Settles(q)
<1>1. /\ DOMAIN statements' = DOMAIN statements
      /\ \A j \in DOMAIN statements : /\ statements'[j].query = statements[j].query
                                      /\ statements'[j].session = statements[j].session
                                      /\ j # i => statements'[j].state = statements[j].state
  BY EndedOne
<1>. QED
  BY <1>1 DEF StatementsOf, Committing, Committed, Settles

\* A query's step leaves the other queries alone.
LEMMA OthersUntouched ==
  ASSUME TypeOK, NEW q \in Queries, Step(q) \/ Abandon(q), NEW r \in Queries, r # q
  PROVE  /\ phase'[r] = phase[r] /\ inFlight'[r] = inFlight[r] /\ session'[r] = session[r]
         /\ stream'[r] = stream[r] /\ reports'[r] = reports[r]
<1>. USE DEF MoveTo, TypeOK, toldVars, queryVars
<1>1. ASSUME NEW how \in {"failed", "cancelled"}, Leave(q, how)
      PROVE  /\ phase'[r] = phase[r] /\ inFlight'[r] = inFlight[r] /\ session'[r] = session[r]
             /\ stream'[r] = stream[r] /\ reports'[r] = reports[r]
  BY <1>1 DEF Leave, GiveBack, ReportSubmitError, Report
<1>2. CASE Ensure(q) \/ TakeIdle(q) \/ ReserveSlot(q) \/ CreateSession(q) \/ CreateFails(q) \/ Submit(q)
  BY <1>2 DEF Ensure, TakeIdle, ReserveSlot, CreateSession, CreateFails, Submit, Hold, ReportSubmitError, Report
<1>3. CASE SubmitFails(q)
  BY <1>1, <1>3 DEF SubmitFails
<1>4. CASE PollFails(q) \/ Abandon(q)
  BY <1>1, <1>4 DEF PollFails, Abandon
<1>5. CASE FallBack(q) \/ StatementFailed(q) \/ AnswerExternal(q) \/ AnswerInline(q) \/ InlineUnusable(q)
  BY <1>5
  DEF FallBack, StatementFailed, AnswerExternal, AnswerInline, InlineUnusable, HandOver, Terminates,
      GiveBack, ReportSubmitError, ReportUnusable, Report
<1>. QED
  BY <1>2, <1>3, <1>4, <1>5 DEF Step

\* A query's step accepts one statement of its own, or none.
LEMMA AcceptsOwn ==
  ASSUME NEW q \in Queries, Step(q) \/ Abandon(q)
  PROVE  Accept(q) \/ UNCHANGED statements
BY DEF Step, Abandon, Ensure, TakeIdle, ReserveSlot, CreateSession, CreateFails, Submit, SubmitFails,
       Unheard, PollFails, FallBack, StatementFailed, AnswerExternal, AnswerInline, InlineUnusable,
       Terminates, serverVars

\* A query that gives up before any of its statements is accepted, or polls one
\* that is settled, may leave one more statement behind.
LEMMA OnceLeaves ==
  ASSUME TypeOK, NEW q \in Queries, Once(q), phase[q] \in {"submitting", "polling"},
         NEW how \in {"failed", "cancelled"}, Leave(q, how),
         \/ Accept(q) /\ phase[q] = "submitting"
         \/ UNCHANGED statements
  PROVE  Once(q)'
<1>1. /\ phase'[q] = how /\ inFlight'[q] = None /\ stream'[q] = stream[q] /\ stream[q] = None
      /\ reports[q] = <<>>
      /\ reports'[q] = IF how = "failed" THEN <<None>> ELSE <<>>
  <2>1. reports[q] = <<>> /\ stream[q] = None
    BY DEF Once
  <2>2. phase'[q] = how /\ inFlight'[q] = None /\ stream'[q] = stream[q]
    BY DEF Leave, MoveTo, TypeOK
  <2>3. reports'[q] = IF how = "failed" THEN Append(reports[q], None) ELSE reports[q]
    BY DEF Leave, ReportSubmitError, Report, TypeOK
  <2>. QED
    BY <2>1, <2>2, <2>3
<1>2. \A i, j \in Committing(q)' : i = j
  <2>1. CASE Accept(q) /\ phase[q] = "submitting"
    BY <2>1, AcceptGrows DEF Once
  <2>2. CASE UNCHANGED statements
    BY <2>2, NoneAccepted DEF Once
  <2>. QED
    BY <2>1, <2>2
<1>. QED
  BY <1>1, <1>2 DEF Once

\* Every step keeps every query to one statement that commits.
LEMMA OnceStep == TypeOK /\ OnceInv /\ [Next]_vars => OnceInv'
<1>. SUFFICES ASSUME TypeOK, OnceInv, [Next]_vars PROVE OnceInv'
  OBVIOUS
<1>0. \A r \in Queries : Once(r)
  BY DEF OnceInv
<1>1. ASSUME NEW q \in Queries, Step(q) \/ Abandon(q), Once(q)' PROVE OnceInv'
  <2>1. ASSUME NEW r \in Queries, r # q PROVE Once(r)'
    <3>1. Settles(r)
      BY <1>1, <2>1, AcceptsOwn, AcceptGrows, NoneAccepted
    <3>. QED
      BY <1>0, <1>1, <2>1, <3>1, OthersUntouched, OnceKept
  <2>. QED
    BY <1>1, <2>1 DEF OnceInv
<1>2. ASSUME NEW q \in Queries, Ensure(q) PROVE Once(q)'
  <2>1. /\ phase[q] = "new" /\ phase'[q] \in {"checkout", "failed", "cancelled"}
        /\ UNCHANGED <<statements, inFlight, stream>>
        /\ reports'[q] = IF phase'[q] = "failed" THEN Append(reports[q], None) ELSE reports[q]
    BY <1>2 DEF Ensure, MoveTo, ReportSubmitError, Report, TypeOK, serverVars, queryVars
  <2>2. reports'[q] = IF phase'[q] = "failed" THEN <<None>> ELSE <<>>
    <3>1. reports[q] = <<>>
      BY <1>0, <2>1 DEF Once
    <3>. QED
      BY <2>1, <3>1
  <2>3. /\ Committing(q) = {} /\ inFlight[q] = None /\ stream[q] = None
        /\ Committing(q)' = Committing(q)
    BY <1>0, <2>1, NoneAccepted DEF Once
  <2>. QED
    BY <2>1, <2>2, <2>3 DEF Once
<1>3. ASSUME NEW q \in Queries, TakeIdle(q) \/ ReserveSlot(q) \/ CreateSession(q) \/ CreateFails(q)
      PROVE  Once(q)'
  <2>1. /\ phase[q] \in {"checkout", "creating"} /\ phase'[q] \in {"creating", "submitting", "cancelled"}
        /\ UNCHANGED <<statements, inFlight, stream, reports>>
    BY <1>3 DEF TakeIdle, ReserveSlot, CreateSession, CreateFails, MoveTo, TypeOK, serverVars, queryVars, toldVars
  <2>. QED
    BY <1>0, <2>1, NoneAccepted DEF Once
<1>4. ASSUME NEW q \in Queries, Submit(q) PROVE Once(q)'
  <2>1. phase[q] = "submitting" /\ UNCHANGED <<stream, reports, session>> /\ Accept(q)
    BY <1>4 DEF Submit, toldVars
  <2>2. phase'[q] = "polling"
    BY <1>4 DEF Submit, MoveTo, TypeOK
  <2>3. inFlight'[q] = Len(statements')
    BY <1>4 DEF Submit, TypeOK
  <2>4. statements'[Len(statements')].session = session[q]
    <3>1. statements'[Len(statements')] =
            [query |-> q, session |-> session[q], inline |-> inline[q], state |-> "running"]
      BY <2>1, Accepted
    <3>. QED
      BY <3>1
  <2>. QED
    BY <1>0, <2>1, <2>2, <2>3, <2>4, AcceptGrows DEF Once
<1>5. ASSUME NEW q \in Queries, SubmitFails(q) PROVE Once(q)'
  <2>1. PICK failure \in R!Failures :
          /\ \/ failure \in R!Ambiguous /\ Unheard(q)
             \/ UNCHANGED <<statements, strays>>
          /\ IF R!Retries(failure, FALSE, attempt[q])
             THEN /\ attempt' = [attempt EXCEPT ![q] = @ + 1]
                  /\ UNCHANGED <<phase, toldVars, poolVars, session, inFlight, cancels, deleted>>
             ELSE Leave(q, "failed") /\ UNCHANGED attempt
    BY <1>5 DEF SubmitFails
  <2>2. phase[q] = "submitting"
    BY <1>5 DEF SubmitFails
  <2>3. CASE R!Retries(failure, FALSE, attempt[q])
    <3>1. failure \notin R!Ambiguous
      BY <2>3 DEF R!Retries, R!Transient, R!Ambiguous
    <3>2. UNCHANGED <<statements, phase, inFlight, session, stream, reports>>
      BY <2>1, <2>3, <3>1 DEF toldVars
    <3>. QED
      BY <1>0, <3>2, NoneAccepted, OnceKept
  <2>4. CASE ~R!Retries(failure, FALSE, attempt[q])
    BY <1>0, <2>1, <2>2, <2>4, OnceLeaves DEF Unheard
  <2>. QED
    BY <2>3, <2>4
<1>6. ASSUME NEW q \in Queries, PollFails(q) PROVE Once(q)'
  BY <1>0, <1>6, OnceLeaves DEF PollFails, serverVars
<1>7. ASSUME NEW q \in Queries, Abandon(q) PROVE Once(q)'
  BY <1>0, <1>7, OnceLeaves DEF Abandon, Unheard
<1>8. ASSUME NEW q \in Queries, Terminates(q), Polled(q).state # "succeeded",
             FallBack(q) \/ StatementFailed(q)
      PROVE  Once(q)'
  <2>1. phase[q] = "polling" /\ inFlight'[q] = None /\ UNCHANGED <<statements, stream>>
    BY <1>8 DEF Terminates, FallBack, StatementFailed, TypeOK, serverVars, toldVars
  <2>2. \/ phase'[q] = "new" /\ reports' = reports
        \/ phase'[q] = "failed" /\ reports'[q] = Append(reports[q], None)
    BY <1>8 DEF FallBack, StatementFailed, MoveTo, Report, TypeOK, toldVars
  <2>3. /\ stream[q] = None
        /\ \/ phase'[q] = "new" /\ reports'[q] = <<>>
           \/ phase'[q] = "failed" /\ reports'[q] = <<None>>
    <3>1. reports[q] = <<>> /\ stream[q] = None
      BY <1>0, <2>1 DEF Once
    <3>. QED
      BY <2>2, <3>1
  <2>4. Committing(q) = {}
    <3>1. inFlight[q] \notin Committing(q)
      BY <1>8 DEF Terminates, Terminal, Polled, Committing
    <3>. QED
      BY <1>0, <2>1, <3>1 DEF Once
  <2>5. Committing(q)' = {}
    BY <2>1, <2>4, NoneAccepted
  <2>. QED
    BY <2>1, <2>3, <2>5 DEF Once
<1>9. ASSUME NEW q \in Queries, Terminates(q), Polled(q).state = "succeeded",
             AnswerExternal(q) \/ AnswerInline(q) \/ InlineUnusable(q)
      PROVE  Once(q)'
  <2>1. /\ phase[q] = "polling"
        /\ inFlight'[q] = None
        /\ UNCHANGED statements
        /\ \/ phase'[q] = "answered" /\ stream'[q] = inFlight[q] /\ reports' = reports
           \/ /\ phase'[q] = "failed" /\ UNCHANGED stream
              /\ \E i \in {None, inFlight[q]} : reports'[q] = Append(reports[q], i)
    BY <1>9
    DEF Terminates, AnswerExternal, AnswerInline, HandOver, InlineUnusable, MoveTo, ReportSubmitError,
        ReportUnusable, Report, TypeOK, serverVars, toldVars
  <2>2. inFlight[q] \in Committed(q)
    BY <1>0, <1>9, <2>1 DEF Once, Polled, Committed
  <2>. QED
    BY <1>0, <2>1, <2>2, NoneAccepted DEF Once
<1>10. ASSUME NEW q \in Queries, Step(q) PROVE Once(q)'
  <2>1. ASSUME StatementFailed(q) PROVE Terminates(q) /\ Polled(q).state # "succeeded"
    BY <2>1 DEF StatementFailed
  <2>2. ASSUME FallBack(q) PROVE Terminates(q) /\ Polled(q).state # "succeeded"
    BY <2>2 DEF FallBack, FallsBack
  <2>3. ASSUME AnswerExternal(q) \/ AnswerInline(q) \/ InlineUnusable(q)
        PROVE  Terminates(q) /\ Polled(q).state = "succeeded"
    BY <2>3 DEF AnswerExternal, AnswerInline, HandOver, InlineUnusable
  <2>. QED
    BY <1>2, <1>3, <1>4, <1>5, <1>6, <1>8, <1>9, <1>10, <2>1, <2>2, <2>3 DEF Step
<1>11. ASSUME Closes \/ UNCHANGED vars PROVE OnceInv'
  <2>1. UNCHANGED <<statements, phase, inFlight, session, stream, reports>>
    BY <1>11 DEF Closes, CloseAll, DiscountAll, DeleteDrained, CancelClose, vars, toldVars, queryVars, serverVars
  <2>. QED
    BY <1>0, <2>1, NoneAccepted, OnceKept DEF OnceInv
<1>12. ASSUME NEW i \in DOMAIN statements, ServerFinishes(i) \/ CancelArrives(i) PROVE OnceInv'
  <2>1. UNCHANGED <<phase, inFlight, session, stream, reports>>
    BY <1>12 DEF ServerFinishes, CancelArrives, toldVars, queryVars
  <2>2. \/ statements[i].state = "running" /\ \E state \in Terminal : SetState(i, state)
        \/ UNCHANGED statements
    BY <1>12 DEF ServerFinishes, CancelArrives, Terminal
  <2>3. \A q \in Queries : Settles(q)
    BY <2>2, EndSettles, NoneAccepted
  <2>. QED
    BY <1>0, <2>1, <2>3, OnceKept DEF OnceInv
<1>. QED
  BY <1>1, <1>7, <1>10, <1>11, <1>12 DEF Next

\* What holds of one query holds in every reachable state.
LEMMA OnceAlways == Spec => [](TypeOK /\ OnceInv)
<1>1. Init => TypeOK /\ OnceInv
  BY TypeInit, OnceInit
<1>2. TypeOK /\ OnceInv /\ [Next]_vars => (TypeOK /\ OnceInv)'
  BY TypeStep, OnceStep
<1>. QED
  BY <1>1, <1>2, PTL DEF Spec

\* execute() never runs the caller's SQL twice: at most one statement of a query
\* commits, an answer is that statement's, and an error is reported once.
THEOREM RunsOnce == Spec => []CommitsOnce
<1>1. ASSUME TypeOK, OnceInv PROVE CommitsOnce
  <2>. SUFFICES ASSUME NEW q \in Queries
                PROVE  /\ Cardinality(Committing(q)) <= 1
                       /\ \/ /\ phase[q] = "answered" /\ stream[q] \in Committing(q)
                             /\ statements[stream[q]].state = "succeeded"
                          \/ phase[q] # "answered" /\ stream[q] = None
                       /\ Len(reports[q]) = IF phase[q] = "failed" THEN 1 ELSE 0
                       /\ \A i \in Range(reports[q]) \ {None} :
                            i \in Committing(q) /\ statements[i].state = "succeeded"
    BY DEF CommitsOnce, Committing
  <2>1. Once(q)
    BY <1>1 DEF OnceInv
  <2>2. Cardinality(Committing(q)) <= 1
    <3>1. CASE Committing(q) = {}
      BY <3>1, FS_EmptySet
    <3>2. CASE Committing(q) # {}
      <4>1. PICK i \in Committing(q) : TRUE
        BY <3>2
      <4>2. Committing(q) = {i}
        BY <2>1, <4>1 DEF Once
      <4>3. Cardinality({i}) = 1
        BY FS_Singleton, Zenon
      <4>. QED
        BY <4>2, <4>3
    <3>. QED
      BY <3>1, <3>2
  <2>3. \A i \in Committed(q) : i \in Committing(q) /\ statements[i].state = "succeeded"
    BY DEF Committed, Committing
  <2>4. CASE phase[q] = "failed"
    <3>1. PICK i \in {None} \cup Committed(q) : reports[q] = <<i>>
      BY <2>1, <2>4 DEF Once
    <3>2. Len(reports[q]) = 1 /\ Range(reports[q]) = {i}
      BY <3>1 DEF Range
    <3>. QED
      BY <2>1, <2>2, <2>3, <2>4, <3>1, <3>2 DEF Once
  <2>5. CASE phase[q] # "failed"
    <3>1. Len(reports[q]) = 0 /\ Range(reports[q]) = {}
      BY <2>1, <2>5, RangeOfNone DEF Once
    <3>. QED
      BY <2>1, <2>2, <2>3, <2>5, <3>1 DEF Once
  <2>. QED
    BY <2>4, <2>5
<1>. QED
  BY <1>1, OnceAlways, PTL

-----------------------------------------------------------------------------
(* Nothing runs for nobody                                                  *)

\* A query that leaves its statement sends a cancel request after it, and one it
\* never heard of is a stray.
LEMMA LeaveCovers ==
  ASSUME TypeOK, NothingRunsForNobody, NEW q \in Queries, Once(q),
         NEW how \in {"failed", "cancelled"}, Leave(q, how),
         Unheard(q) \/ UNCHANGED <<statements, strays>>
  PROVE  NothingRunsForNobody'
<1>1. /\ \A p \in Queries : inFlight'[p] = IF p = q THEN None ELSE inFlight[p]
      /\ cancels' = cancels \cup ({inFlight[q]} \ {None})
  BY DEF Leave, CancelInFlight, TypeOK
<1>2. \A i \in DOMAIN statements : i # None /\ statements[i].query \in Queries
  BY Positions
<1>3. ASSUME NEW i \in DOMAIN statements, statements[i].state = "running", strays \subseteq strays'
      PROVE  \/ inFlight'[statements[i].query] = i
             \/ i \in cancels' \/ [kind |-> "statement", of |-> i] \in strays'
  BY <1>1, <1>2, <1>3 DEF NothingRunsForNobody
<1>4. CASE UNCHANGED <<statements, strays>>
  BY <1>3, <1>4 DEF NothingRunsForNobody
<1>5. CASE Unheard(q)
  <2>1. /\ DOMAIN statements' = DOMAIN statements \cup {Len(statements')}
        /\ \A i \in DOMAIN statements : statements'[i] = statements[i]
    BY <1>5, Accepted DEF Unheard
  <2>2. /\ strays \subseteq strays'
        /\ [kind |-> "statement", of |-> Len(statements')] \in strays'
    BY <1>5 DEF Unheard, Stray
  <2>3. ASSUME NEW i \in DOMAIN statements', statements'[i].state = "running",
               inFlight'[statements'[i].query] # i
        PROVE  i \in cancels' \/ [kind |-> "statement", of |-> i] \in strays'
    <3>1. CASE i \in DOMAIN statements
      BY <1>3, <2>1, <2>2, <2>3, <3>1
    <3>2. CASE i = Len(statements')
      BY <2>2, <3>2
    <3>. QED
      BY <2>1, <3>1, <3>2
  <2>. QED
    BY <2>3 DEF NothingRunsForNobody
<1>. QED
  BY <1>4, <1>5

\* A step that touches neither statements nor who waits for them.
LEMMA CoverKept ==
  ASSUME NothingRunsForNobody, UNCHANGED <<statements, inFlight, cancels>>, strays \subseteq strays'
  PROVE  NothingRunsForNobody'
BY DEF NothingRunsForNobody

\* Every step keeps the running statements covered.
LEMMA CoverStep == TypeOK /\ OnceInv /\ NothingRunsForNobody /\ [Next]_vars => NothingRunsForNobody'
<1>. SUFFICES ASSUME TypeOK, OnceInv, NothingRunsForNobody, [Next]_vars PROVE NothingRunsForNobody'
  OBVIOUS
<1>0. /\ \A q \in Queries : Once(q)
      /\ \A i \in DOMAIN statements : i # None /\ statements[i].query \in Queries
  BY Positions DEF OnceInv
<1>1. ASSUME NEW q \in Queries,
             Ensure(q) \/ TakeIdle(q) \/ ReserveSlot(q) \/ CreateSession(q) \/ CreateFails(q)
      PROVE  NothingRunsForNobody'
  <2>1. UNCHANGED <<statements, inFlight, cancels>> /\ strays \subseteq strays'
    BY <1>1
    DEF Ensure, TakeIdle, ReserveSlot, CreateSession, CreateFails, MayStraySession, Stray,
        queryVars, serverVars, cleanVars, closeVars
  <2>. QED
    BY <2>1, CoverKept
<1>2. ASSUME NEW q \in Queries, Submit(q) PROVE NothingRunsForNobody'
  <2>1. phase[q] = "submitting" /\ UNCHANGED <<cancels, strays>> /\ Accept(q)
    BY <1>2 DEF Submit, cleanVars, closeVars
  <2>2. \A p \in Queries : inFlight'[p] = IF p = q THEN Len(statements') ELSE inFlight[p]
    BY <1>2 DEF Submit, TypeOK
  <2>3. /\ DOMAIN statements' = DOMAIN statements \cup {Len(statements')}
        /\ \A i \in DOMAIN statements : statements'[i] = statements[i]
        /\ statements'[Len(statements')] =
             [query |-> q, session |-> session[q], inline |-> inline[q], state |-> "running"]
    BY <2>1, Accepted
  <2>4. inFlight[q] = None
    BY <1>0, <2>1 DEF Once
  <2>5. ASSUME NEW i \in DOMAIN statements', statements'[i].state = "running",
               inFlight'[statements'[i].query] # i
        PROVE  i \in cancels' \/ [kind |-> "statement", of |-> i] \in strays'
    <3>1. CASE i \in DOMAIN statements
      <4>1. statements[i].query \in Queries /\ statements[i] = statements'[i] /\ i # None
        BY <1>0, <2>3, <3>1
      <4>2. inFlight[statements[i].query] # i
        BY <2>2, <2>4, <2>5, <4>1
      <4>3. i \in cancels \/ [kind |-> "statement", of |-> i] \in strays
        BY <2>5, <3>1, <4>1, <4>2 DEF NothingRunsForNobody
      <4>. QED
        BY <2>1, <4>3
    <3>2. CASE i = Len(statements')
      <4>1. statements'[i].query = q
        BY <2>3, <3>2
      <4>. QED
        BY <2>2, <2>5, <3>2, <4>1
    <3>. QED
      BY <2>3, <3>1, <3>2
  <2>. QED
    BY <2>5 DEF NothingRunsForNobody
<1>3. ASSUME NEW q \in Queries, SubmitFails(q) PROVE NothingRunsForNobody'
  <2>1. PICK failure \in R!Failures :
          /\ \/ failure \in R!Ambiguous /\ Unheard(q)
             \/ UNCHANGED <<statements, strays>>
          /\ IF R!Retries(failure, FALSE, attempt[q])
             THEN /\ attempt' = [attempt EXCEPT ![q] = @ + 1]
                  /\ UNCHANGED <<phase, toldVars, poolVars, session, inFlight, cancels, deleted>>
             ELSE Leave(q, "failed") /\ UNCHANGED attempt
    BY <1>3 DEF SubmitFails
  <2>2. CASE R!Retries(failure, FALSE, attempt[q])
    <3>1. failure \notin R!Ambiguous
      BY <2>2 DEF R!Retries, R!Transient, R!Ambiguous
    <3>. QED
      BY <2>1, <2>2, <3>1, CoverKept
  <2>3. CASE ~R!Retries(failure, FALSE, attempt[q])
    BY <1>0, <2>1, <2>3, LeaveCovers
  <2>. QED
    BY <2>2, <2>3
<1>4. ASSUME NEW q \in Queries, PollFails(q) \/ Abandon(q) PROVE NothingRunsForNobody'
  <2>1. PICK how \in {"failed", "cancelled"} : Leave(q, how)
    BY <1>4 DEF PollFails, Abandon
  <2>2. Unheard(q) \/ UNCHANGED <<statements, strays>>
    BY <1>4 DEF PollFails, Abandon, serverVars
  <2>. QED
    BY <1>0, <2>1, <2>2, LeaveCovers
<1>5. ASSUME NEW q \in Queries, Terminates(q) PROVE NothingRunsForNobody'
  <2>1. /\ statements[inFlight[q]].state # "running"
        /\ UNCHANGED <<statements, cancels, strays>>
    BY <1>5 DEF Terminates, Polled, Terminal, serverVars
  <2>2. \A p \in Queries : inFlight'[p] = IF p = q THEN None ELSE inFlight[p]
    BY <1>5 DEF Terminates, TypeOK
  <2>. QED
    BY <1>0, <2>1, <2>2 DEF NothingRunsForNobody
<1>6. ASSUME Closes \/ UNCHANGED vars PROVE NothingRunsForNobody'
  <2>1. UNCHANGED <<statements, inFlight, cancels>> /\ strays \subseteq strays'
    BY <1>6 DEF Closes, CloseAll, DiscountAll, DeleteDrained, CancelClose, vars, queryVars, serverVars, cleanVars, closeVars
  <2>. QED
    BY <2>1, CoverKept
<1>7. ASSUME NEW i \in DOMAIN statements, ServerFinishes(i) \/ CancelArrives(i) PROVE NothingRunsForNobody'
  <2>1. /\ DOMAIN statements' = DOMAIN statements
        /\ \A j \in DOMAIN statements :
             /\ statements'[j].query = statements[j].query
             /\ statements'[j].state = "running" => statements[j].state = "running"
    <3>1. statements' = statements \/ \E state \in Terminal : SetState(i, state)
      BY <1>7 DEF ServerFinishes, CancelArrives, Terminal
    <3>2. ASSUME NEW state \in Terminal, SetState(i, state)
          PROVE  /\ DOMAIN statements' = DOMAIN statements
                 /\ \A j \in DOMAIN statements :
                      /\ statements'[j].query = statements[j].query
                      /\ statements'[j].state = "running" => statements[j].state = "running"
      BY <3>2, EndedOne DEF Terminal
    <3>. QED
      BY <3>1, <3>2
  <2>2. UNCHANGED inFlight /\ strays \subseteq strays'
    BY <1>7 DEF ServerFinishes, CancelArrives, Stray, queryVars, cleanVars, closeVars
  <2>3. \A j \in cancels : \/ j \in cancels' \/ [kind |-> "statement", of |-> j] \in strays'
                           \/ statements'[j].state # "running"
    <3>1. CASE ServerFinishes(i)
      BY <3>1 DEF ServerFinishes, cleanVars, closeVars
    <3>2. CASE CancelArrives(i)
      <4>1. statements'[i].state # "running" \/ [kind |-> "statement", of |-> i] \in strays'
        <5>1. CASE SetState(i, "failed")
          BY <5>1, EndedOne DEF Terminal
        <5>2. CASE statements[i].state # "running" /\ UNCHANGED statements
          BY <5>2
        <5>3. CASE Stray("statement", i)
          BY <5>3 DEF Stray
        <5>. QED
          BY <3>2, <5>1, <5>2, <5>3 DEF CancelArrives
      <4>. QED
        BY <3>2, <4>1 DEF CancelArrives
    <3>. QED
      BY <1>7, <3>1, <3>2
  <2>. QED
    BY <2>1, <2>2, <2>3 DEF NothingRunsForNobody
<1>. QED
  BY <1>1, <1>2, <1>3, <1>4, <1>5, <1>6, <1>7
  DEF Next, Step, FallBack, StatementFailed, AnswerExternal, AnswerInline, InlineUnusable

\* A statement that runs for nobody has a cancel request on its way, unless its
\* id never arrived or the request has failed.
THEOREM RunnersAreLookedAfter == Spec => []NothingRunsForNobody
<1>1. Init => NothingRunsForNobody
  BY DEF Init, NothingRunsForNobody
<1>2. TypeOK /\ OnceInv /\ NothingRunsForNobody /\ [Next]_vars => NothingRunsForNobody'
  BY CoverStep
<1>. QED
  BY <1>1, <1>2, OnceAlways, PTL DEF Spec

-----------------------------------------------------------------------------
(* Where a session is                                                       *)

\* Drained, and not yet sent its deletion.
Closing == SessionsIn(closeList) \cup toDelete

\* A session is in one place: on one stack, with one query, drained or deleted.
Apart ==
  /\ StacksApart
  /\ \A p, q \in Queries : session[p] = session[q] /\ session[p] # None => p = q
  /\ \A q \in Queries : session[q] \notin Parked \cup Closing \cup deleted
  /\ Parked \cap Closing = {} /\ Parked \cap deleted = {} /\ Closing \cap deleted = {}

\* Only sessions that were created are anywhere.
Known ==
  /\ Parked \cup Closing \cup deleted \subseteq 1..sessions
  /\ \A q \in Queries : session[q] \in 0..sessions
  /\ \A i \in DOMAIN statements : statements[i].session \in 0..sessions

\* Left to the server.
LeftBehind(s) ==
  \/ [kind |-> "session", of |-> s] \in strays
  \/ closer = "cancelled" /\ [kind |-> "undeleted", of |-> s] \in strays

\* And all of those are somewhere.
Accounted ==
  \A s \in 1..sessions :
    \/ s \in deleted \/ LeftBehind(s)
    \/ s \in Parked \cup Closing
    \/ \E q \in Queries : session[q] = s

\* A query holds a session from the checkout to the end of the polling only.
HoldsWhile(q) == session[q] # None => phase[q] \in {"submitting", "polling"}

PlaceInv ==
  /\ Apart /\ Known /\ Accounted
  /\ \A q \in Queries : HoldsWhile(q)
  /\ closer # "drained" => closeList = NothingDrained
  /\ closer # "deleting" => toDelete = {}

\* A session that was left behind stays so.
LEMMA LeftStays ==
  ASSUME strays \subseteq strays', closer' = closer \/ closer # "cancelled"
  PROVE  \A s : LeftBehind(s) => LeftBehind(s)'
BY DEF LeftBehind

\* The sessions in the pool, drained and deleted are sessions, and None is none.
LEMMA PlacesAreSessions ==
  ASSUME TypeOK
  PROVE  /\ Parked \subseteq Sessions /\ Closing \subseteq Sessions /\ deleted \subseteq Sessions
         /\ None \notin Sessions
         /\ Sessions \subseteq Nat /\ sessions \in Nat
         /\ \A q \in Queries : session[q] \in Nat
<1>1. idle \in [Keys -> Seq(Sessions)] /\ closeList \in [Keys -> Seq(Sessions)]
  BY DEF TypeOK
<1>2. Parked \subseteq Sessions /\ Closing \subseteq Sessions
  BY <1>1, DiscountTypes, PoolIsTyped DEF Parked, Closing, TypeOK
<1>. QED
  BY <1>2 DEF TypeOK, Sessions, None

\* At the start the warm sessions are idle, and there are no others.
LEMMA PlaceInit == Init => PlaceInv
<1>. SUFFICES ASSUME Init PROVE PlaceInv
  OBVIOUS
<1>1. /\ Parked = 1..sessions /\ sessions \in Nat
      /\ Closing = {} /\ deleted = {} /\ statements = <<>>
  <2>1. idle = Warm /\ sessions = Cardinality(SessionsIn(Warm))
    BY DEF Init
  <2>2. SessionsIn(Warm) = 1..Cardinality(SessionsIn(Warm))
    BY WarmAssumption
  <2>3. Parked = SessionsIn(Warm)
    BY <2>1 DEF Parked
  <2>4. sessions \in Nat
    BY TypeInit DEF TypeOK
  <2>5. closeList = NothingDrained /\ toDelete = {} /\ deleted = {} /\ statements = <<>>
    BY DEF Init
  <2>6. Closing = {}
    BY <2>5, NothingSwept DEF Closing
  <2>. HIDE DEF Init
  <2>7. Parked = 1..sessions
    BY <2>1, <2>2, <2>3, Zenon
  <2>. QED
    BY <2>4, <2>5, <2>6, <2>7
<1>2. \A q \in Queries : session[q] = None
  BY DEF Init
<1>3. StacksApart
  BY WarmAssumption DEF Init, StacksApart
<1>4. Apart /\ Known /\ Accounted
  BY <1>1, <1>2, <1>3 DEF Apart, Known, Accounted, None
<1>. QED
  BY <1>2, <1>4 DEF PlaceInv, HoldsWhile, Init

\* A step that moves no session.
LEMMA PlaceKept ==
  ASSUME PlaceInv, UNCHANGED <<session, idle, closer, closeList, toDelete, deleted>>,
         \/ sessions' = sessions
         \/ sessions' = sessions + 1 /\ [kind |-> "session", of |-> sessions'] \in strays',
         TypeOK, strays \subseteq strays',
         \A i \in DOMAIN statements' : statements'[i].session \in 0..sessions
  PROVE  Apart' /\ Known' /\ Accounted'
<1>1. sessions \in Nat
  BY PlacesAreSessions
<1>2. /\ session' = session /\ deleted' = deleted
      /\ Parked' = Parked /\ Closing' = Closing /\ (StacksApart <=> StacksApart')
  <2>1. Parked' = Parked
    BY Zenon DEF Parked, SessionsIn
  <2>2. Closing' = Closing
    BY Zenon DEF Closing, SessionsIn
  <2>3. StacksApart <=> StacksApart'
    BY Zenon DEF StacksApart
  <2>. QED
    BY <2>1, <2>2, <2>3
<1>3. Apart'
  BY <1>2, Zenon DEF PlaceInv, Apart
<1>4. Known'
  <2>1. 0..sessions \subseteq 0..sessions' /\ 1..sessions \subseteq 1..sessions'
    BY <1>1
  <2>2. Parked' \cup Closing' \cup deleted' \subseteq 1..sessions'
    BY <1>2, <2>1, Zenon DEF PlaceInv, Known
  <2>3. \A q \in Queries : session'[q] \in 0..sessions'
    BY <1>2, <2>1, Zenon DEF PlaceInv, Known
  <2>4. \A i \in DOMAIN statements' : statements'[i].session \in 0..sessions'
    BY <2>1, Zenon
  <2>. QED
    BY <2>2, <2>3, <2>4 DEF Known
<1>5. Accounted'
  <2>1. ASSUME NEW s \in 1..sessions', s \notin 1..sessions
        PROVE  LeftBehind(s)'
    <3>1. s = sessions' /\ sessions' = sessions + 1
      BY <1>1, <2>1
    <3>. QED
      BY <1>1, <3>1 DEF LeftBehind
  <2>2. ASSUME NEW s \in 1..sessions
        PROVE  \/ s \in deleted' \/ LeftBehind(s)'
               \/ s \in Parked' \cup Closing'
               \/ \E q \in Queries : session'[q] = s
    <3>1. \A t : LeftBehind(t) => LeftBehind(t)'
      BY LeftStays
    <3>. QED
      BY <1>2, <2>2, <3>1, Zenon DEF PlaceInv, Accounted
  <2>. QED
    BY <2>1, <2>2, Zenon DEF Accounted
<1>. QED
  BY <1>3, <1>4, <1>5

\* A session that is given back goes to its stack, or is deleted.
LEMMA PlaceGivenBack ==
  ASSUME TypeOK, PlaceInv, NEW q \in Queries, NEW ok \in BOOLEAN, GiveBack(q, ok),
         UNCHANGED <<closer, closeList, toDelete, sessions>>, strays \subseteq strays',
         \A i \in DOMAIN statements' : statements'[i].session \in 0..sessions
  PROVE  Apart' /\ Known' /\ Accounted'
<1>1. /\ \A p \in Queries : session'[p] = IF p = q THEN None ELSE session[p]
      /\ Closing' = Closing
      /\ KeyOf[q] \in Keys
  <2>1. Closing' = Closing
    BY Zenon DEF Closing, SessionsIn
  <2>. QED
    BY <2>1, StatementAssumption DEF GiveBack, TypeOK
<1>2. CASE session[q] = None
  <2>1. UNCHANGED <<idle, deleted, closer, closeList, toDelete, sessions>>
    BY <1>2 DEF GiveBack, poolVars
  <2>2. session' = session
    BY <1>2 DEF GiveBack, TypeOK
  <2>. QED
    BY <2>1, <2>2, PlaceKept
<1>. DEFINE s == session[q]
<1>3. ASSUME s # None
      PROVE  /\ s \in Sessions /\ s \notin Parked /\ s <= sessions
             /\ s \notin Closing /\ s \notin deleted
             /\ Checkin(KeyOf[q], s, ok)
             /\ deleted' = IF ok THEN deleted ELSE deleted \cup {s}
  BY <1>3 DEF GiveBack, TypeOK, PlaceInv, Apart, Known
<1>4. ASSUME s # None
      PROVE  /\ StacksApart'
             /\ Parked' = IF ok THEN Parked \cup {s} ELSE Parked
  <2>1. CASE ok
    <3>1. Put(KeyOf[q], s)
      BY <1>3, <1>4, <2>1 DEF Checkin
    <3>. QED
      BY <1>1, <1>3, <1>4, <2>1, <3>1, PutParked, PoolIsTyped DEF PlaceInv, Apart
  <2>2. CASE ~ok
    <3>1. idle' = idle
      BY <1>3, <1>4, <2>2 DEF Checkin
    <3>. QED
      BY <2>2, <3>1 DEF PlaceInv, Apart, StacksApart, Parked, SessionsIn
  <2>. QED
    BY <2>1, <2>2
<1>5. CASE s # None
  <2>. HIDE DEF s
  <2>1. Apart'
    BY <1>1, <1>3, <1>4, <1>5, PlacesAreSessions DEF PlaceInv, Apart, s
  <2>2. Known'
    BY <1>1, <1>3, <1>4, <1>5, PlacesAreSessions DEF PlaceInv, Known, None
  <2>3. Accounted'
    <3>1. \A t : LeftBehind(t) => LeftBehind(t)'
      BY LeftStays
    <3>. QED
      BY <1>1, <1>3, <1>4, <1>5, <3>1 DEF PlaceInv, Accounted, s
  <2>. QED
    BY <2>1, <2>2, <2>3
<1>. QED
  BY <1>2, <1>5

\* A statement runs on a session that was created, if on any.
LEMMA StatementSessions ==
  ASSUME TypeOK, Known, [Next]_vars
  PROVE  \A i \in DOMAIN statements' : statements'[i].session \in 0..sessions
<1>1. ASSUME NEW q \in Queries, Accept(q)
      PROVE  \A i \in DOMAIN statements' : statements'[i].session \in 0..sessions
  <2>1. statements'[Len(statements')] =
          [query |-> q, session |-> session[q], inline |-> inline[q], state |-> "running"]
    BY <1>1, Accepted
  <2>2. statements'[Len(statements')].session \in 0..sessions
    BY <2>1 DEF Known
  <2>3. /\ DOMAIN statements' = DOMAIN statements \cup {Len(statements')}
        /\ \A i \in DOMAIN statements : statements'[i] = statements[i]
    BY <1>1, Accepted
  <2>. QED
    BY <2>2, <2>3 DEF Known
<1>2. ASSUME NEW i \in DOMAIN statements, ServerFinishes(i) \/ CancelArrives(i)
      PROVE  \A j \in DOMAIN statements' : statements'[j].session \in 0..sessions
  <2>1. statements' = statements \/ \E state \in Terminal : SetState(i, state)
    BY <1>2 DEF ServerFinishes, CancelArrives, Terminal
  <2>. QED
    BY <2>1, EndedOne DEF Known
<1>3. ASSUME Closes \/ UNCHANGED vars PROVE UNCHANGED statements
  BY <1>3 DEF Closes, CloseAll, DiscountAll, DeleteDrained, CancelClose, vars, serverVars
<1>4. ASSUME UNCHANGED statements
      PROVE  \A i \in DOMAIN statements' : statements'[i].session \in 0..sessions
  BY <1>4 DEF Known
<1>. QED
  BY <1>1, <1>2, <1>3, <1>4, AcceptsOwn DEF Next

\* The pool hands out the top of a stack, and nobody else has it.
LEMMA PlaceTaken ==
  ASSUME TypeOK, PlaceInv, NEW q \in Queries, TakeIdle(q)
  PROVE  Apart' /\ Known' /\ Accounted'
<1>. DEFINE s == TopIdle(KeyOf[q])
<1>1. /\ StacksApart' /\ s \in Parked /\ Parked' = Parked \ {s}
  <2>1. KeyOf[q] \in Keys
    BY StatementAssumption
  <2>. QED
    BY <2>1, TakeParked, PoolIsTyped DEF TakeIdle, PlaceInv, Apart
<1>2. /\ \A p \in Queries : session'[p] = IF p = q THEN s ELSE session[p]
      /\ session[q] = None
      /\ UNCHANGED <<statements, sessions, deleted, strays, closer, closeList, toDelete>>
  BY DEF TakeIdle, Hold, TypeOK, PlaceInv, HoldsWhile, serverVars, cleanVars, closeVars
<1>3. Closing' = Closing
  BY <1>2, Zenon DEF Closing, SessionsIn
<1>. HIDE DEF s
<1>4. Apart'
  BY <1>1, <1>2, <1>3 DEF PlaceInv, Apart
<1>5. Known'
  <2>1. s \in 0..sessions
    <3>1. s \in 1..sessions /\ sessions \in Nat
      BY <1>1, PlacesAreSessions DEF PlaceInv, Known
    <3>. QED
      BY <3>1
  <2>2. \A p \in Queries : session'[p] \in 0..sessions
    BY <1>2, <2>1 DEF PlaceInv, Known
  <2>3. Parked' \cup Closing' \cup deleted' \subseteq 1..sessions
    BY <1>1, <1>2, <1>3, Zenon DEF PlaceInv, Known
  <2>. QED
    BY <1>2, <2>2, <2>3 DEF PlaceInv, Known
<1>6. Accounted'
  <2>1. \A t \in 1..sessions : t # None
    BY DEF None
  <2>2. ASSUME NEW t \in 1..sessions
        PROVE  \/ t \in deleted' \/ LeftBehind(t)'
               \/ t \in Parked' \cup Closing'
               \/ \E p \in Queries : session'[p] = t
    <3>1. CASE t \in Parked
      BY <1>1, <1>2, <3>1
    <3>2. CASE \E p \in Queries : session[p] = t
      <4>1. PICK p \in Queries : session[p] = t
        BY <3>2
      <4>2. session'[p] = t
        BY <1>2, <2>1, <4>1
      <4>. QED
        BY <4>2
    <3>. QED
      BY <1>2, <1>3, <3>1, <3>2, LeftStays DEF PlaceInv, Accounted
  <2>. QED
    BY <1>2, <2>2 DEF Accounted
<1>. QED
  BY <1>4, <1>5, <1>6

\* A session that is created is the query's that asked for it.
LEMMA PlaceCreated ==
  ASSUME TypeOK, PlaceInv, NEW q \in Queries, CreateSession(q)
  PROVE  Apart' /\ Known' /\ Accounted'
<1>1. /\ sessions' = sessions + 1 /\ sessions \in Nat
      /\ \A p \in Queries : session'[p] = IF p = q THEN sessions' ELSE session[p]
      /\ session[q] = None
      /\ UNCHANGED <<statements, idle, deleted, strays, closer, closeList, toDelete>>
  <2>1. UNCHANGED <<statements, idle, deleted, strays, closer, closeList, toDelete>> /\ sessions' = sessions + 1
    BY DEF CreateSession, cleanVars, closeVars, poolVars
  <2>2. sessions \in Nat
    BY PlacesAreSessions
  <2>3. session' = [session EXCEPT ![q] = sessions'] /\ phase[q] = "creating"
    BY DEF CreateSession, Hold
  <2>4. session[q] = None
    BY <2>3 DEF PlaceInv, HoldsWhile
  <2>5. \A p \in Queries : session'[p] = IF p = q THEN sessions' ELSE session[p]
    BY <2>3 DEF TypeOK
  <2>. QED
    BY <2>1, <2>2, <2>4, <2>5
<1>2. /\ Closing' = Closing /\ Parked' = Parked /\ (StacksApart <=> StacksApart')
  <2>1. Parked' = Parked
    BY <1>1, Zenon DEF Parked, SessionsIn
  <2>2. Closing' = Closing
    BY <1>1, Zenon DEF Closing, SessionsIn
  <2>3. StacksApart <=> StacksApart'
    BY <1>1, Zenon DEF StacksApart
  <2>. QED
    BY <2>1, <2>2, <2>3
<1>3. /\ sessions' \notin 0..sessions /\ sessions' \in 1..sessions' /\ sessions' # None
      /\ 0..sessions \subseteq 0..sessions' /\ 1..sessions \subseteq 1..sessions'
      /\ 1..sessions \subseteq 0..sessions /\ 1..sessions' \subseteq 0..sessions'
      /\ \A s \in 1..sessions' : s \in 1..sessions \/ s = sessions'
  BY <1>1 DEF None
<1>4. Apart'
  <2>. DEFINE new == sessions'
  <2>1. /\ new \notin Parked \cup Closing \cup deleted /\ new # None
        /\ \A p \in Queries : session[p] # new
        /\ \A p \in Queries : session'[p] = IF p = q THEN new ELSE session[p]
    BY <1>1, <1>3 DEF PlaceInv, Known
  <2>2. deleted' = deleted
    BY <1>1
  <2>. HIDE DEF new
  <2>. QED
    BY <1>2, <2>1, <2>2 DEF PlaceInv, Apart
<1>5. Known'
  <2>1. Parked' \cup Closing' \cup deleted' \subseteq 1..sessions'
    <3>1. Parked' \cup Closing' \cup deleted' \subseteq 1..sessions
      BY <1>1, <1>2, Zenon DEF PlaceInv, Known
    <3>. QED
      BY <1>3, <3>1, Zenon
  <2>2. \A p \in Queries : session'[p] \in 0..sessions'
    BY <1>1, <1>3, Zenon DEF PlaceInv, Known
  <2>3. \A i \in DOMAIN statements' : statements'[i].session \in 0..sessions'
    BY <1>1, <1>3, Zenon DEF PlaceInv, Known
  <2>. QED
    BY <2>1, <2>2, <2>3 DEF Known
<1>6. Accounted'
  <2>1. \A t \in 1..sessions : t # None
    BY DEF None
  <2>2. ASSUME NEW t \in 1..sessions
        PROVE  \/ t \in deleted' \/ LeftBehind(t)'
               \/ t \in Parked' \cup Closing'
               \/ \E p \in Queries : session'[p] = t
    <3>1. ASSUME NEW p \in Queries, session[p] = t PROVE session'[p] = t
      <4>1. p # q
        BY <1>1, <2>1, <3>1
      <4>. QED
        BY <1>1, <3>1, <4>1, Zenon
    <3>2. LeftBehind(t) => LeftBehind(t)'
      BY <1>1, LeftStays
    <3>. QED
      BY <1>1, <1>2, <3>1, <3>2, Zenon DEF PlaceInv, Accounted
  <2>3. \E p \in Queries : session'[p] = sessions'
    BY <1>1, Zenon
  <2>. QED
    BY <1>3, <2>2, <2>3, Zenon DEF Accounted
<1>. QED
  BY <1>4, <1>5, <1>6

\* close_all_sessions takes the idle sessions, ...
LEMMA PlaceDrained ==
  ASSUME TypeOK, PlaceInv, CloseAll
  PROVE  Apart' /\ Known' /\ Accounted'
<1>1. /\ closeList' = Drained(Keys) /\ RemoveIdle(Keys)
      /\ UNCHANGED <<statements, sessions, session, deleted, toDelete, strays>>
      /\ closer = "idle"
  BY DEF CloseAll, serverVars, queryVars
<1>2. /\ StacksApart' /\ SessionsIn(Drained(Keys)) \subseteq Parked
      /\ Parked' = Parked \ SessionsIn(Drained(Keys))
  BY <1>1, RemoveParked, PoolIsTyped DEF PlaceInv, Apart
<1>3. Closing = {} /\ Closing' = SessionsIn(Drained(Keys))
  <2>1. closeList = NothingDrained /\ toDelete = {}
    BY <1>1 DEF PlaceInv
  <2>2. Closing = {}
    BY <2>1, NothingSwept DEF Closing
  <2>3. SessionsIn(closeList)' = SessionsIn(Drained(Keys))
    BY <1>1, Zenon DEF SessionsIn
  <2>4. Closing' = SessionsIn(Drained(Keys))
    BY <1>1, <2>1, <2>3 DEF Closing
  <2>. QED
    BY <2>2, <2>4
<1>4. Parked' \cup Closing' = Parked /\ Parked' \cap Closing' = {}
  BY <1>2, <1>3
<1>5. Apart'
  BY <1>1, <1>2, <1>3, <1>4 DEF PlaceInv, Apart
<1>6. Known'
  BY <1>1, <1>3, <1>4 DEF PlaceInv, Known
<1>7. Accounted'
  <2>1. \A s : LeftBehind(s) => LeftBehind(s)'
    BY <1>1, LeftStays
  <2>. QED
    BY <1>1, <1>3, <1>4, <2>1 DEF PlaceInv, Accounted
<1>. QED
  BY <1>5, <1>6, <1>7

\* ... stops counting them, deletes them one by one ...
LEMMA PlaceDiscounted ==
  ASSUME TypeOK, PlaceInv, DiscountAll \/ \E s \in Sessions : DeleteDrained(s)
  PROVE  Apart' /\ Known' /\ Accounted'
<1>1. /\ UNCHANGED <<statements, sessions, session, idle, strays>>
      /\ closer # "cancelled" /\ deleted \subseteq deleted'
  BY DEF DiscountAll, DeleteDrained, serverVars, queryVars, poolVars
<1>2. Closing' \cap deleted' = {} /\ Closing' \cup deleted' = Closing \cup deleted
  <2>1. CASE DiscountAll
    <3>1. toDelete = {} /\ toDelete' = SessionsIn(closeList) /\ closeList' = NothingDrained
          /\ deleted' = deleted
      BY <2>1 DEF DiscountAll, PlaceInv
    <3>2. SessionsIn(closeList)' = {}
      <4>1. SessionsIn(closeList)' = SessionsIn(NothingDrained)
        BY <3>1, Zenon DEF SessionsIn, NothingDrained
      <4>. QED
        BY <4>1, NothingSwept
    <3>. QED
      BY <3>1, <3>2 DEF Closing, PlaceInv, Apart
  <2>2. ASSUME NEW s \in Sessions, DeleteDrained(s)
        PROVE  Closing' \cap deleted' = {} /\ Closing' \cup deleted' = Closing \cup deleted
    <3>1. /\ s \in toDelete /\ toDelete' = toDelete \ {s} /\ deleted' = deleted \cup {s}
          /\ closeList' = closeList /\ closeList = NothingDrained
      BY <2>2 DEF DeleteDrained, PlaceInv
    <3>2. SessionsIn(closeList) = {} /\ SessionsIn(closeList)' = {}
      <4>1. SessionsIn(closeList)' = SessionsIn(closeList)
        BY <3>1, Zenon DEF SessionsIn
      <4>2. SessionsIn(closeList) = {}
        BY <3>1, NothingSwept
      <4>. QED
        BY <4>1, <4>2
    <3>. QED
      BY <3>1, <3>2 DEF Closing, PlaceInv, Apart
  <2>. QED
    BY <2>1, <2>2
<1>3. Parked' = Parked /\ (StacksApart <=> StacksApart')
  <2>1. Parked' = Parked
    BY <1>1, Zenon DEF Parked, SessionsIn
  <2>2. StacksApart <=> StacksApart'
    BY <1>1, Zenon DEF StacksApart
  <2>. QED
    BY <2>1, <2>2
<1>4. Apart'
  BY <1>1, <1>2, <1>3 DEF PlaceInv, Apart
<1>5. Known'
  BY <1>1, <1>2, <1>3 DEF PlaceInv, Known
<1>6. Accounted'
  <2>1. \A s : LeftBehind(s) => LeftBehind(s)'
    BY <1>1, LeftStays
  <2>. QED
    BY <1>1, <1>2, <1>3, <2>1 DEF PlaceInv, Accounted
<1>. QED
  BY <1>4, <1>5, <1>6

\* ... and leaves behind what it has not come to when it is cancelled.
LEMMA PlaceLeft ==
  ASSUME TypeOK, PlaceInv, CancelClose
  PROVE  Apart' /\ Known' /\ Accounted'
<1>1. /\ UNCHANGED <<statements, sessions, session, idle, deleted, closeList>>
      /\ toDelete' = {} /\ strays' = strays \cup [kind : {"undeleted"}, of : toDelete]
      /\ closer = "deleting" /\ closer' = "cancelled"
  BY DEF CancelClose, serverVars, queryVars, poolVars
<1>2. Closing = toDelete /\ Closing' = {}
  <2>1. SessionsIn(closeList)' = SessionsIn(closeList)
    BY <1>1, Zenon DEF SessionsIn
  <2>2. SessionsIn(closeList) = {}
    BY <1>1, NothingSwept DEF PlaceInv
  <2>. QED
    BY <1>1, <2>1, <2>2 DEF Closing
<1>3. Parked' = Parked /\ (StacksApart <=> StacksApart')
  <2>1. Parked' = Parked
    BY <1>1, Zenon DEF Parked, SessionsIn
  <2>2. StacksApart <=> StacksApart'
    BY <1>1, Zenon DEF StacksApart
  <2>. QED
    BY <2>1, <2>2
<1>4. Apart'
  BY <1>1, <1>2, <1>3 DEF PlaceInv, Apart
<1>5. Known'
  BY <1>1, <1>2, <1>3 DEF PlaceInv, Known
<1>6. Accounted'
  <2>1. \A s : LeftBehind(s) => LeftBehind(s)'
    BY <1>1, LeftStays
  <2>2. \A s \in toDelete : LeftBehind(s)'
    BY <1>1 DEF LeftBehind
  <2>. QED
    BY <1>1, <1>2, <1>3, <2>1, <2>2 DEF PlaceInv, Accounted
<1>. QED
  BY <1>4, <1>5, <1>6

\* Every step keeps each session in one place, and knows where it is.
LEMMA PlaceStep == TypeOK /\ OnceInv /\ PlaceInv /\ [Next]_vars => PlaceInv'
<1>. SUFFICES ASSUME TypeOK, OnceInv, PlaceInv, [Next]_vars PROVE PlaceInv'
  OBVIOUS
<1>. DEFINE Places == Apart' /\ Known' /\ Accounted'
<1>0. \A i \in DOMAIN statements' : statements'[i].session \in 0..sessions
  BY StatementSessions DEF PlaceInv
<1>1. ASSUME NEW q \in Queries, Ensure(q) \/ ReserveSlot(q) \/ CreateFails(q) \/ Submit(q) PROVE Places
  <2>1. UNCHANGED <<session, idle, closer, closeList, toDelete, deleted>>
    BY <1>1 DEF Ensure, ReserveSlot, CreateFails, Submit, poolVars, queryVars, cleanVars, closeVars
  <2>2. /\ strays \subseteq strays'
        /\ \/ sessions' = sessions
           \/ sessions' = sessions + 1 /\ [kind |-> "session", of |-> sessions'] \in strays'
    BY <1>1
    DEF Ensure, ReserveSlot, CreateFails, Submit, MayStraySession, Stray, serverVars, cleanVars, closeVars
  <2>. QED
    BY <1>0, <2>1, <2>2, PlaceKept
<1>2. ASSUME NEW q \in Queries, NEW ok \in BOOLEAN, GiveBack(q, ok),
             UNCHANGED <<closer, closeList, toDelete, sessions>>, strays \subseteq strays'
      PROVE  Places
  BY <1>0, <1>2, PlaceGivenBack
<1>3. ASSUME NEW q \in Queries, SubmitFails(q) \/ PollFails(q) \/ Abandon(q) PROVE Places
  <2>1. UNCHANGED <<closer, closeList, toDelete, sessions>>
    BY <1>3 DEF SubmitFails, PollFails, Abandon, serverVars, closeVars
  <2>2. strays \subseteq strays'
    BY <1>3 DEF SubmitFails, PollFails, Abandon, Unheard, Stray
  <2>3. \/ \E how : Leave(q, how)
        \/ UNCHANGED <<session, poolVars, deleted>>
    BY <1>3, Zenon DEF SubmitFails, PollFails, Abandon
  <2>4. CASE \E how : Leave(q, how)
    <3>1. GiveBack(q, FALSE)
      BY <2>4 DEF Leave
    <3>. QED
      BY <1>2, <2>1, <2>2, <3>1
  <2>5. CASE UNCHANGED <<session, poolVars, deleted>>
    <3>1. UNCHANGED <<session, idle, closer, closeList, toDelete, deleted>> /\ sessions' = sessions
      BY <2>1, <2>5 DEF poolVars
    <3>. QED
      BY <1>0, <2>2, <3>1, PlaceKept
  <2>. QED
    BY <2>3, <2>4, <2>5
<1>4. ASSUME NEW q \in Queries, Terminates(q) PROVE Places
  <2>1. /\ GiveBack(q, Polled(q).state = "succeeded")
        /\ UNCHANGED <<closer, closeList, toDelete, sessions, strays>>
    BY <1>4 DEF Terminates, serverVars, closeVars
  <2>2. (Polled(q).state = "succeeded") \in BOOLEAN
    OBVIOUS
  <2>. QED
    BY <1>2, <2>1, <2>2
<1>5. ASSUME NEW q \in Queries, TakeIdle(q) \/ CreateSession(q) PROVE Places
  BY <1>5, PlaceTaken, PlaceCreated
<1>6. ASSUME Closes PROVE Places
  BY <1>6, PlaceDrained, PlaceDiscounted, PlaceLeft DEF Closes
<1>7. ASSUME NEW i \in DOMAIN statements, ServerFinishes(i) \/ CancelArrives(i) PROVE Places
  <2>1. UNCHANGED <<session, idle, closer, closeList, toDelete, deleted>> /\ sessions' = sessions /\ strays \subseteq strays'
    BY <1>7 DEF ServerFinishes, CancelArrives, Stray, poolVars, queryVars, cleanVars, closeVars
  <2>. QED
    BY <1>0, <2>1, PlaceKept
<1>8. ASSUME UNCHANGED vars PROVE Places
  <2>1. UNCHANGED <<session, idle, closer, closeList, toDelete, deleted>> /\ sessions' = sessions /\ strays' = strays
    BY <1>8 DEF vars, poolVars, queryVars, serverVars, cleanVars, closeVars
  <2>. QED
    BY <1>0, <2>1, PlaceKept
<1>9. Places
  <2>. HIDE DEF Places
  <2>. QED
    BY <1>1, <1>3, <1>4, <1>5, <1>6, <1>7, <1>8
    DEF Next, Step, FallBack, StatementFailed, AnswerExternal, AnswerInline, InlineUnusable
<1>10. \A q \in Queries : HoldsWhile(q)'
  <2>. SUFFICES ASSUME NEW r \in Queries PROVE HoldsWhile(r)'
    OBVIOUS
  <2>1. HoldsWhile(r)
    BY DEF PlaceInv
  <2>2. ASSUME UNCHANGED <<phase[r], session[r]>> PROVE HoldsWhile(r)'
    BY <2>1, <2>2 DEF HoldsWhile
  <2>3. ASSUME NEW how, Leave(r, how) PROVE session'[r] = None
    BY <2>3 DEF Leave, GiveBack, TypeOK
  <2>4. ASSUME Step(r) \/ Abandon(r) PROVE HoldsWhile(r)'
    <3>. USE DEF MoveTo, HoldsWhile, TypeOK
    <3>1. CASE Ensure(r) \/ ReserveSlot(r) \/ CreateFails(r)
      BY <2>1, <3>1 DEF Ensure, ReserveSlot, CreateFails, queryVars
    <3>2. CASE TakeIdle(r) \/ CreateSession(r) \/ Submit(r)
      <4>1. phase'[r] \in {"submitting", "polling"}
        BY <3>2 DEF TakeIdle, CreateSession, Submit
      <4>. QED
        BY <4>1
    <3>3. CASE SubmitFails(r)
      BY <2>2, <2>3, <3>3 DEF SubmitFails
    <3>4. CASE PollFails(r) \/ Abandon(r)
      BY <2>3, <3>4 DEF PollFails, Abandon
    <3>5. CASE Terminates(r)
      BY <3>5 DEF Terminates, GiveBack
    <3>. QED
      BY <2>4, <3>1, <3>2, <3>3, <3>4, <3>5
      DEF Step, FallBack, StatementFailed, AnswerExternal, AnswerInline, InlineUnusable
  <2>5. ASSUME NEW q \in Queries, q # r, Step(q) \/ Abandon(q) PROVE HoldsWhile(r)'
    BY <2>2, <2>5, OthersUntouched
  <2>6. ASSUME \/ Closes \/ UNCHANGED vars
               \/ \E i \in DOMAIN statements : ServerFinishes(i) \/ CancelArrives(i)
        PROVE  HoldsWhile(r)'
    BY <2>2, <2>6 DEF Closes, CloseAll, DiscountAll, DeleteDrained, CancelClose, ServerFinishes, CancelArrives, vars, queryVars
  <2>. QED
    BY <2>4, <2>5, <2>6 DEF Next
<1>11. (closer # "drained" => closeList = NothingDrained)' /\ (closer # "deleting" => toDelete = {})'
  <2>1. CASE Closes
    BY <2>1 DEF Closes, CloseAll, DiscountAll, DeleteDrained, CancelClose, PlaceInv, NothingDrained
  <2>2. CASE UNCHANGED closeVars
    BY <2>2 DEF PlaceInv, NothingDrained, closeVars
  <2>3. ASSUME NEW q \in Queries, Step(q) \/ Abandon(q) PROVE UNCHANGED closeVars
    BY <2>3
    DEF Step, Abandon, Ensure, TakeIdle, ReserveSlot, CreateSession, CreateFails, Submit, SubmitFails,
        PollFails, FallBack, StatementFailed, AnswerExternal, AnswerInline, InlineUnusable,
        Terminates, cleanVars
  <2>4. ASSUME NEW i \in DOMAIN statements, ServerFinishes(i) \/ CancelArrives(i)
        PROVE  UNCHANGED closeVars
    BY <2>4 DEF ServerFinishes, CancelArrives, cleanVars
  <2>. QED
    BY <2>1, <2>2, <2>3, <2>4 DEF Next, vars, cleanVars
<1>. QED
  BY <1>9, <1>10, <1>11 DEF PlaceInv

-----------------------------------------------------------------------------
(* One statement on a session                                               *)

RunsOn(i, s) == statements[i].state = "running" /\ statements[i].session = s

\* A session with a running statement is held by the query that polls it, or it
\* has been given up for good; and it has no other.
BusyInv ==
  \A i \in DOMAIN statements, s \in Sessions :
    RunsOn(i, s) =>
      /\ s \in deleted \/ inFlight[statements[i].query] = i
      /\ \A j \in DOMAIN statements : RunsOn(j, s) => j = i

\* The session of a statement that is polled is its query's.
LEMMA BusyIsHeld ==
  ASSUME TypeOK, OnceInv, NEW i \in DOMAIN statements, inFlight[statements[i].query] = i
  PROVE  session[statements[i].query] = statements[i].session /\ phase[statements[i].query] = "polling"
<1>1. i # None /\ statements[i].query \in Queries
  BY Positions
<1>2. Once(statements[i].query)
  BY <1>1 DEF OnceInv
<1>. QED
  BY <1>1, <1>2 DEF Once

\* A session that a query holds between two statements has none running.
LEMMA HeldIsFree ==
  ASSUME TypeOK, OnceInv, PlaceInv, BusyInv, NEW q \in Queries, phase[q] = "submitting",
         NEW i \in DOMAIN statements, NEW s \in Sessions, session[q] = s
  PROVE  ~RunsOn(i, s)
<1>. SUFFICES ASSUME RunsOn(i, s) PROVE FALSE
  OBVIOUS
<1>1. s # None /\ s \notin deleted
  BY PlacesAreSessions DEF PlaceInv, Apart
<1>2. inFlight[statements[i].query] = i
  BY <1>1 DEF BusyInv
<1>3. session[statements[i].query] = s /\ phase[statements[i].query] = "polling"
  BY <1>2, BusyIsHeld DEF RunsOn
<1>4. statements[i].query \in Queries
  BY Positions
<1>5. statements[i].query = q
  BY <1>1, <1>3, <1>4 DEF PlaceInv, Apart
<1>. QED
  BY <1>3, <1>5

\* A step in which statements only end and sessions are only given up.
LEMMA BusyKept ==
  ASSUME BusyInv, deleted \subseteq deleted',
         DOMAIN statements' = DOMAIN statements,
         \A i \in DOMAIN statements :
           /\ statements'[i].session = statements[i].session
           /\ statements'[i].query = statements[i].query
           /\ statements'[i].state = "running" =>
                /\ statements[i].state = "running"
                /\ \/ inFlight'[statements[i].query] = inFlight[statements[i].query]
                   \/ inFlight[statements[i].query] # i
                   \/ statements[i].session \in deleted'
                   \/ statements[i].session = None
  PROVE  BusyInv'
<1>. SUFFICES ASSUME NEW i \in DOMAIN statements, NEW s \in Sessions,
                     statements'[i].state = "running", statements'[i].session = s
              PROVE  /\ s \in deleted' \/ inFlight'[statements'[i].query] = i
                     /\ \A j \in DOMAIN statements :
                          statements'[j].state = "running" /\ statements'[j].session = s => j = i
  BY DEF BusyInv, RunsOn
<1>1. s # None
  BY DEF Sessions, None
<1>2. /\ s \in deleted \/ inFlight[statements[i].query] = i
      /\ \A j \in DOMAIN statements : RunsOn(j, s) => j = i
  BY DEF BusyInv, RunsOn
<1>3. s \in deleted' \/ inFlight'[statements'[i].query] = i
  BY <1>1, <1>2
<1>. QED
  BY <1>2, <1>3 DEF RunsOn

\* A statement is accepted on a session that its query holds: the query polls it,
\* or never hears of it and gives the session up.
LEMMA BusyAccepted ==
  ASSUME TypeOK, OnceInv, PlaceInv, BusyInv, NEW q \in Queries, phase[q] = "submitting", Accept(q),
         deleted \subseteq deleted',
         \A r \in Queries : r # q => inFlight'[r] = inFlight[r],
         inFlight'[q] = Len(statements') \/ session[q] \in deleted' \cup {None}
  PROVE  BusyInv'
<1>. DEFINE new == Len(statements')
<1>1. /\ DOMAIN statements' = DOMAIN statements \cup {new}
      /\ new \notin DOMAIN statements
      /\ \A i \in DOMAIN statements : statements'[i] = statements[i]
      /\ statements'[new] = [query |-> q, session |-> session[q], inline |-> inline[q], state |-> "running"]
  BY Accepted
<1>. HIDE DEF new
<1>2. statements'[new].query = q /\ statements'[new].session = session[q]
  BY <1>1
<1>3. inFlight[q] = None /\ \A i \in DOMAIN statements : i # None /\ statements[i].query \in Queries
  BY Positions DEF OnceInv, Once
<1>4. inFlight'[q] = new \/ session[q] \in deleted' \cup {None}
  BY DEF new
<1>. SUFFICES ASSUME NEW i \in DOMAIN statements', NEW s \in Sessions,
                     statements'[i].state = "running", statements'[i].session = s
              PROVE  /\ s \in deleted' \/ inFlight'[statements'[i].query] = i
                     /\ \A j \in DOMAIN statements' :
                          statements'[j].state = "running" /\ statements'[j].session = s => j = i
  BY DEF BusyInv, RunsOn
<1>5. s # None
  BY DEF Sessions, None
<1>6. ASSUME NEW j \in DOMAIN statements, session[q] = s
      PROVE  ~(statements'[j].state = "running" /\ statements'[j].session = s)
  BY <1>1, <1>6, HeldIsFree DEF RunsOn
<1>7. CASE i = new
  BY <1>1, <1>2, <1>4, <1>5, <1>6, <1>7
<1>8. CASE i \in DOMAIN statements
  <2>1. RunsOn(i, s)
    BY <1>1, <1>8 DEF RunsOn
  <2>2. session[q] # s
    BY <1>6, <1>8
  <2>3. /\ s \in deleted \/ inFlight[statements[i].query] = i
        /\ \A j \in DOMAIN statements : RunsOn(j, s) => j = i
    BY <1>8, <2>1 DEF BusyInv
  <2>4. s \in deleted' \/ inFlight'[statements'[i].query] = i
    BY <1>1, <1>3, <1>8, <2>3
  <2>5. ASSUME NEW j \in DOMAIN statements', statements'[j].state = "running", statements'[j].session = s
        PROVE  j = i
    <3>1. j # new
      BY <1>2, <2>2, <2>5
    <3>. QED
      BY <1>1, <2>3, <2>5, <3>1 DEF RunsOn
  <2>. QED
    BY <2>4, <2>5
<1>. QED
  BY <1>1, <1>7, <1>8

\* Every step keeps the sessions to one running statement.
LEMMA BusyStep == TypeOK /\ OnceInv /\ PlaceInv /\ BusyInv /\ [Next]_vars => BusyInv'
<1>. SUFFICES ASSUME TypeOK, OnceInv, PlaceInv, BusyInv, [Next]_vars PROVE BusyInv'
  OBVIOUS
<1>0. \A i \in DOMAIN statements : i # None /\ statements[i].query \in Queries
  BY Positions
<1>1. ASSUME UNCHANGED <<statements, inFlight>>, deleted \subseteq deleted' PROVE BusyInv'
  BY <1>1, BusyKept
<1>2. ASSUME NEW q \in Queries,
             Ensure(q) \/ TakeIdle(q) \/ ReserveSlot(q) \/ CreateSession(q) \/ CreateFails(q)
      PROVE  BusyInv'
  <2>1. UNCHANGED <<statements, inFlight, deleted>>
    BY <1>2
    DEF Ensure, TakeIdle, ReserveSlot, CreateSession, CreateFails, queryVars, serverVars, cleanVars, closeVars
  <2>. QED
    BY <1>1, <2>1
<1>3. ASSUME NEW q \in Queries, Submit(q) PROVE BusyInv'
  <2>1. phase[q] = "submitting" /\ Accept(q) /\ UNCHANGED deleted
    BY <1>3 DEF Submit, cleanVars, closeVars
  <2>2. \A r \in Queries : inFlight'[r] = IF r = q THEN Len(statements') ELSE inFlight[r]
    BY <1>3 DEF Submit, TypeOK
  <2>. QED
    BY <2>1, <2>2, BusyAccepted
<1>4. ASSUME NEW q \in Queries, NEW ok \in BOOLEAN, GiveBack(q, ok)
      PROVE  deleted \subseteq deleted' /\ (~ok => session[q] \in deleted' \cup {None})
  BY <1>4 DEF GiveBack
<1>5. ASSUME NEW q \in Queries, NEW how, Leave(q, how), phase[q] \in {"submitting", "polling"},
             \/ phase[q] = "submitting" /\ Accept(q)
             \/ UNCHANGED statements
      PROVE  BusyInv'
  <2>1. /\ deleted \subseteq deleted' /\ session[q] \in deleted' \cup {None}
        /\ \A r \in Queries : inFlight'[r] = IF r = q THEN None ELSE inFlight[r]
    BY <1>4, <1>5 DEF Leave, TypeOK
  <2>2. CASE phase[q] = "submitting" /\ Accept(q)
    BY <2>1, <2>2, BusyAccepted
  <2>3. CASE UNCHANGED statements
    <3>1. ASSUME NEW i \in DOMAIN statements, statements[i].query = q, inFlight[q] = i
          PROVE  statements[i].session \in deleted' \cup {None}
      BY <2>1, <3>1, BusyIsHeld
    <3>. QED
      BY <1>0, <2>1, <2>3, <3>1, BusyKept
  <2>. QED
    BY <1>5, <2>2, <2>3
<1>6. ASSUME NEW q \in Queries, SubmitFails(q) PROVE BusyInv'
  <2>1. PICK failure \in R!Failures :
          /\ \/ failure \in R!Ambiguous /\ Unheard(q)
             \/ UNCHANGED <<statements, strays>>
          /\ IF R!Retries(failure, FALSE, attempt[q])
             THEN /\ attempt' = [attempt EXCEPT ![q] = @ + 1]
                  /\ UNCHANGED <<phase, toldVars, poolVars, session, inFlight, cancels, deleted>>
             ELSE Leave(q, "failed") /\ UNCHANGED attempt
    BY <1>6 DEF SubmitFails
  <2>2. phase[q] = "submitting"
    BY <1>6 DEF SubmitFails
  <2>3. CASE R!Retries(failure, FALSE, attempt[q])
    <3>1. failure \notin R!Ambiguous
      BY <2>3 DEF R!Retries, R!Transient, R!Ambiguous
    <3>. QED
      BY <1>1, <2>1, <2>3, <3>1
  <2>4. CASE ~R!Retries(failure, FALSE, attempt[q])
    BY <1>5, <2>1, <2>2, <2>4 DEF Unheard
  <2>. QED
    BY <2>3, <2>4
<1>7. ASSUME NEW q \in Queries, PollFails(q) PROVE BusyInv'
  BY <1>5, <1>7 DEF PollFails, serverVars
<1>8. ASSUME NEW q \in Queries, Abandon(q) PROVE BusyInv'
  BY <1>5, <1>8 DEF Abandon, Unheard
<1>9. ASSUME NEW q \in Queries, Terminates(q) PROVE BusyInv'
  <2>1. GiveBack(q, Polled(q).state = "succeeded") /\ UNCHANGED statements
    BY <1>9 DEF Terminates, serverVars
  <2>2. statements[inFlight[q]].state # "running"
    BY <1>9 DEF Terminates, Polled, Terminal
  <2>3. \A r \in Queries : inFlight'[r] = IF r = q THEN None ELSE inFlight[r]
    BY <1>9 DEF Terminates, TypeOK
  <2>4. deleted \subseteq deleted'
    BY <1>4, <2>1
  <2>. QED
    BY <1>0, <2>1, <2>2, <2>3, <2>4, BusyKept
<1>10. ASSUME Closes \/ UNCHANGED vars PROVE BusyInv'
  <2>1. UNCHANGED <<statements, inFlight>> /\ deleted \subseteq deleted'
    BY <1>10 DEF Closes, CloseAll, DiscountAll, DeleteDrained, CancelClose, vars, queryVars, serverVars, cleanVars, closeVars
  <2>. QED
    BY <1>1, <2>1
<1>11. ASSUME NEW i \in DOMAIN statements, ServerFinishes(i) \/ CancelArrives(i) PROVE BusyInv'
  <2>1. \/ statements[i].state = "running" /\ \E state \in Terminal : SetState(i, state)
        \/ UNCHANGED statements
    BY <1>11 DEF ServerFinishes, CancelArrives, Terminal
  <2>2. UNCHANGED <<inFlight, deleted>>
    BY <1>11 DEF ServerFinishes, CancelArrives, queryVars, cleanVars, closeVars
  <2>3. CASE UNCHANGED statements
    BY <1>1, <2>2, <2>3
  <2>4. CASE statements[i].state = "running" /\ \E state \in Terminal : SetState(i, state)
    <3>1. PICK state \in Terminal : SetState(i, state)
      BY <2>4
    <3>2. state # "running"
      BY DEF Terminal
    <3>. QED
      BY <2>2, <3>1, <3>2, EndedOne, BusyKept
  <2>. QED
    BY <2>1, <2>3, <2>4
<1>. QED
  BY <1>2, <1>3, <1>6, <1>7, <1>8, <1>9, <1>10, <1>11
  DEF Next, Step, FallBack, StatementFailed, AnswerExternal, AnswerInline, InlineUnusable

-----------------------------------------------------------------------------
(* The pool's count                                                         *)

\* The queries that a slot of key k is counted for.
HoldsSlot(q) == phase[q] = "creating" \/ session[q] # None
Slots(k)     == {q \in Queries : KeyOf[q] = k /\ HoldsSlot(q)}
SlotOf(q)    == IF HoldsSlot(q) THEN 1 ELSE 0

CountInv == \A k \in Keys : total[k] = Len(idle[k]) + Len(closeList[k]) + Cardinality(Slots(k))

\* What is counted are numbers, and a slot that is held is counted.
LEMMA CountTypes ==
  ASSUME TypeOK, NEW k \in Keys
  PROVE  /\ IsFiniteSet(Slots(k)) /\ Cardinality(Slots(k)) \in Nat
         /\ Len(idle[k]) \in Nat /\ Len(closeList[k]) \in Nat /\ total[k] \in Nat
         /\ \A q \in Slots(k) : Cardinality(Slots(k)) > 0
<1>1. IsFiniteSet(Slots(k))
  <2>1. Slots(k) \subseteq Queries
    BY DEF Slots
  <2>. QED
    BY <2>1, StatementAssumption, FS_Subset
<1>2. Cardinality(Slots(k)) \in Nat
  BY <1>1, FS_CardinalityType
<1>3. Len(idle[k]) \in Nat /\ Len(closeList[k]) \in Nat /\ total[k] \in Nat
  BY CapAssumption DEF TypeOK
<1>4. ASSUME NEW q \in Slots(k) PROVE Cardinality(Slots(k)) > 0
  <2>1. Cardinality(Slots(k)) # 0
    BY <1>1, <1>4, FS_EmptySet
  <2>. QED
    BY <1>2, <2>1
<1>. QED
  BY <1>1, <1>2, <1>3, <1>4

\* A query's step changes its own slot alone.
LEMMA SlotsChange ==
  ASSUME TypeOK, NEW q \in Queries, NEW k \in Keys,
         \A r \in Queries : r # q => (HoldsSlot(r)' <=> HoldsSlot(r))
  PROVE  Cardinality(Slots(k)') =
           Cardinality(Slots(k)) + (IF k = KeyOf[q] THEN SlotOf(q)' - SlotOf(q) ELSE 0)
<1>1. \A r : /\ r \in Slots(k) <=> r \in Queries /\ HoldsSlot(r) /\ KeyOf[r] = k
             /\ r \in Slots(k)' <=> r \in Queries /\ HoldsSlot(r)' /\ KeyOf[r] = k
  BY DEF Slots
<1>2. IsFiniteSet(Slots(k)) /\ Cardinality(Slots(k)) \in Nat
  BY CountTypes
<1>3. CASE (HoldsSlot(q)' <=> HoldsSlot(q)) \/ k # KeyOf[q]
  <2>1. \A r : r \in Slots(k)' <=> r \in Slots(k)
    BY <1>1, <1>3
  <2>2. Slots(k)' = Slots(k)
    BY <2>1 DEF Slots
  <2>3. k # KeyOf[q] \/ SlotOf(q)' - SlotOf(q) = 0
    BY <1>3 DEF SlotOf
  <2>4. Cardinality(Slots(k)') = Cardinality(Slots(k))
    BY <2>2, Zenon
  <2>. QED
    BY <1>2, <2>3, <2>4
<1>4. CASE HoldsSlot(q)' /\ ~HoldsSlot(q) /\ k = KeyOf[q]
  <2>1. Slots(k)' = Slots(k) \cup {q} /\ q \notin Slots(k)
    <3>1. \A r : r \in Slots(k)' <=> r \in Slots(k) \/ r = q
      BY <1>1, <1>4
    <3>. QED
      BY <1>1, <1>4, <3>1 DEF Slots
  <2>2. Cardinality(Slots(k)') = Cardinality(Slots(k)) + 1
    BY <1>2, <2>1, FS_AddElement
  <2>3. SlotOf(q)' - SlotOf(q) = 1
    BY <1>4 DEF SlotOf
  <2>. QED
    BY <1>4, <2>2, <2>3
<1>5. CASE ~HoldsSlot(q)' /\ HoldsSlot(q) /\ k = KeyOf[q]
  <2>1. Slots(k)' = Slots(k) \ {q} /\ q \in Slots(k)
    <3>1. \A r : r \in Slots(k)' <=> r \in Slots(k) /\ r # q
      BY <1>1, <1>5
    <3>. QED
      BY <1>1, <1>5, <3>1 DEF Slots
  <2>2. Cardinality(Slots(k)') = Cardinality(Slots(k)) - 1
    BY <1>2, <2>1, FS_RemoveElement
  <2>3. SlotOf(q)' - SlotOf(q) = -1
    BY <1>5 DEF SlotOf
  <2>. QED
    BY <1>2, <1>5, <2>2, <2>3
<1>. QED
  BY <1>3, <1>4, <1>5

\* The count stays exact when what a query takes and holds adds up at its key.
LEMMA CountMoves ==
  ASSUME TypeOK, TypeOK', CountInv, NEW q \in Queries,
         \A r \in Queries : r # q => (HoldsSlot(r)' <=> HoldsSlot(r)),
         UNCHANGED closeList,
         \A k \in Keys : k # KeyOf[q] => total'[k] = total[k] /\ idle'[k] = idle[k],
         total'[KeyOf[q]] - Len(idle'[KeyOf[q]]) - SlotOf(q)'
           = total[KeyOf[q]] - Len(idle[KeyOf[q]]) - SlotOf(q)
  PROVE  CountInv'
<1>. SUFFICES ASSUME NEW k \in Keys
              PROVE  total'[k] = Len(idle'[k]) + Len(closeList'[k]) + Cardinality(Slots(k)')
  BY DEF CountInv
<1>1. /\ total[k] = Len(idle[k]) + Len(closeList[k]) + Cardinality(Slots(k))
      /\ Cardinality(Slots(k)) \in Nat /\ Len(idle[k]) \in Nat /\ Len(closeList[k]) \in Nat
      /\ total[k] \in Nat
  BY CountTypes DEF CountInv
<1>2. total'[k] \in Nat /\ Len(idle'[k]) \in Nat /\ Len(closeList'[k]) = Len(closeList[k])
  BY CapAssumption DEF TypeOK
<1>3. Cardinality(Slots(k)') =
        Cardinality(Slots(k)) + (IF k = KeyOf[q] THEN SlotOf(q)' - SlotOf(q) ELSE 0)
  BY SlotsChange
<1>4. SlotOf(q) \in {0, 1} /\ SlotOf(q)' \in {0, 1}
  BY DEF SlotOf
<1>5. CASE k # KeyOf[q]
  <2>1. Cardinality(Slots(k)') = Cardinality(Slots(k))
    BY <1>1, <1>3, <1>5
  <2>2. total'[k] = total[k] /\ idle'[k] = idle[k]
    BY <1>5
  <2>. QED
    BY <1>1, <1>2, <2>1, <2>2, Zenon
<1>6. CASE k = KeyOf[q]
  <2>1. total'[k] - Len(idle'[k]) - SlotOf(q)' = total[k] - Len(idle[k]) - SlotOf(q)
    BY <1>6
  <2>2. Cardinality(Slots(k)') = Cardinality(Slots(k)) + SlotOf(q)' - SlotOf(q)
    BY <1>1, <1>3, <1>4, <1>6
  <2>. DEFINE n == Cardinality(Slots(k))
              m == Cardinality(Slots(k)')
              i == Len(idle[k])
              j == Len(idle'[k])
              c == Len(closeList[k])
              d == Len(closeList'[k])
              a == SlotOf(q)
              b == SlotOf(q)'
  <2>3. /\ n \in Nat /\ i \in Nat /\ j \in Nat /\ c \in Nat /\ d = c
        /\ a \in {0, 1} /\ b \in {0, 1} /\ total[k] \in Nat /\ total'[k] \in Nat
        /\ total[k] = i + c + n
        /\ total'[k] - j - b = total[k] - i - a
        /\ m = n + b - a
    BY <1>1, <1>2, <1>4, <2>1, <2>2, Zenon
  <2>. HIDE DEF n, m, i, j, c, d, a, b
  <2>4. total'[k] = j + d + m
    BY <2>3
  <2>. QED
    BY <2>4, Zenon DEF j, d, m
<1>. QED
  BY <1>5, <1>6

\* A step that touches neither the pool nor a slot.
LEMMA CountKept ==
  ASSUME CountInv, UNCHANGED <<poolVars, closeList>>,
         \A q \in Queries : HoldsSlot(q)' <=> HoldsSlot(q)
  PROVE  CountInv'
<1>1. \A k \in Keys : Slots(k)' = Slots(k)
  BY DEF Slots
<1>2. total' = total /\ idle' = idle /\ closeList' = closeList
  BY DEF poolVars
<1>. QED
  BY <1>1, <1>2, Zenon DEF CountInv

\* A query's step leaves the other queries' slots alone.
LEMMA OthersSlots ==
  ASSUME TypeOK, NEW q \in Queries, Step(q) \/ Abandon(q)
  PROVE  \A r \in Queries : r # q => (HoldsSlot(r)' <=> HoldsSlot(r))
BY OthersUntouched DEF HoldsSlot

\* A held slot is counted, so it can be released.
LEMMA SlotCounted ==
  ASSUME TypeOK, CountInv, NEW q \in Queries, HoldsSlot(q)
  PROVE  total[KeyOf[q]] > 0
<1>1. KeyOf[q] \in Keys /\ q \in Slots(KeyOf[q])
  BY StatementAssumption DEF Slots
<1>. DEFINE k == KeyOf[q]
<1>2. /\ Cardinality(Slots(k)) \in Nat /\ Cardinality(Slots(k)) > 0
      /\ Len(idle[k]) \in Nat /\ Len(closeList[k]) \in Nat
  BY <1>1, CountTypes
<1>3. total[k] = Len(idle[k]) + Len(closeList[k]) + Cardinality(Slots(k))
  BY <1>1 DEF CountInv
<1>. DEFINE n == Cardinality(Slots(k))
            i == Len(idle[k])
            c == Len(closeList[k])
<1>4. n \in Nat /\ n > 0 /\ i \in Nat /\ c \in Nat /\ total[k] = i + c + n
  BY <1>2, <1>3, Zenon
<1>. HIDE DEF n, i, c
<1>5. total[k] > 0
  BY <1>4
<1>. QED
  BY <1>5

\* A session that is given back leaves a place free or takes one on the stack.
LEMMA CountGivenBack ==
  ASSUME TypeOK, TypeOK', PlaceInv, CountInv, NEW q \in Queries, NEW ok \in BOOLEAN, GiveBack(q, ok),
         \A r \in Queries : r # q => (HoldsSlot(r)' <=> HoldsSlot(r)),
         phase[q] # "creating", phase'[q] # "creating", UNCHANGED closeList
  PROVE  CountInv'
<1>. DEFINE K == KeyOf[q]
<1>0. K \in Keys
  BY StatementAssumption
<1>1. SlotOf(q)' = 0 /\ SlotOf(q) = IF session[q] = None THEN 0 ELSE 1
  BY DEF GiveBack, SlotOf, HoldsSlot, TypeOK
<1>2. CASE session[q] = None
  <2>1. UNCHANGED poolVars /\ SlotOf(q) = SlotOf(q)'
    BY <1>1, <1>2 DEF GiveBack
  <2>2. HoldsSlot(q)' <=> HoldsSlot(q)
    BY <1>1, <1>2 DEF SlotOf
  <2>. QED
    BY <2>1, <2>2, CountKept
<1>3. CASE session[q] # None
  <2>1. Checkin(K, session[q], ok) /\ SlotOf(q) = 1
    BY <1>1, <1>3 DEF GiveBack
  <2>2. total[K] > 0
    BY <1>3, SlotCounted DEF HoldsSlot
  <2>3. /\ total[K] \in Nat /\ idle[K] \in Seq(Sessions) /\ session[q] \in Sessions
        /\ DOMAIN total = Keys /\ DOMAIN idle = Keys
    BY <1>0, <1>3, CapAssumption DEF TypeOK
  <2>4. CASE ok
    <3>1. idle' = [idle EXCEPT ![K] = Append(@, session[q])] /\ total' = total
      BY <2>1, <2>4 DEF Checkin, Put
    <3>2. /\ \A k \in Keys : k # K => total'[k] = total[k] /\ idle'[k] = idle[k]
          /\ total'[K] = total[K] /\ idle'[K] = Append(idle[K], session[q])
      BY <1>0, <2>3, <3>1
    <3>3. Len(idle'[K]) = Len(idle[K]) + 1 /\ Len(idle[K]) \in Nat
      BY <2>3, <3>2
    <3>4. total'[K] - Len(idle'[K]) - SlotOf(q)' = total[K] - Len(idle[K]) - SlotOf(q)
      BY <1>1, <2>1, <2>3, <3>2, <3>3
    <3>. QED
      BY <3>2, <3>4, CountMoves
  <2>5. CASE ~ok
    <3>1. total' = [total EXCEPT ![K] = Minus(@, 1)] /\ idle' = idle
      BY <2>1, <2>5 DEF Checkin, Release
    <3>2. /\ \A k \in Keys : k # K => total'[k] = total[k] /\ idle'[k] = idle[k]
          /\ total'[K] = total[K] - 1 /\ idle'[K] = idle[K]
      BY <1>0, <2>2, <2>3, <3>1 DEF Minus
    <3>3. Len(idle[K]) \in Nat
      BY <2>3
    <3>4. total'[K] - Len(idle'[K]) - SlotOf(q)' = total[K] - Len(idle[K]) - SlotOf(q)
      BY <1>1, <2>1, <2>3, <3>2, <3>3
    <3>. QED
      BY <3>2, <3>4, CountMoves
  <2>. QED
    BY <2>4, <2>5
<1>. QED
  BY <1>2, <1>3

\* The steps of the checkout keep the count.
LEMMA CountCheckout ==
  ASSUME TypeOK, TypeOK', PlaceInv, CountInv, NEW q \in Queries,
         TakeIdle(q) \/ ReserveSlot(q) \/ CreateSession(q) \/ CreateFails(q)
  PROVE  CountInv'
<1>. DEFINE K == KeyOf[q]
<1>0. K \in Keys
  BY StatementAssumption
<1>1. /\ total[K] \in Nat /\ idle[K] \in Seq(Sessions) /\ Len(idle[K]) \in Nat
      /\ DOMAIN total = Keys /\ DOMAIN idle = Keys
  BY <1>0, CapAssumption DEF TypeOK
<1>2. UNCHANGED closeList /\ \A r \in Queries : r # q => (HoldsSlot(r)' <=> HoldsSlot(r))
  BY OthersSlots DEF Step, TakeIdle, ReserveSlot, CreateSession, CreateFails, cleanVars, closeVars
<1>3. session[q] = None
  BY DEF PlaceInv, HoldsWhile, TakeIdle, ReserveSlot, CreateSession, CreateFails
<1>4. CASE TakeIdle(q)
  <2>1. idle' = [idle EXCEPT ![K] = Front(@)] /\ total' = total /\ HasIdle(K)
    BY <1>4 DEF TakeIdle, Take, Popped
  <2>2. TopIdle(K) \in Sessions /\ session'[q] = TopIdle(K)
    BY <1>0, <1>4, PoolTypes, PoolIsTyped DEF TakeIdle, Hold, TypeOK
  <2>3. SlotOf(q) = 0 /\ SlotOf(q)' = 1
    BY <1>3, <1>4, <2>2, PlacesAreSessions DEF SlotOf, HoldsSlot, TakeIdle
  <2>4. /\ \A k \in Keys : k # K => total'[k] = total[k] /\ idle'[k] = idle[k]
        /\ total'[K] = total[K] /\ idle'[K] = Front(idle[K])
    BY <1>0, <1>1, <2>1
  <2>5. Len(idle'[K]) = Len(idle[K]) - 1
    BY <1>1, <2>1, <2>4 DEF HasIdle, Front
  <2>6. total'[K] - Len(idle'[K]) - SlotOf(q)' = total[K] - Len(idle[K]) - SlotOf(q)
    BY <1>1, <2>3, <2>4, <2>5
  <2>. QED
    BY <1>2, <2>4, <2>6, CountMoves
<1>5. CASE ReserveSlot(q) /\ HasRoom(K)
  <2>1. total' = [total EXCEPT ![K] = @ + 1] /\ idle' = idle /\ session' = session /\ phase'[q] = "creating"
    BY <1>5 DEF ReserveSlot, Reserve, MoveTo, TypeOK, queryVars
  <2>2. SlotOf(q) = 0 /\ SlotOf(q)' = 1
    BY <1>3, <1>5, <2>1 DEF SlotOf, HoldsSlot, ReserveSlot
  <2>3. /\ \A k \in Keys : k # K => total'[k] = total[k] /\ idle'[k] = idle[k]
        /\ total'[K] = total[K] + 1 /\ idle'[K] = idle[K]
    BY <1>0, <1>1, <2>1
  <2>4. total'[K] - Len(idle'[K]) - SlotOf(q)' = total[K] - Len(idle[K]) - SlotOf(q)
    BY <1>1, <2>2, <2>3
  <2>. QED
    BY <1>2, <2>3, <2>4, CountMoves
<1>6. CASE ReserveSlot(q) /\ ~HasRoom(K)
  <2>1. UNCHANGED poolVars /\ session' = session /\ phase[q] # "creating" /\ phase'[q] # "creating"
    BY <1>6 DEF ReserveSlot, MoveTo, TypeOK, queryVars, poolVars
  <2>2. HoldsSlot(q)' <=> HoldsSlot(q)
    BY <2>1 DEF HoldsSlot
  <2>. QED
    BY <1>2, <2>1, <2>2, CountKept
<1>7. CASE CreateSession(q)
  <2>1. UNCHANGED poolVars /\ phase[q] = "creating" /\ session'[q] = sessions + 1 /\ sessions \in Nat
    BY <1>7 DEF CreateSession, Hold, TypeOK
  <2>2. HoldsSlot(q)' <=> HoldsSlot(q)
    BY <2>1 DEF HoldsSlot, None
  <2>. QED
    BY <1>2, <2>1, <2>2, CountKept
<1>8. CASE CreateFails(q)
  <2>1. /\ total' = [total EXCEPT ![K] = Minus(@, 1)] /\ idle' = idle /\ session' = session
        /\ phase[q] = "creating" /\ phase'[q] # "creating"
    BY <1>8 DEF CreateFails, DropReservation, Release, MoveTo, TypeOK, queryVars
  <2>2. SlotOf(q) = 1 /\ SlotOf(q)' = 0
    BY <1>3, <2>1 DEF SlotOf, HoldsSlot
  <2>3. total[K] > 0
    BY <2>1, SlotCounted DEF HoldsSlot
  <2>4. /\ \A k \in Keys : k # K => total'[k] = total[k] /\ idle'[k] = idle[k]
        /\ total'[K] = total[K] - 1 /\ idle'[K] = idle[K]
    BY <1>0, <1>1, <2>1, <2>3 DEF Minus
  <2>5. total'[K] - Len(idle'[K]) - SlotOf(q)' = total[K] - Len(idle[K]) - SlotOf(q)
    BY <1>1, <2>2, <2>4
  <2>. QED
    BY <1>2, <2>4, <2>5, CountMoves
<1>. QED
  BY <1>4, <1>5, <1>6, <1>7, <1>8

\* What close_all_sessions takes off the stacks is counted until it is discounted.
LEMMA CountClosing ==
  ASSUME TypeOK, TypeOK', PlaceInv, CountInv, Closes
  PROVE  CountInv'
<1>1. \A k \in Keys : Slots(k)' = Slots(k)
  BY DEF Slots, HoldsSlot, Closes, CloseAll, DiscountAll, DeleteDrained, CancelClose, queryVars
<1>. SUFFICES ASSUME NEW k \in Keys
              PROVE  total'[k] = Len(idle'[k]) + Len(closeList'[k]) + Cardinality(Slots(k)')
  BY DEF CountInv
<1>2. /\ total[k] = Len(idle[k]) + Len(closeList[k]) + Cardinality(Slots(k))
      /\ Cardinality(Slots(k)) \in Nat /\ Len(idle[k]) \in Nat /\ Len(closeList[k]) \in Nat
      /\ Len(<<>>) = 0
  BY CountTypes DEF CountInv
<1>3. Cardinality(Slots(k)') = Cardinality(Slots(k))
  BY <1>1, Zenon
<1>. DEFINE n == Cardinality(Slots(k))
            i == Len(idle[k])
            c == Len(closeList[k])
<1>4. /\ n \in Nat /\ i \in Nat /\ c \in Nat /\ total[k] = i + c + n
      /\ Cardinality(Slots(k)') = n
  BY <1>2, <1>3, Zenon
<1>. HIDE DEF n
<1>5. CASE CloseAll
  <2>1. closeList[k] = <<>> /\ closeList'[k] = idle[k] /\ idle'[k] = <<>> /\ total'[k] = total[k]
    BY <1>5 DEF CloseAll, PlaceInv, NothingDrained, Drained, RemoveIdle
  <2>2. Len(idle'[k]) = 0 /\ Len(closeList'[k]) = i /\ c = 0
    BY <2>1
  <2>. HIDE DEF i, c
  <2>. QED
    BY <1>4, <2>1, <2>2
<1>6. CASE DiscountAll
  <2>1. closeList'[k] = <<>> /\ idle'[k] = idle[k] /\ total'[k] = Minus(total[k], c)
    BY <1>6 DEF DiscountAll, NothingDrained, Discount
  <2>2. Len(idle'[k]) = i /\ Len(closeList'[k]) = 0
    BY <2>1
  <2>. HIDE DEF i, c
  <2>3. total'[k] = i + n
    BY <1>4, <2>1 DEF Minus
  <2>. QED
    BY <1>4, <2>2, <2>3
<1>7. CASE (\E s \in Sessions : DeleteDrained(s)) \/ CancelClose
  <2>1. UNCHANGED <<poolVars, closeList>>
    BY <1>7 DEF DeleteDrained, CancelClose
  <2>2. Len(idle'[k]) = i /\ Len(closeList'[k]) = c /\ total'[k] = total[k]
    BY <2>1 DEF poolVars
  <2>. HIDE DEF i, c
  <2>. QED
    BY <1>4, <2>2
<1>. QED
  BY <1>5, <1>6, <1>7 DEF Closes

\* Every step keeps the count exact.
LEMMA CountStep == TypeOK /\ TypeOK' /\ PlaceInv /\ CountInv /\ [Next]_vars => CountInv'
<1>. SUFFICES ASSUME TypeOK, TypeOK', PlaceInv, CountInv, [Next]_vars PROVE CountInv'
  OBVIOUS
<1>1. ASSUME NEW q \in Queries, Ensure(q) \/ Submit(q) PROVE CountInv'
  <2>1. /\ UNCHANGED <<poolVars, closeList, session>>
        /\ phase[q] # "creating" /\ phase'[q] # "creating"
    BY <1>1 DEF Ensure, Submit, MoveTo, TypeOK, queryVars, cleanVars, closeVars
  <2>2. HoldsSlot(q)' <=> HoldsSlot(q)
    BY <2>1 DEF HoldsSlot
  <2>3. \A r \in Queries : r # q => (HoldsSlot(r)' <=> HoldsSlot(r))
    BY <1>1, OthersSlots DEF Step
  <2>. QED
    BY <2>1, <2>2, <2>3, CountKept
<1>2. ASSUME NEW q \in Queries,
             TakeIdle(q) \/ ReserveSlot(q) \/ CreateSession(q) \/ CreateFails(q)
      PROVE  CountInv'
  BY <1>2, CountCheckout
<1>3. ASSUME NEW q \in Queries, SubmitFails(q) \/ PollFails(q) \/ Abandon(q) PROVE CountInv'
  <2>1. UNCHANGED closeList /\ phase[q] # "creating"
    BY <1>3 DEF SubmitFails, PollFails, Abandon, closeVars
  <2>2. \A r \in Queries : r # q => (HoldsSlot(r)' <=> HoldsSlot(r))
    BY <1>3, OthersSlots DEF Step
  <2>3. \/ \E how \in {"failed", "cancelled"} : Leave(q, how)
        \/ UNCHANGED <<phase, session, poolVars>>
    BY <1>3, Zenon DEF SubmitFails, PollFails, Abandon
  <2>4. CASE \E how \in {"failed", "cancelled"} : Leave(q, how)
    <3>1. GiveBack(q, FALSE) /\ phase'[q] # "creating"
      BY <2>4 DEF Leave, MoveTo, TypeOK
    <3>. QED
      BY <2>1, <2>2, <3>1, CountGivenBack
  <2>5. CASE UNCHANGED <<phase, session, poolVars>>
    <3>1. HoldsSlot(q)' <=> HoldsSlot(q)
      BY <2>5 DEF HoldsSlot
    <3>. QED
      BY <2>1, <2>2, <2>5, <3>1, CountKept
  <2>. QED
    BY <2>3, <2>4, <2>5
<1>4. ASSUME NEW q \in Queries, Terminates(q),
             FallBack(q) \/ StatementFailed(q) \/ AnswerExternal(q) \/ AnswerInline(q) \/ InlineUnusable(q)
      PROVE  CountInv'
  <2>1. GiveBack(q, Polled(q).state = "succeeded") /\ UNCHANGED closeList /\ phase[q] # "creating"
    BY <1>4 DEF Terminates, closeVars
  <2>2. phase'[q] # "creating"
    BY <1>4
    DEF FallBack, StatementFailed, AnswerExternal, AnswerInline, InlineUnusable, HandOver, MoveTo, TypeOK
  <2>3. \A r \in Queries : r # q => (HoldsSlot(r)' <=> HoldsSlot(r))
    BY <1>4, OthersSlots DEF Step
  <2>4. (Polled(q).state = "succeeded") \in BOOLEAN
    OBVIOUS
  <2>. QED
    BY <2>1, <2>2, <2>3, <2>4, CountGivenBack
<1>5. ASSUME Closes PROVE CountInv'
  BY <1>5, CountClosing
<1>6. ASSUME NEW i \in DOMAIN statements, ServerFinishes(i) \/ CancelArrives(i) PROVE CountInv'
  <2>1. UNCHANGED <<phase, session, poolVars, closeList>>
    BY <1>6 DEF ServerFinishes, CancelArrives, queryVars, cleanVars, closeVars
  <2>. QED
    BY <2>1, CountKept DEF HoldsSlot
<1>7. CASE UNCHANGED vars
  <2>1. UNCHANGED <<phase, session, poolVars, closeList>>
    BY <1>7 DEF vars, queryVars, cleanVars, closeVars
  <2>. QED
    BY <2>1, CountKept DEF HoldsSlot
<1>8. ASSUME NEW q \in Queries, Step(q) PROVE CountInv'
  <2>1. \/ Ensure(q) \/ Submit(q)
        \/ TakeIdle(q) \/ ReserveSlot(q) \/ CreateSession(q) \/ CreateFails(q)
        \/ SubmitFails(q) \/ PollFails(q)
        \/ /\ Terminates(q)
           /\ FallBack(q) \/ StatementFailed(q) \/ AnswerExternal(q) \/ AnswerInline(q) \/ InlineUnusable(q)
    BY <1>8 DEF Step, FallBack, StatementFailed, AnswerExternal, AnswerInline, InlineUnusable
  <2>. QED
    BY <1>1, <1>2, <1>3, <1>4, <2>1
<1>. QED
  BY <1>3, <1>5, <1>6, <1>7, <1>8 DEF Next

\* At the start the count is that of the warm sessions.
LEMMA CountInit == Init => CountInv
<1>. SUFFICES ASSUME Init, NEW k \in Keys
              PROVE  total[k] = Len(idle[k]) + Len(closeList[k]) + Cardinality(Slots(k))
  BY DEF CountInv
<1>1. total[k] = Len(idle[k]) /\ closeList[k] = <<>> /\ Len(<<>>) = 0
  BY DEF Init, NothingDrained
<1>4. Len(idle[k]) \in Nat
  BY WarmAssumption DEF Init
<1>2. Slots(k) = {}
  BY DEF Init, Slots, HoldsSlot
<1>3. Cardinality(Slots(k)) = 0
  BY <1>2, FS_EmptySet
<1>. QED
  BY <1>1, <1>3, <1>4

\* All of this holds in every reachable state.
LEMMA SessionsAlways == Spec => [](TypeOK /\ OnceInv /\ PlaceInv /\ BusyInv /\ CountInv)
<1>1. Init => TypeOK /\ OnceInv /\ PlaceInv /\ BusyInv /\ CountInv
  <2>1. Init => BusyInv
    BY DEF Init, BusyInv
  <2>. QED
    BY <2>1, TypeInit, OnceInit, PlaceInit, CountInit
<1>2. TypeOK /\ OnceInv /\ PlaceInv /\ BusyInv /\ CountInv /\ [Next]_vars
        => (TypeOK /\ OnceInv /\ PlaceInv /\ BusyInv /\ CountInv)'
  BY TypeStep, OnceStep, PlaceStep, BusyStep, CountStep
<1>. QED
  BY <1>1, <1>2, PTL DEF Spec

\* Every session is kept track of, or was left behind when aclose() was cancelled
\* between two deletions or its creation was never answered; the pool counts what
\* it has; and the server never runs two statements on one session, nor any on
\* one that is idle.
THEOREM SessionsAreAccounted == Spec => []SessionsAccounted
<1>1. ASSUME TypeOK, OnceInv, PlaceInv, BusyInv, CountInv PROVE SessionsAccounted
  <2>1. OneStatementPerSession
    <3>. DEFINE Busy(s) == {i \in DOMAIN statements : RunsOn(i, s)}
    <3>1. ASSUME NEW s \in Sessions PROVE Cardinality(Busy(s)) <= 1
      <4>1. CASE Busy(s) = {}
        BY <4>1, FS_EmptySet
      <4>2. CASE Busy(s) # {}
        <5>1. PICK i \in Busy(s) : TRUE
          BY <4>2
        <5>2. Busy(s) = {i}
          BY <1>1, <5>1 DEF BusyInv
        <5>3. Cardinality({i}) = 1
          BY FS_Singleton, Zenon
        <5>. QED
          BY <5>2, <5>3
      <4>. QED
        BY <4>1, <4>2
    <3>2. ASSUME NEW k \in Keys, NEW s \in Range(idle[k]) PROVE Busy(s) = {}
      <4>1. s \in Parked /\ s \in Sessions
        BY <1>1, ParkedMembers, PlacesAreSessions
      <4>2. SUFFICES ASSUME NEW i \in DOMAIN statements, RunsOn(i, s) PROVE FALSE
        OBVIOUS
      <4>3. s \notin deleted /\ \A q \in Queries : session[q] # s
        BY <1>1, <4>1 DEF PlaceInv, Apart
      <4>4. inFlight[statements[i].query] = i
        BY <1>1, <4>1, <4>2, <4>3 DEF BusyInv
      <4>5. session[statements[i].query] = s /\ statements[i].query \in Queries
        BY <1>1, <4>2, <4>4, BusyIsHeld, Positions DEF RunsOn
      <4>. QED
        BY <4>3, <4>5
    <3>. QED
      BY <3>1, <3>2 DEF OneStatementPerSession, RunsOn
  <2>2. ASSUME NEW s \in 1..sessions
        PROVE  \/ s \in deleted \cup toDelete
               \/ [kind |-> "session", of |-> s] \in strays
               \/ closer = "cancelled" /\ [kind |-> "undeleted", of |-> s] \in strays
               \/ \E k \in Keys : s \in Range(idle[k]) \cup Range(closeList[k])
               \/ \E q \in Queries : session[q] = s
    BY <1>1, ParkedMembers DEF PlaceInv, Accounted, LeftBehind, Closing
  <2>3. ASSUME NEW k \in Keys
        PROVE  total[k] =
                 Len(idle[k]) + Len(closeList[k])
                   + Cardinality({q \in Queries : KeyOf[q] = k /\ (phase[q] = "creating" \/ session[q] # None)})
    BY <1>1 DEF CountInv, Slots, HoldsSlot
  <2>. QED
    BY <1>1, <2>1, <2>2, <2>3 DEF SessionsAccounted
<1>. QED
  BY <1>1, SessionsAlways, PTL

=============================================================================
