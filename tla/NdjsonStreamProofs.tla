-------------------------- MODULE NdjsonStreamProofs --------------------------
(***************************************************************************)
(* Theorems about NdjsonStream, for every result, size of page, clock and   *)
(* caller.                                                                  *)
(***************************************************************************)
EXTENDS NdjsonStream, SequenceTheorems, WellFoundedInduction, TLAPS

-----------------------------------------------------------------------------
(* Induction over the natural numbers, stated of a set of them.             *)

LEMMA LeastElement ==
  ASSUME NEW S, S \subseteq Nat, S # {}
  PROVE  \E n \in S : \A m \in S : n <= m
<1>. DEFINE R == OpToRel(<, Nat)
<1>1. IsWellFoundedOn(R, Nat)
  BY NatLessThanWellFounded
<1>2. PICK n \in S : \A m \in S : ~(<<m, n>> \in R)
  <2>. HIDE DEF R
  <2>. QED
    BY <1>1, WFMin
<1>3. \A m \in S : m \in Nat /\ n \in Nat /\ ~(m < n)
  BY <1>2 DEF OpToRel
<1>. QED
  BY <1>3

LEMMA SetInduction ==
  ASSUME NEW S, 0 \in S, \A n \in Nat : n \in S => n + 1 \in S
  PROVE  Nat \subseteq S
<1>. SUFFICES ASSUME ~(Nat \subseteq S) PROVE FALSE
  OBVIOUS
<1>. DEFINE T == Nat \ S
<1>1. PICK n \in T : \A m \in T : n <= m
  <2>1. T \subseteq Nat /\ T # {}
    OBVIOUS
  <2>. QED
    BY <2>1, LeastElement
<1>2. n # 0 /\ n - 1 \in Nat
  OBVIOUS
<1>3. n - 1 \in S
  BY <1>1, <1>2
<1>. QED
  BY <1>2, <1>3

LEMMA FunctionIsSeq ==
  ASSUME NEW S, NEW n \in Nat, NEW f \in [1..n -> S]
  PROVE  f \in Seq(S) /\ Len(f) = n
  OBVIOUS

-----------------------------------------------------------------------------
(* The rows of a prefix.                                                    *)

\* What RowsUpTo computes exists.
LEMMA SumsExist ==
  ASSUME NEW s \in Seq(Nat)
  PROVE  \E f \in [0..Len(s) -> Nat] : f[0] = 0 /\ \A k \in 1..Len(s) : f[k] = f[k - 1] + s[k]
<1>. DEFINE UpTo(n) == \E f \in [0..n -> Nat] : f[0] = 0 /\ \A k \in 1..n : f[k] = f[k - 1] + s[k]
            S == {n \in Nat : n <= Len(s) => UpTo(n)}
<1>1. 0 \in S
  <2>1. [k \in 0..0 |-> 0] \in [0..0 -> Nat] /\ [k \in 0..0 |-> 0][0] = 0
    OBVIOUS
  <2>2. \A k \in 1..0 : FALSE
    OBVIOUS
  <2>. QED
    BY <2>1, <2>2
<1>2. ASSUME NEW n \in Nat, n \in S PROVE n + 1 \in S
  <2>. HIDE DEF UpTo
  <2>. SUFFICES ASSUME n + 1 <= Len(s) PROVE UpTo(n + 1)
    OBVIOUS
  <2>1. UpTo(n)
    BY <1>2
  <2>. USE DEF UpTo
  <2>2. PICK f \in [0..n -> Nat] : f[0] = 0 /\ \A k \in 1..n : f[k] = f[k - 1] + s[k]
    BY <2>1
  <2>3. s[n + 1] \in Nat
    OBVIOUS
  <2>. DEFINE g == [k \in 0..(n + 1) |-> IF k = n + 1 THEN f[n] + s[n + 1] ELSE f[k]]
  <2>4. g \in [0..(n + 1) -> Nat]
    BY <2>3
  <2>5. g[0] = 0
    BY <2>2
  <2>6. ASSUME NEW k \in 1..(n + 1) PROVE g[k] = g[k - 1] + s[k]
    <3>1. CASE k = n + 1
      <4>1. k - 1 = n /\ n \in 0..(n + 1) /\ n # n + 1 /\ k \in 0..(n + 1)
        BY <3>1
      <4>. QED
        BY <3>1, <4>1
    <3>2. CASE k # n + 1
      <4>1. k \in 1..n /\ k - 1 \in 0..n /\ k \in 0..(n + 1) /\ k - 1 \in 0..(n + 1) /\ k - 1 # n + 1
        BY <3>2
      <4>2. g[k] = f[k] /\ g[k - 1] = f[k - 1]
        BY <3>2, <4>1
      <4>. HIDE DEF g
      <4>. QED
        BY <2>2, <4>1, <4>2
    <3>. QED
      BY <3>1, <3>2
  <2>. HIDE DEF g
  <2>. QED
    BY <2>4, <2>5, <2>6
<1>3. Nat \subseteq S
  <2>. HIDE DEF S
  <2>. QED
    BY <1>1, <1>2, SetInduction
<1>. QED
  BY <1>3, SMTT(30)

LEMMA RowsUpToSums ==
  ASSUME NEW s \in Seq(Nat)
  PROVE  /\ RowsUpTo(s) \in [0..Len(s) -> Nat]
         /\ RowsUpTo(s)[0] = 0
         /\ \A k \in 1..Len(s) : RowsUpTo(s)[k] = RowsUpTo(s)[k - 1] + s[k]
<1>. DEFINE Fits(f) == f = [k \in 0..Len(s) |-> IF k = 0 THEN 0 ELSE f[k - 1] + s[k]]
<1>1. PICK f \in [0..Len(s) -> Nat] : f[0] = 0 /\ \A k \in 1..Len(s) : f[k] = f[k - 1] + s[k]
  BY SumsExist
<1>2. Fits(f)
  BY <1>1
<1>3. RowsUpTo(s) = CHOOSE g : Fits(g)
  BY DEF RowsUpTo
<1>4. PICK g : g = RowsUpTo(s) /\ Fits(g)
  BY <1>2, <1>3
<1>5. DOMAIN g = 0..Len(s) /\ g[0] = 0
  BY <1>4
<1>6. ASSUME NEW k \in 1..Len(s) PROVE g[k] = g[k - 1] + s[k]
  <2>1. k \in 0..Len(s) /\ k # 0
    OBVIOUS
  <2>2. g = [i \in 0..Len(s) |-> IF i = 0 THEN 0 ELSE g[i - 1] + s[i]]
    BY <1>4
  <2>. HIDE DEF Fits
  <2>. QED
    BY <2>1, <2>2
<1>. DEFINE S == {n \in Nat : n <= Len(s) => g[n] = f[n]}
<1>. HIDE DEF Fits
<1>7. Nat \subseteq S
  <2>1. 0 \in S
    BY <1>1, <1>5
  <2>2. ASSUME NEW n \in Nat, n \in S PROVE n + 1 \in S
    <3>. SUFFICES ASSUME n + 1 <= Len(s) PROVE g[n + 1] = f[n + 1]
      OBVIOUS
    <3>1. g[n] = f[n] /\ n + 1 \in 1..Len(s) /\ (n + 1) - 1 = n
      BY <2>2
    <3>2. g[n + 1] = g[(n + 1) - 1] + s[n + 1] /\ f[n + 1] = f[(n + 1) - 1] + s[n + 1]
      BY <1>1, <1>6, <3>1
    <3>. QED
      BY <3>1, <3>2
  <2>. HIDE DEF S
  <2>. QED
    BY <2>1, <2>2, SetInduction
<1>8. \A k \in 0..Len(s) : g[k] = f[k]
  BY <1>7
<1>9. g = [k \in 0..Len(s) |-> g[k]]
  BY <1>4 DEF Fits
<1>. QED
  BY <1>1, <1>4, <1>5, <1>8, <1>9

\* The rows of a prefix do not depend on what follows it.
LEMMA PrefixOfBoth ==
  ASSUME NEW s \in Seq(Nat), NEW t \in Seq(Nat), NEW n \in Nat, n <= Len(s), n <= Len(t),
         \A k \in 1..n : s[k] = t[k]
  PROVE  \A k \in 0..n : RowsUpTo(s)[k] = RowsUpTo(t)[k]
<1>. DEFINE S == {k \in Nat : k <= n => RowsUpTo(s)[k] = RowsUpTo(t)[k]}
<1>1. 0 \in S
  BY RowsUpToSums
<1>2. ASSUME NEW k \in Nat, k \in S PROVE k + 1 \in S
  <2>. SUFFICES ASSUME k + 1 <= n PROVE RowsUpTo(s)[k + 1] = RowsUpTo(t)[k + 1]
    OBVIOUS
  <2>1. RowsUpTo(s)[k] = RowsUpTo(t)[k] /\ k + 1 \in 1..Len(s) /\ k + 1 \in 1..Len(t) /\ (k + 1) - 1 = k
    BY <1>2
  <2>2. s[k + 1] = t[k + 1]
    OBVIOUS
  <2>3. RowsUpTo(s)[k + 1] = RowsUpTo(s)[(k + 1) - 1] + s[k + 1]
    BY <2>1, RowsUpToSums
  <2>4. RowsUpTo(t)[k + 1] = RowsUpTo(t)[(k + 1) - 1] + t[k + 1]
    BY <2>1, RowsUpToSums
  <2>. QED
    BY <2>1, <2>2, <2>3, <2>4
<1>3. Nat \subseteq S
  <2>. HIDE DEF S
  <2>. QED
    BY <1>1, <1>2, SetInduction
<1>. QED
  BY <1>3

LEMMA CountType ==
  ASSUME NEW s \in Seq(Nat)
  PROVE  RowCount(s) \in Nat /\ \A k \in 0..Len(s) : RowsUpTo(s)[k] \in Nat
<1>1. RowsUpTo(s) \in [0..Len(s) -> Nat] /\ Len(s) \in Nat
  BY RowsUpToSums
<1>. QED
  BY <1>1 DEF RowCount

LEMMA CountOfNone == RowsUpTo(<<>>)[0] = 0 /\ RowCount(<<>>) = 0
<1>1. <<>> \in Seq(Nat) /\ Len(<<>>) = 0
  OBVIOUS
<1>. QED
  BY <1>1, RowsUpToSums DEF RowCount

\* A prefix has no more rows than a longer one.
LEMMA PrefixIsLess ==
  ASSUME NEW s \in Seq(Nat)
  PROVE  \A k \in 0..Len(s) : RowsUpTo(s)[k] <= RowCount(s)
<1>. DEFINE m == Len(s)
            S == {n \in Nat : n <= m => RowsUpTo(s)[m - n] <= RowsUpTo(s)[m]}
<1>1. m \in Nat /\ \A k \in 0..m : RowsUpTo(s)[k] \in Nat
  BY CountType
<1>2. 0 \in S
  <2>1. m - 0 = m /\ m \in 0..m
    BY <1>1
  <2>. QED
    BY <1>1, <2>1
<1>3. ASSUME NEW n \in Nat, n \in S PROVE n + 1 \in S
  <2>. SUFFICES ASSUME n + 1 <= m PROVE RowsUpTo(s)[m - (n + 1)] <= RowsUpTo(s)[m]
    OBVIOUS
  <2>1. m - n \in 1..m /\ (m - n) - 1 = m - (n + 1) /\ m - (n + 1) \in 0..m
    BY <1>1
  <2>2. RowsUpTo(s)[m - n] <= RowsUpTo(s)[m]
    BY <1>1, <1>3
  <2>3. RowsUpTo(s)[m - n] = RowsUpTo(s)[(m - n) - 1] + s[m - n]
    BY <2>1, RowsUpToSums
  <2>4. s[m - n] \in Nat
    BY <2>1
  <2>5. RowsUpTo(s)[m] \in Nat
    BY <1>1
  <2>. HIDE DEF m
  <2>. QED
    BY <1>1, <2>1, <2>2, <2>3, <2>4, <2>5
<1>4. Nat \subseteq S
  <2>. HIDE DEF S
  <2>. QED
    BY <1>2, <1>3, SetInduction
<1>5. ASSUME NEW k \in 0..m PROVE RowsUpTo(s)[k] <= RowsUpTo(s)[m]
  <2>1. m - k \in Nat /\ m - k <= m /\ m - (m - k) = k
    BY <1>1
  <2>2. m - k \in S
    BY <1>4, <2>1
  <2>. QED
    BY <2>1, <2>2
<1>. QED
  BY <1>5 DEF RowCount

LEMMA CountAppend ==
  ASSUME NEW s \in Seq(Nat), NEW x \in Nat
  PROVE  /\ Append(s, x) \in Seq(Nat)
         /\ \A k \in 0..Len(s) : RowsUpTo(Append(s, x))[k] = RowsUpTo(s)[k]
         /\ RowCount(Append(s, x)) = RowCount(s) + x
<1>. DEFINE t == Append(s, x)
            m == Len(s)
<1>1. /\ m \in Nat /\ t \in Seq(Nat) /\ Len(t) = m + 1 /\ t[m + 1] = x
      /\ \A k \in 1..m : s[k] = t[k]
  OBVIOUS
<1>. HIDE DEF t
<1>2. \A k \in 0..m : RowsUpTo(s)[k] = RowsUpTo(t)[k]
  <2>1. m <= Len(s) /\ m <= Len(t)
    BY <1>1
  <2>. HIDE DEF m
  <2>. QED
    BY <1>1, <2>1, PrefixOfBoth
<1>3. RowsUpTo(t)[m + 1] = RowsUpTo(t)[(m + 1) - 1] + t[m + 1]
  <2>1. m + 1 \in 1..Len(t)
    BY <1>1
  <2>. QED
    BY <1>1, <2>1, RowsUpToSums
<1>4. (m + 1) - 1 = m /\ m \in 0..m
  BY <1>1
<1>. QED
  BY <1>1, <1>2, <1>3, <1>4 DEF RowCount, t

-----------------------------------------------------------------------------
(* Runs of batches.                                                         *)

LEMMA SizesFacts ==
  ASSUME NEW s \in Seq(Runs)
  PROVE  /\ Sizes(s) \in Seq(Nat) /\ Len(Sizes(s)) = Len(s) /\ Len(s) \in Nat /\ DOMAIN s = 1..Len(s)
         /\ \A k \in 1..Len(s) : Sizes(s)[k] = s[k].rows /\ s[k].rows \in Nat /\ s[k].first \in Nat
         /\ RowsOf(s) \in Nat
         /\ \A k \in 0..Len(s) : RowsUpTo(Sizes(s))[k] \in Nat
<1>1. Len(s) \in Nat /\ DOMAIN s = 1..Len(s)
  OBVIOUS
<1>2. \A k \in 1..Len(s) : s[k].rows \in Nat /\ s[k].first \in Nat
  <2>. SUFFICES ASSUME NEW k \in 1..Len(s) PROVE s[k].rows \in Nat /\ s[k].first \in Nat
    OBVIOUS
  <2>1. s[k] \in Runs
    BY <1>1, ElementOfSeq
  <2>. QED
    BY <2>1 DEF Runs
<1>3. Sizes(s) \in [1..Len(s) -> Nat]
  BY <1>1, <1>2 DEF Sizes
<1>4. Sizes(s) \in Seq(Nat) /\ Len(Sizes(s)) = Len(s)
  BY <1>1, <1>3
<1>. QED
  BY <1>1, <1>2, <1>4, CountType DEF RowsOf, Sizes

LEMMA SizesOfNone == <<>> \in Seq(Runs) /\ RowsOf(<<>>) = 0 /\ \A n : RunFrom(<<>>, n)
<1>1. Sizes(<<>>) = <<>>
  BY DEF Sizes
<1>. QED
  BY <1>1, CountOfNone DEF RowsOf, RunFrom

\* One more batch.
LEMMA RunAppend ==
  ASSUME NEW s \in Seq(Runs), NEW b \in Runs
  PROVE  /\ Append(s, b) \in Seq(Runs)
         /\ RowsOf(Append(s, b)) = RowsOf(s) + b.rows
         /\ \A n \in Nat : RunFrom(s, n) /\ b.first = n + RowsOf(s) + 1 => RunFrom(Append(s, b), n)
<1>. DEFINE t == Append(s, b)
            m == Len(s)
<1>1. b.rows \in Nat /\ m \in Nat /\ DOMAIN s = 1..m
  BY DEF Runs
<1>2. t \in Seq(Runs) /\ DOMAIN t = 1..(m + 1) /\ t[m + 1] = b /\ \A k \in 1..m : t[k] = s[k]
  OBVIOUS
<1>3. Sizes(t) = Append(Sizes(s), b.rows)
  BY <1>1, <1>2 DEF Sizes
<1>4. Sizes(s) \in Seq(Nat) /\ Len(Sizes(s)) = m
  BY SizesFacts
<1>5. RowsOf(t) = RowsOf(s) + b.rows
  BY <1>1, <1>3, <1>4, CountAppend DEF RowsOf
<1>6. \A k \in 0..m : RowsUpTo(Sizes(t))[k] = RowsUpTo(Sizes(s))[k]
  BY <1>1, <1>3, <1>4, CountAppend
<1>7. ASSUME NEW n \in Nat, RunFrom(s, n), b.first = n + RowsOf(s) + 1 PROVE RunFrom(t, n)
  <2>. SUFFICES ASSUME NEW k \in 1..(m + 1)
                PROVE  t[k].first = n + RowsUpTo(Sizes(t))[k - 1] + 1
    BY <1>2 DEF RunFrom
  <2>1. CASE k = m + 1
    <3>1. RowsUpTo(Sizes(t))[m] = RowsOf(s)
      BY <1>1, <1>4, <1>6 DEF RowsOf, RowCount
    <3>2. k - 1 = m /\ t[k] = b
      BY <1>1, <1>2, <2>1
    <3>. QED
      BY <1>7, <3>1, <3>2
  <2>2. CASE k # m + 1
    <3>1. k \in 1..m /\ k - 1 \in 0..m
      BY <1>1, <2>2
    <3>2. s[k].first = n + RowsUpTo(Sizes(s))[k - 1] + 1
      BY <1>1, <1>7, <3>1 DEF RunFrom
    <3>. QED
      BY <1>2, <1>6, <3>1, <3>2
  <2>. QED
    BY <2>1, <2>2
<1>. QED
  BY <1>2, <1>5, <1>7

-----------------------------------------------------------------------------
(* take_page                                                                *)

\* What take_page has made of the first batches: their rows, `total' of them, are
\* on the page or put back, in order.
Taken(p, before, total) ==
  /\ p \in [page : Seq(Runs), rest : Seq(Runs), rows : Nat, full : BOOLEAN]
  /\ p.rows <= PageRows
  /\ p.full \/ p.rest = <<>>
  /\ RunFrom(p.page, before) /\ RunFrom(p.rest, before + RowsOf(p.page))
  /\ RowsOf(p.page) + RowsOf(p.rest) = total

LEMMA TakeBatchFacts ==
  ASSUME NEW p, NEW before \in Nat, NEW total \in Nat, Taken(p, before, total),
         NEW b \in Runs, b.first = before + total + 1
  PROVE  Taken(TakeBatch(p, b), before, total + b.rows)
<1>1. /\ p.page \in Seq(Runs) /\ p.rest \in Seq(Runs) /\ p.rows \in Nat /\ p.full \in BOOLEAN
      /\ p = [page |-> p.page, rest |-> p.rest, rows |-> p.rows, full |-> p.full]
  BY DEF Taken
<1>2. PageRows \in Nat /\ b.rows \in Nat /\ b.first \in Nat
  BY EncodeAssumption DEF Runs
<1>3. RowsOf(p.page) \in Nat /\ RowsOf(p.rest) \in Nat
  BY <1>1, SizesFacts
<1>4. CASE p.full
  <2>. DEFINE r == Append(p.rest, b)
  <2>1. TakeBatch(p, b) = [page |-> p.page, rest |-> r, rows |-> p.rows, full |-> TRUE]
    BY <1>1, <1>4 DEF TakeBatch
  <2>2. before + RowsOf(p.page) \in Nat /\ b.first = (before + RowsOf(p.page)) + RowsOf(p.rest) + 1
    BY <1>3 DEF Taken
  <2>3. r \in Seq(Runs) /\ RowsOf(r) = RowsOf(p.rest) + b.rows /\ RunFrom(r, before + RowsOf(p.page))
    BY <1>1, <2>2, RunAppend DEF Taken
  <2>. HIDE DEF r
  <2>4. RowsOf(p.page) + RowsOf(r) = total + b.rows
    BY <1>2, <1>3, <2>3 DEF Taken
  <2>. QED
    BY <1>1, <2>1, <2>3, <2>4 DEF Taken
<1>5. CASE ~p.full /\ b.rows > PageRows - p.rows
  <2>. DEFINE room == PageRows - p.rows
              head == [first |-> b.first, rows |-> room]
              tail == [first |-> b.first + room, rows |-> b.rows - room]
              g == Append(p.page, head)
              r == Append(<<>>, tail)
  <2>1. room \in Nat /\ b.rows - room \in Nat /\ p.rest = <<>>
    BY <1>1, <1>2, <1>5 DEF Taken
  <2>2. head \in Runs /\ tail \in Runs
    BY <1>2, <2>1 DEF Runs
  <2>3. TakeBatch(p, b) = [page |-> g, rest |-> r, rows |-> PageRows, full |-> TRUE]
    <3>1. SliceOf(b, 0, room) = head /\ SliceOf(b, room, b.rows - room) = tail
      BY <1>2 DEF SliceOf
    <3>2. TakeBatch(p, b) = CutBatch(p, b)
      BY <1>5 DEF TakeBatch
    <3>. HIDE DEF head, tail
    <3>. QED
      BY <2>1, <3>1, <3>2 DEF CutBatch
  <2>4. RowsOf(p.rest) = 0 /\ RowsOf(p.page) = total
    BY <1>3, <2>1, SizesOfNone DEF Taken
  <2>5. g \in Seq(Runs) /\ RowsOf(g) = total + room /\ RunFrom(g, before)
    BY <1>1, <2>2, <2>4, RunAppend DEF Taken
  <2>6. tail.first = (before + RowsOf(g)) + 0 + 1 /\ before + RowsOf(g) \in Nat
    BY <2>1, <2>5
  <2>7. r \in Seq(Runs) /\ RowsOf(r) = tail.rows /\ RunFrom(r, before + RowsOf(g))
    <3>. HIDE DEF tail, g
    <3>1. RowsOf(r) = RowsOf(<<>>) + tail.rows /\ r \in Seq(Runs)
      BY <2>2, SizesOfNone, RunAppend
    <3>2. RunFrom(<<>>, before + RowsOf(g)) /\ RowsOf(<<>>) = 0
      BY SizesOfNone
    <3>3. RunFrom(r, before + RowsOf(g))
      BY <2>2, <2>6, <3>2, SizesOfNone, RunAppend
    <3>4. tail.rows \in Nat
      BY <2>2 DEF Runs
    <3>. QED
      BY <3>1, <3>2, <3>3, <3>4
  <2>8. RowsOf(g) + RowsOf(r) = total + b.rows
    BY <1>2, <2>1, <2>5, <2>7
  <2>. HIDE DEF g, r
  <2>. QED
    BY <1>2, <2>3, <2>5, <2>7, <2>8 DEF Taken
<1>6. CASE ~p.full /\ ~(b.rows > PageRows - p.rows)
  <2>. DEFINE g == Append(p.page, b)
  <2>1. /\ TakeBatch(p, b) = [page |-> g, rest |-> p.rest, rows |-> p.rows + b.rows, full |-> p.rows + b.rows >= PageRows]
        /\ p.rest = <<>>
    BY <1>1, <1>6 DEF TakeBatch, WholeBatch, Taken
  <2>2. RowsOf(p.rest) = 0 /\ RowsOf(p.page) = total
    BY <1>3, <2>1, SizesOfNone DEF Taken
  <2>3. g \in Seq(Runs) /\ RowsOf(g) = total + b.rows /\ RunFrom(g, before)
    BY <1>1, <2>2, RunAppend DEF Taken
  <2>4. RunFrom(p.rest, before + RowsOf(g)) /\ RowsOf(g) + RowsOf(p.rest) = total + b.rows
    BY <1>2, <2>1, <2>2, <2>3, SizesOfNone
  <2>5. p.rows + b.rows \in Nat /\ p.rows + b.rows <= PageRows
    BY <1>1, <1>2, <1>6
  <2>. HIDE DEF g
  <2>. QED
    BY <1>1, <2>1, <2>3, <2>4, <2>5 DEF Taken
<1>. QED
  BY <1>1, <1>4, <1>5, <1>6

\* take_page loses no row, takes none twice and keeps them in order.
LEMMA TakePageFacts ==
  ASSUME NEW s \in Seq(Runs), NEW before \in Nat, RunFrom(s, before)
  PROVE  /\ TakePage(s).page \in Seq(Runs) /\ TakePage(s).rest \in Seq(Runs)
         /\ RunFrom(TakePage(s).page, before)
         /\ RunFrom(TakePage(s).rest, before + RowsOf(TakePage(s).page))
         /\ RowsOf(TakePage(s).page) + RowsOf(TakePage(s).rest) = RowsOf(s)
<1>. DEFINE None == [page |-> <<>>, rest |-> <<>>, rows |-> 0, full |-> FALSE]
            sums == RowsUpTo(Sizes(s))
            Fits(f) == f = [n \in 0..Len(s) |-> IF n = 0 THEN None ELSE TakeBatch(f[n - 1], s[n])]
<1>1. /\ Len(s) \in Nat /\ DOMAIN s = 1..Len(s)
      /\ \A k \in 0..Len(s) : sums[k] \in Nat
      /\ sums[0] = 0 /\ sums[Len(s)] = RowsOf(s)
      /\ \A k \in 1..Len(s) : sums[k] = sums[k - 1] + s[k].rows
  <2>1. Sizes(s) \in Seq(Nat) /\ Len(Sizes(s)) = Len(s) /\ \A k \in 1..Len(s) : Sizes(s)[k] = s[k].rows
    BY SizesFacts
  <2>2. sums[0] = 0 /\ \A k \in 1..Len(s) : sums[k] = sums[k - 1] + s[k].rows
    BY <2>1, RowsUpToSums
  <2>. QED
    BY <2>1, <2>2, SizesFacts DEF RowsOf, RowCount
<1>. HIDE DEF sums
<1>2. Taken(None, before, 0)
  BY EncodeAssumption, SizesOfNone DEF Taken
<1>3. ASSUME NEW n \in 1..Len(s), NEW p, Taken(p, before, sums[n - 1])
      PROVE  Taken(TakeBatch(p, s[n]), before, sums[n])
  <2>1. s[n] \in Runs /\ n - 1 \in 0..Len(s)
    BY <1>1, ElementOfSeq
  <2>2. s[n].first = before + sums[n - 1] + 1
    BY <1>1 DEF RunFrom, sums
  <2>3. sums[n] = sums[n - 1] + s[n].rows /\ sums[n - 1] \in Nat
    BY <1>1, <2>1
  <2>. HIDE DEF None, Fits
  <2>. QED
    BY <1>3, <2>1, <2>2, <2>3, TakeBatchFacts
<1>. HIDE DEF None
<1>4. \E f : Fits(f)
  <2>. DEFINE UpTo(n) == \E f : f = [k \in 0..n |-> IF k = 0 THEN None ELSE TakeBatch(f[k - 1], s[k])]
              S == {n \in Nat : UpTo(n)}
  <2>1. 0 \in S
    <3>1. [k \in 0..0 |-> None] = [k \in 0..0 |-> IF k = 0 THEN None ELSE TakeBatch([i \in 0..0 |-> None][k - 1], s[k])]
      OBVIOUS
    <3>. QED
      BY <3>1
  <2>2. ASSUME NEW n \in Nat, n \in S PROVE n + 1 \in S
    <3>. HIDE DEF UpTo
    <3>1. UpTo(n)
      BY <2>2
    <3>. USE DEF UpTo
    <3>2. PICK f : f = [k \in 0..n |-> IF k = 0 THEN None ELSE TakeBatch(f[k - 1], s[k])]
      BY <3>1
    <3>. DEFINE last == TakeBatch(f[n], s[n + 1])
                g == [k \in 0..(n + 1) |-> IF k = n + 1 THEN last ELSE f[k]]
    <3>3. ASSUME NEW k \in 0..(n + 1)
          PROVE  g[k] = IF k = 0 THEN None ELSE TakeBatch(g[k - 1], s[k])
      <4>1. CASE k = n + 1
        <5>1. k # 0 /\ k - 1 = n /\ n \in 0..(n + 1) /\ n # n + 1
          BY <4>1
        <5>2. g[k] = last /\ g[k - 1] = f[n]
          BY <4>1, <5>1
        <5>. QED
          BY <4>1, <5>1, <5>2
      <4>2. CASE k # n + 1
        <5>1. k \in 0..n
          BY <4>2
        <5>2. g[k] = f[k]
          BY <4>2
        <5>3. k # 0 => g[k - 1] = f[k - 1]
          BY <5>1
        <5>4. f[k] = IF k = 0 THEN None ELSE TakeBatch(f[k - 1], s[k])
          BY <3>2, <5>1
        <5>. HIDE DEF g
        <5>. QED
          BY <5>2, <5>3, <5>4
      <4>. QED
        BY <4>1, <4>2
    <3>4. g = [k \in 0..(n + 1) |-> g[k]]
      OBVIOUS
    <3>. HIDE DEF g
    <3>5. g = [k \in 0..(n + 1) |-> IF k = 0 THEN None ELSE TakeBatch(g[k - 1], s[k])]
      BY <3>3, <3>4
    <3>. QED
      BY <3>5, SMTT(30)
  <2>3. Nat \subseteq S
    <3>. HIDE DEF S
    <3>. QED
      BY <2>1, <2>2, SetInduction
  <2>4. UpTo(Len(s))
    <3>. HIDE DEF UpTo
    <3>. QED
      BY <1>1, <2>3
  <2>. QED
    BY <2>4
<1>5. PICK f : f = (CHOOSE g : Fits(g)) /\ Fits(f)
  BY <1>4
<1>6. TakePage(s) = f[Len(s)]
  BY <1>5 DEF TakePage, None
<1>7. f[0] = None /\ \A n \in 1..Len(s) : f[n] = TakeBatch(f[n - 1], s[n])
  <2>1. f = [n \in 0..Len(s) |-> IF n = 0 THEN None ELSE TakeBatch(f[n - 1], s[n])]
    BY <1>5
  <2>. HIDE DEF Fits
  <2>2. f[0] = None
    BY <1>1, <2>1
  <2>3. ASSUME NEW n \in 1..Len(s) PROVE f[n] = TakeBatch(f[n - 1], s[n])
    <3>1. n \in 0..Len(s) /\ n # 0
      OBVIOUS
    <3>. QED
      BY <2>1, <3>1
  <2>. QED
    BY <2>2, <2>3
<1>. HIDE DEF Fits
<1>8. Taken(f[Len(s)], before, sums[Len(s)])
  <2>. DEFINE S == {n \in Nat : n <= Len(s) => Taken(f[n], before, sums[n])}
  <2>1. 0 \in S
    BY <1>1, <1>2, <1>7
  <2>2. ASSUME NEW n \in Nat, n \in S PROVE n + 1 \in S
    <3>. SUFFICES ASSUME n + 1 <= Len(s) PROVE Taken(f[n + 1], before, sums[n + 1])
      OBVIOUS
    <3>1. Taken(f[n], before, sums[n]) /\ n + 1 \in 1..Len(s) /\ (n + 1) - 1 = n
      BY <1>1, <2>2
    <3>2. f[n + 1] = TakeBatch(f[n], s[n + 1])
      BY <1>7, <3>1
    <3>. QED
      BY <1>3, <3>1, <3>2
  <2>3. Nat \subseteq S
    <3>. HIDE DEF S
    <3>. QED
      BY <2>1, <2>2, SetInduction
  <2>. QED
    BY <1>1, <2>3
<1>. QED
  BY <1>1, <1>6, <1>8 DEF Taken

-----------------------------------------------------------------------------
(* The chunks of the result.                                                *)

ChunkRows == [n \in DOMAIN chunks |-> RowCount(chunks[n])]

LEMMA ChunkFacts ==
  ASSUME chunks \in Results
  PROVE  /\ Len(chunks) \in Nat /\ DOMAIN chunks = 1..Len(chunks)
         /\ RowsBefore(1) = 0
         /\ \A i \in 1..(Len(chunks) + 1) : RowsBefore(i) \in Nat /\ RowsBefore(i) <= TotalRows
         /\ \A i \in 1..Len(chunks) :
              /\ chunks[i] \in Seq(Nat)
              /\ RowsBefore(i + 1) = RowsBefore(i) + RowCount(chunks[i])
<1>1. Len(chunks) \in Nat /\ DOMAIN chunks = 1..Len(chunks) /\ chunks \in Seq(Seq(Nat))
  BY ResultsAssumption
<1>2. \A i \in 1..Len(chunks) : chunks[i] \in Seq(Nat)
  BY <1>1, ElementOfSeq
<1>3. ChunkRows \in Seq(Nat) /\ Len(ChunkRows) = Len(chunks)
  <2>1. ChunkRows \in [1..Len(chunks) -> Nat]
    BY <1>1, <1>2, CountType DEF ChunkRows
  <2>. QED
    BY <1>1, <2>1, FunctionIsSeq
<1>. DEFINE sums == RowsUpTo(ChunkRows)
<1>4. /\ \A k \in 0..Len(chunks) : sums[k] \in Nat /\ sums[k] <= RowCount(ChunkRows)
      /\ sums[0] = 0
      /\ \A k \in 1..Len(chunks) : sums[k] = sums[k - 1] + ChunkRows[k]
  BY <1>3, CountType, PrefixIsLess, RowsUpToSums
<1>5. \A i : RowsBefore(i) = sums[i - 1]
  BY DEF RowsBefore, ChunkRows
<1>6. RowCount(ChunkRows) = sums[Len(chunks)]
  BY <1>3 DEF RowCount
<1>. HIDE DEF sums
<1>7. TotalRows = sums[Len(chunks)]
  <2>1. (Len(chunks) + 1) - 1 = Len(chunks)
    BY <1>1
  <2>. QED
    BY <1>5, <2>1 DEF TotalRows
<1>8. RowsBefore(1) = 0
  BY <1>4, <1>5
<1>9. ASSUME NEW i \in 1..(Len(chunks) + 1) PROVE RowsBefore(i) \in Nat /\ RowsBefore(i) <= TotalRows
  <2>1. i - 1 \in 0..Len(chunks)
    BY <1>1
  <2>. QED
    BY <1>4, <1>5, <1>6, <1>7, <2>1
<1>10. ASSUME NEW i \in 1..Len(chunks) PROVE RowsBefore(i + 1) = RowsBefore(i) + RowCount(chunks[i])
  <2>1. (i + 1) - 1 = i /\ ChunkRows[i] = RowCount(chunks[i])
    BY <1>1 DEF ChunkRows
  <2>. QED
    BY <1>4, <1>5, <2>1
<1>. QED
  BY <1>1, <1>2, <1>8, <1>9, <1>10

LEMMA DecodedFacts ==
  ASSUME chunks \in Results, NEW i \in 1..Len(chunks)
  PROVE  /\ DecodedBatches(i) \in Seq(Runs)
         /\ RunFrom(DecodedBatches(i), RowsBefore(i))
         /\ RowsOf(DecodedBatches(i)) = RowCount(chunks[i])
<1>. DEFINE c == chunks[i]
            d == DecodedBatches(i)
            before == RowsBefore(i)
<1>1. c \in Seq(Nat) /\ before \in Nat /\ Len(c) \in Nat /\ DOMAIN c = 1..Len(c)
  BY ChunkFacts
<1>2. d = [k \in 1..Len(c) |-> [first |-> before + RowsUpTo(c)[k - 1] + 1, rows |-> c[k]]]
  BY <1>1 DEF DecodedBatches
<1>. HIDE DEF c, d, before
<1>3. \A k \in 0..Len(c) : RowsUpTo(c)[k] \in Nat
  BY <1>1, CountType
<1>4. ASSUME NEW k \in 1..Len(c)
      PROVE  d[k] \in Runs /\ d[k].rows = c[k] /\ d[k].first = before + RowsUpTo(c)[k - 1] + 1
  <2>1. c[k] \in Nat /\ k - 1 \in 0..Len(c)
    BY <1>1, ElementOfSeq
  <2>2. RowsUpTo(c)[k - 1] \in Nat
    BY <1>3, <2>1
  <2>. QED
    BY <1>1, <1>2, <2>1, <2>2, SMTT(30) DEF Runs
<1>5. d \in Seq(Runs) /\ DOMAIN d = 1..Len(c)
  <2>1. DOMAIN d = 1..Len(c) /\ d = [k \in 1..Len(c) |-> d[k]]
    BY <1>2
  <2>2. d \in [1..Len(c) -> Runs]
    BY <1>4, <2>1
  <2>. QED
    BY <1>1, <2>1, <2>2
<1>6. Sizes(d) = c
  <2>1. Sizes(d) = [k \in 1..Len(c) |-> c[k]]
    BY <1>4, <1>5 DEF Sizes
  <2>. QED
    BY <1>1, <2>1
<1>. QED
  BY <1>4, <1>5, <1>6 DEF RunFrom, RowsOf, c, d, before

-----------------------------------------------------------------------------
(* Tasks, hook and reports: an invariant of its own.                        *)

Control == TypeOK /\ TaskInv /\ HookInv /\ ReportInv

LEMMA InitControl == Init => Control
<1>. SUFFICES ASSUME Init PROVE Control
  OBVIOUS
<1>1. TypeOK
  <2>1. cancels \in 0..MaxCancels
    BY ResultsAssumption DEF Init
  <2>2. aborted \in BOOLEAN /\ asString \in BOOLEAN
    BY Zenon DEF Init
  <2>. QED
    BY <2>1, <2>2, Zenon DEF Init, Source!Init, TypeOK, InFlightInit, InFlightTypeOK, Cleanups
<1>2. TaskInv /\ HookInv
  BY DEF Init, Source!Init, TaskInv, HookInv, Submission, InFlightInit
<1>3. ReportInv
  BY DEF Init, ReportInv, Submission, Pull
<1>. QED
  BY <1>1, <1>2, <1>3 DEF Control

LEMMA IteratorControl ==
  ASSUME Control
  PROVE  /\ Anext => Control'
         /\ CheckDeadline => Control'
         /\ anext = "waiting" /\ BeginRunning => Control'
         /\ anext = "waiting" /\ HandOver => Control'
         /\ anext = "waiting" /\ StopAsUsual => Control'
         /\ RaiseTimeout => Control'
         /\ Heartbeat => Control'
         /\ CancelAnext => Control'
         /\ DropIter => Control'
         /\ Expire => Control'
<1>. USE DEF Control, TypeOK, TaskInv, HookInv, ReportInv, Submission, Pull, Over, Outcomes, sourceVars, fixedVars,
             taskVars, cancelVars, callerVars, InFlightTypeOK, Cleanups, inFlightVars
<1>1. Anext => Control'
  BY DEF Anext, StartSubmission, ResumeOrPull, StartTask
<1>2. CheckDeadline => Control'
  BY DEF CheckDeadline, Fire
<1>3. anext = "waiting" /\ BeginRunning => Control'
  BY DEF BeginRunning, StartTask
<1>4. anext = "waiting" /\ HandOver => Control'
  BY DEF HandOver
<1>5. anext = "waiting" /\ StopAsUsual => Control'
  BY DEF StopAsUsual, Stop, DropStream
<1>6. RaiseTimeout => Control'
  BY DEF RaiseTimeout, Stop, DropStream, TaskIsOver
<1>7. Heartbeat => Control'
  BY DEF Heartbeat, OnlyAnext
<1>8. CancelAnext => Control'
  BY ResultsAssumption DEF CancelAnext, OnlyAnext
<1>9. DropIter => Control'
  BY DEF DropIter, DropStream, Fire
<1>10. Expire => Control'
  BY DEF Expire
<1>. QED
  BY <1>1, <1>2, <1>3, <1>4, <1>5, <1>6, <1>7, <1>8, <1>9, <1>10

LEMMA TaskControl ==
  ASSUME Control
  PROVE  /\ Submit => Control'
         /\ StatementAccepted => Control'
         /\ ServerFinishes \/ CleanUp => Control'
         /\ SubmitOk => Control'
         /\ SubmitError => Control'
         /\ AbortSubmission => Control'
         /\ StartPull => Control'
         /\ task = "pulling" /\ PullChunk => Control'
         /\ task = "pulling" /\ PullEnd => Control'
         /\ task = "pulling" /\ PullError => Control'
         /\ task = "decoding" /\ DecodeOk => Control'
         /\ task \in {"decoding", "encoding"} /\ WorkFails => Control'
         /\ task = "encoding" /\ EncodeOk => Control'
         /\ AbortPull => Control'
         /\ OrphanEnds => Control'
<1>. USE DEF Control, TypeOK, TaskInv, HookInv, ReportInv, Submission, Pull, Over, Outcomes, sourceVars, fixedVars,
             taskVars, cancelVars, callerVars, InFlightTypeOK, Cleanups, inFlightVars, SubmitVars, PullVars
<1>1. Submit => Control'
  BY DEF Submit
<1>2. SubmitOk => Control'
  BY DEF SubmitOk
<1>3. SubmitError => Control'
  BY DEF SubmitError, Finish, Unheard, CancelInFlight
<1>4. AbortSubmission => Control'
  BY DEF AbortSubmission, AbandonPost, Unheard, CancelInFlight
<1>14. StatementAccepted => Control'
  BY DEF StatementAccepted, Heard
<1>15. ServerFinishes \/ CleanUp => Control'
  BY DEF ServerFinishes, CleanUp, StatementEnds, CleanupStep, HandleArrives, CancelEnds
<1>5. StartPull => Control'
  BY DEF StartPull, StartEncoding
<1>6. task = "pulling" /\ PullChunk => Control'
  BY DEF PullChunk, Source!Deliver
<1>7. task = "pulling" /\ PullEnd => Control'
  BY DEF PullEnd, Source!End, Finish
<1>8. task = "pulling" /\ PullError => Control'
  BY DEF PullError, Source!Fail, PullFails, Finish
<1>9. task = "decoding" /\ DecodeOk => Control'
  BY DEF DecodeOk, StartEncoding
<1>10. task \in {"decoding", "encoding"} /\ WorkFails => Control'
  BY DEF WorkFails, PullFails, Finish
<1>11. task = "encoding" /\ EncodeOk => Control'
  BY DEF EncodeOk
<1>12. AbortPull => Control'
  BY DEF AbortPull, Finish, DropStream
<1>13. OrphanEnds => Control'
  BY DEF OrphanEnds, DropStream, TaskIsOver
<1>. QED
  BY <1>1, <1>2, <1>3, <1>4, <1>5, <1>6, <1>7, <1>8, <1>9, <1>10, <1>11, <1>12, <1>13,
     <1>14, <1>15

-----------------------------------------------------------------------------
(* What has been pulled.                                                    *)

Pulled == Control /\ SourceInv

LEMMA InitSource == Init => SourceInv
<1>. SUFFICES ASSUME Init PROVE SourceInv
  OBVIOUS
<1>1. pulled = <<>> /\ source = "reading" /\ task = "none" /\ chunks \in Results
  BY DEF Init, Source!Init
<1>2. pulled = [n \in 1..0 |-> [index |-> n, link |-> 1]] /\ Len(pulled) = 0
  BY <1>1
<1>3. Len(chunks) \in Nat
  BY <1>1, ChunkFacts
<1>. QED
  BY <1>1, <1>2, <1>3 DEF SourceInv

\* What has been pulled is the first chunks of the result.
LEMMA PulledFirst ==
  ASSUME Pulled
  PROVE  /\ Len(pulled) \in Nat /\ Len(chunks) \in Nat /\ Len(pulled) <= Len(chunks)
         /\ DOMAIN pulled = 1..Len(pulled)
         /\ \A n \in 1..Len(pulled) : pulled[n] = [index |-> n, link |-> 1]
         /\ \A b \in Source!Given : b.index \in 1..Len(pulled)
         /\ \A n \in 1..Len(pulled) : [index |-> n, link |-> 1] \in Source!Given
         /\ ChunkBlobs = {[index |-> n, link |-> 1] : n \in 1..Len(chunks)}
<1>1. Len(chunks) \in Nat /\ DOMAIN chunks = 1..Len(chunks)
  BY ChunkFacts DEF Pulled, Control, TypeOK
<1>2. pulled = [n \in 1..Len(pulled) |-> [index |-> n, link |-> 1]] /\ Len(pulled) \in 0..Len(chunks)
  BY DEF Pulled, SourceInv
<1>3. DOMAIN pulled = 1..Len(pulled) /\ \A n \in 1..Len(pulled) : pulled[n] = [index |-> n, link |-> 1]
  BY <1>2
<1>5. \A b \in Source!Given : b.index \in 1..Len(pulled)
  BY <1>3 DEF Source!Given
<1>6. \A n \in 1..Len(pulled) : [index |-> n, link |-> 1] \in Source!Given
  BY <1>3 DEF Source!Given
<1>7. ChunkBlobs = {[index |-> n, link |-> 1] : n \in 1..Len(chunks)}
  <2>1. ASSUME NEW b \in ChunkBlobs PROVE \E n \in 1..Len(chunks) : b = [index |-> n, link |-> 1]
    <3>1. b.index \in 1..Len(chunks) /\ b = [index |-> b.index, link |-> 1]
      BY <1>1 DEF ChunkBlobs
    <3>. QED
      BY <3>1
  <2>2. \A n \in 1..Len(chunks) : [index |-> n, link |-> 1] \in ChunkBlobs
    BY <1>1 DEF ChunkBlobs
  <2>. QED
    BY <2>1, <2>2
<1>8. Len(pulled) \in Nat /\ Len(pulled) <= Len(chunks)
  BY <1>1, <1>2
<1>. QED
  BY <1>1, <1>3, <1>5, <1>6, <1>7, <1>8, Zenon

\* Only the next chunk can be delivered.
LEMMA DeliversNext ==
  ASSUME Pulled, NEW blob \in ChunkBlobs, Source!Deliver(blob)
  PROVE  blob = [index |-> Len(pulled) + 1, link |-> 1] /\ Len(pulled) + 1 \in 1..Len(chunks)
<1>1. blob \notin Source!Given /\ \A a \in ChunkBlobs : a.index < blob.index => a \in Source!Given
  BY DEF Source!Deliver, Source!Precedes
<1>2. PICK n \in 1..Len(chunks) : blob = [index |-> n, link |-> 1]
  BY PulledFirst
<1>3. Len(pulled) \in Nat /\ Len(chunks) \in Nat
  BY PulledFirst
<1>4. ~(n <= Len(pulled))
  <2>1. n \in 1..Len(pulled) => blob \in Source!Given
    BY <1>2, PulledFirst
  <2>. QED
    BY <1>1, <1>3, <2>1
<1>5. ~(Len(pulled) + 1 < n)
  <2>. SUFFICES ASSUME Len(pulled) + 1 < n PROVE FALSE
    OBVIOUS
  <2>. DEFINE a == [index |-> Len(pulled) + 1, link |-> 1]
  <2>1. Len(pulled) + 1 \in 1..Len(chunks)
    BY <1>3
  <2>2. a \in ChunkBlobs /\ a.index = Len(pulled) + 1
    BY <2>1, PulledFirst
  <2>3. a \in Source!Given
    BY <1>1, <1>2, <2>2
  <2>4. Len(pulled) + 1 \in 1..Len(pulled)
    BY <2>2, <2>3, PulledFirst
  <2>. QED
    BY <1>3, <2>4
<1>6. n = Len(pulled) + 1
  BY <1>3, <1>4, <1>5
<1>. QED
  BY <1>2, <1>6

\* A source that has ended has given every chunk.
LEMMA EndPulledAll ==
  ASSUME Pulled, Source!End
  PROVE  Len(pulled) = Len(chunks)
<1>1. Len(pulled) \in Nat /\ Len(chunks) \in Nat /\ Len(pulled) <= Len(chunks)
  BY PulledFirst
<1>. SUFFICES ASSUME Len(pulled) # Len(chunks) PROVE FALSE
  OBVIOUS
<1>. DEFINE a == [index |-> Len(pulled) + 1, link |-> 1]
<1>2. Len(pulled) + 1 \in 1..Len(chunks)
  BY <1>1
<1>3. a \in ChunkBlobs
  BY <1>2, PulledFirst
<1>4. a \in Source!Given
  BY <1>3 DEF Source!End
<1>5. Len(pulled) + 1 \in 1..Len(pulled)
  BY <1>4, PulledFirst
<1>. QED
  BY <1>1, <1>5

LEMMA PullChunkSource ==
  ASSUME Pulled, task = "pulling", PullChunk
  PROVE  /\ pulled' = Append(pulled, [index |-> Len(pulled) + 1, link |-> 1])
         /\ Len(pulled') = Len(pulled) + 1 /\ Len(pulled') \in 1..Len(chunks)
         /\ SourceInv'
<1>1. PICK blob \in ChunkBlobs : Source!Deliver(blob)
  BY DEF PullChunk
<1>. DEFINE n == Len(pulled)
<1>2. blob = [index |-> n + 1, link |-> 1] /\ n + 1 \in 1..Len(chunks)
  BY <1>1, DeliversNext
<1>3. /\ pulled' = Append(pulled, [index |-> n + 1, link |-> 1]) /\ chunks' = chunks
      /\ source = "reading" /\ source' = source
  BY <1>1, <1>2 DEF PullChunk, Source!Deliver
<1>4. n \in Nat /\ DOMAIN pulled = 1..n /\ \A k \in 1..n : pulled[k] = [index |-> k, link |-> 1]
  BY PulledFirst
<1>5. pulled = [k \in 1..n |-> [index |-> k, link |-> 1]]
  BY DEF Pulled, SourceInv
<1>. HIDE DEF n
<1>6. Append(pulled, [index |-> n + 1, link |-> 1]) = [k \in 1..(n + 1) |-> [index |-> k, link |-> 1]]
  BY <1>4, <1>5
<1>7. Len(pulled') = n + 1
  BY <1>3, <1>4, <1>6
<1>8. SourceInv'
  BY <1>2, <1>3, <1>4, <1>6, <1>7 DEF SourceInv
<1>. QED
  BY <1>2, <1>3, <1>7, <1>8 DEF n

-----------------------------------------------------------------------------
(* The rows.                                                                *)

LEMMA PageFacts ==
  ASSUME Typed
  PROVE  /\ PageSizes \in Seq(Nat) /\ Len(PageSizes) = Len(given) /\ RowsGiven \in Nat
         /\ Len(given) \in Nat /\ DOMAIN given = 1..Len(given)
         /\ InPage \in Seq(Runs) /\ RowsOf(InPage) \in Nat /\ RowsOf(pending) \in Nat
<1>1. Len(given) \in Nat /\ DOMAIN given = 1..Len(given)
  BY DEF Typed
<1>2. ASSUME NEW n \in 1..Len(given) PROVE RowsOf(given[n]) \in Nat
  <2>1. given[n] \in Seq(Runs)
    BY ElementOfSeq DEF Typed
  <2>. QED
    BY <2>1, SizesFacts
<1>3. PageSizes \in [1..Len(given) -> Nat]
  BY <1>1, <1>2 DEF PageSizes
<1>4. PageSizes \in Seq(Nat) /\ Len(PageSizes) = Len(given)
  BY <1>1, <1>3, FunctionIsSeq
<1>5. RowsGiven \in Nat
  BY <1>4, CountType DEF RowsGiven
<1>6. InPage \in Seq(Runs)
  BY SizesOfNone DEF InPage, Typed
<1>7. RowsOf(InPage) \in Nat /\ RowsOf(pending) \in Nat
  BY <1>6, SizesFacts DEF Typed
<1>. QED
  BY <1>1, <1>4, <1>5, <1>6, <1>7

LEMMA RowsStay ==
  ASSUME RowsInv, UNCHANGED <<chunks, given, pending>>,
         Flowing' => Flowing /\ InPage' = InPage /\ Decoded' = Decoded
  PROVE  RowsInv'
<1>1. PagesInOrder' /\ RowsGiven' = RowsGiven
  BY DEF RowsInv, PagesInOrder, RowsGiven, PageSizes, TotalRows, RowsBefore
<1>2. ASSUME Flowing'
      PROVE  /\ RunFrom(InPage', RowsGiven)
             /\ RunFrom(pending', RowsGiven + RowsOf(InPage'))
             /\ RowsGiven + RowsOf(InPage') + RowsOf(pending') = RowsBefore(Decoded + 1)'
  <2>1. RowsBefore(Decoded + 1)' = RowsBefore(Decoded + 1)
    BY <1>2 DEF RowsBefore
  <2>. QED
    BY <1>2, <2>1 DEF RowsInv
<1>. QED
  BY <1>1, <1>2 DEF RowsInv

\* A page is taken from what comes next after the rows that have been given.
LEMMA StartEncodingRows ==
  ASSUME Typed, PagesInOrder, UNCHANGED <<chunks, pulled, given>>,
         NEW s \in Seq(Runs), StartEncoding(s), RunFrom(s, RowsGiven),
         RowsGiven + RowsOf(s) = RowsBefore(Len(pulled) + 1)
  PROVE  RowsInv' /\ page' \in Seq(Runs) /\ pending' \in Seq(Runs)
<1>1. task' = "encoding" /\ page' = TakePage(s).page /\ pending' = TakePage(s).rest
  BY DEF StartEncoding
<1>2. RowsGiven \in Nat
  BY PageFacts
<1>3. /\ page' \in Seq(Runs) /\ pending' \in Seq(Runs)
      /\ RunFrom(page', RowsGiven) /\ RunFrom(pending', RowsGiven + RowsOf(page'))
      /\ RowsOf(page') + RowsOf(pending') = RowsOf(s)
  BY <1>1, <1>2, TakePageFacts
<1>4. InPage' = page' /\ Decoded' = Len(pulled)
  BY <1>1 DEF InPage, Decoded
<1>5. PagesInOrder' /\ RowsGiven' = RowsGiven
  BY DEF PagesInOrder, RowsGiven, PageSizes, TotalRows, RowsBefore
<1>6. RowsBefore(Decoded + 1)' = RowsBefore(Len(pulled) + 1)
  BY <1>4, Zenon DEF RowsBefore
<1>7. RowsOf(page') \in Nat /\ RowsOf(pending') \in Nat
  BY <1>3, SizesFacts
<1>8. RowsGiven + RowsOf(page') + RowsOf(pending') = RowsBefore(Len(pulled) + 1)
  BY <1>2, <1>3, <1>7
<1>. QED
  BY <1>3, <1>4, <1>5, <1>6, <1>8 DEF RowsInv

LEMMA HandOverRows ==
  ASSUME StreamInv, HandOver
  PROVE  RowsInv' /\ given' \in Seq(Seq(Runs))
<1>. DEFINE m == Len(given)
<1>1. /\ task = "page" /\ given' = Append(given, page) /\ task' = "none"
      /\ UNCHANGED <<chunks, pulled, pending, told>>
  BY DEF HandOver, sourceVars
<1>2. Flowing /\ InPage = page /\ Decoded = Len(pulled) /\ InPage' = <<>> /\ Decoded' = Len(pulled)
  <2>1. told = "nothing"
    BY <1>1 DEF StreamInv, TaskInv
  <2>. QED
    BY <1>1, <2>1 DEF Flowing, InPage, Decoded
<1>3. /\ RunFrom(page, RowsGiven) /\ RunFrom(pending, RowsGiven + RowsOf(page))
      /\ RowsGiven + RowsOf(page) + RowsOf(pending) = RowsBefore(Len(pulled) + 1)
      /\ PagesInOrder
  BY <1>2 DEF StreamInv, RowsInv
<1>4. /\ PageSizes \in Seq(Nat) /\ Len(PageSizes) = m /\ RowsGiven \in Nat
      /\ m \in Nat /\ DOMAIN given = 1..m
      /\ page \in Seq(Runs) /\ RowsOf(page) \in Nat /\ RowsOf(pending) \in Nat
  BY <1>2, PageFacts DEF StreamInv
<1>5. given \in Seq(Seq(Runs))
  BY DEF StreamInv, Typed
<1>6. /\ given' \in Seq(Seq(Runs)) /\ DOMAIN given' = 1..(m + 1) /\ given'[m + 1] = page
      /\ \A n \in 1..m : given'[n] = given[n]
  BY <1>1, <1>4, <1>5
<1>7. PageSizes' = Append(PageSizes, RowsOf(page))
  <2>1. PageSizes' = [n \in 1..(m + 1) |-> RowsOf(given'[n])]
    BY <1>6 DEF PageSizes
  <2>2. PageSizes = [n \in 1..m |-> RowsOf(given[n])]
    BY <1>4 DEF PageSizes
  <2>. DEFINE t == Append(PageSizes, RowsOf(page))
  <2>3. /\ t = [n \in 1..(m + 1) |-> t[n]] /\ t[m + 1] = RowsOf(page)
        /\ \A n \in 1..m : t[n] = PageSizes[n]
    <3>. HIDE DEF m
    <3>1. t \in Seq(Nat) /\ Len(t) = m + 1 /\ t[m + 1] = RowsOf(page) /\ \A n \in 1..m : t[n] = PageSizes[n]
      BY <1>4
    <3>. HIDE DEF t
    <3>2. t = [n \in 1..Len(t) |-> t[n]]
      BY <3>1
    <3>. QED
      BY <3>1, <3>2
  <2>. HIDE DEF m, t
  <2>4. ASSUME NEW n \in 1..(m + 1) PROVE t[n] = RowsOf(given'[n])
    <3>1. CASE n = m + 1
      BY <1>6, <2>3, <3>1
    <3>2. CASE n # m + 1
      <4>1. n \in 1..m
        BY <1>4, <3>2
      <4>. QED
        BY <1>6, <2>2, <2>3, <4>1
    <3>. QED
      BY <3>1, <3>2
  <2>. QED
    BY <2>1, <2>3, <2>4 DEF t
<1>8. /\ RowsGiven' = RowsGiven + RowsOf(page)
      /\ \A k \in 0..m : RowsUpTo(PageSizes')[k] = RowsUpTo(PageSizes)[k]
  BY <1>4, <1>7, CountAppend DEF RowsGiven
<1>9. TotalRows' = TotalRows
  BY <1>1 DEF TotalRows, RowsBefore
<1>10. RowsGiven' <= TotalRows
  <2>1. Len(pulled) + 1 \in 1..(Len(chunks) + 1) /\ chunks \in Results
    <3>1. chunks \in Results /\ Len(pulled) \in 0..Len(chunks)
      BY DEF StreamInv, SourceInv, Typed, TypeOK
    <3>2. Len(chunks) \in Nat
      BY <3>1, ChunkFacts
    <3>. QED
      BY <3>1, <3>2
  <2>2. RowsBefore(Len(pulled) + 1) \in Nat /\ RowsBefore(Len(pulled) + 1) <= TotalRows
    BY <2>1, ChunkFacts
  <2>3. TotalRows \in Nat
    <3>1. Len(chunks) \in Nat /\ Len(chunks) + 1 \in 1..(Len(chunks) + 1)
      BY <2>1, ChunkFacts
    <3>. QED
      BY <2>1, <3>1, ChunkFacts DEF TotalRows
  <2>. QED
    BY <1>3, <1>4, <1>8, <2>2, <2>3
<1>11. ASSUME NEW n \in 1..(m + 1) PROVE RunFrom(given'[n], RowsUpTo(PageSizes')[n - 1])
  <2>1. CASE n = m + 1
    <3>1. n - 1 = m /\ m \in 0..m
      BY <1>4, <2>1
    <3>2. RowsUpTo(PageSizes')[n - 1] = RowsGiven
      BY <1>4, <1>8, <3>1 DEF RowsGiven, RowCount
    <3>. QED
      BY <1>3, <1>6, <2>1, <3>2
  <2>2. CASE n # m + 1
    <3>1. n \in 1..m /\ n - 1 \in 0..m
      BY <1>4, <2>2
    <3>2. RunFrom(given[n], RowsUpTo(PageSizes)[n - 1])
      BY <1>3, <1>4, <3>1 DEF PagesInOrder
    <3>. QED
      BY <1>6, <1>8, <3>1, <3>2
  <2>. QED
    BY <2>1, <2>2
<1>12. PagesInOrder'
  BY <1>6, <1>9, <1>10, <1>11 DEF PagesInOrder
<1>13. /\ RunFrom(InPage', RowsGiven') /\ RowsOf(InPage') = 0
       /\ RunFrom(pending', RowsGiven' + RowsOf(InPage'))
       /\ RowsGiven' + RowsOf(InPage') + RowsOf(pending') = RowsBefore(Decoded + 1)'
  <2>1. RunFrom(InPage', RowsGiven') /\ RowsOf(InPage') = 0
    BY <1>2, SizesOfNone
  <2>2. RowsGiven' + RowsOf(InPage') = RowsGiven + RowsOf(page)
    BY <1>4, <1>8, <2>1
  <2>3. RowsBefore(Decoded + 1)' = RowsBefore(Len(pulled) + 1)
    BY <1>1, <1>2 DEF RowsBefore
  <2>. QED
    BY <1>1, <1>3, <2>1, <2>2, <2>3
<1>. QED
  BY <1>6, <1>12, <1>13 DEF RowsInv

-----------------------------------------------------------------------------
(* The inductive invariant.                                                 *)

LEMMA InitInv == Init => StreamInv
<1>. SUFFICES ASSUME Init PROVE StreamInv
  OBVIOUS
<1>1. Control /\ SourceInv
  BY InitControl, InitSource
<1>2. pending = <<>> /\ page = <<>> /\ given = <<>> /\ pulled = <<>> /\ task = "none" /\ told = "nothing"
  BY DEF Init, Source!Init
<1>3. Typed
  BY <1>1, <1>2 DEF Typed, Control
<1>4. PageSizes = <<>> /\ RowsGiven = 0
  <2>1. PageSizes = <<>>
    BY <1>2 DEF PageSizes
  <2>. QED
    BY <2>1, CountOfNone DEF RowsGiven
<1>5. Decoded = 0 /\ InPage = <<>>
  BY <1>2 DEF Decoded, InPage
<1>6. chunks \in Results
  BY DEF Init
<1>7. RowsBefore(1) = 0 /\ 0 <= TotalRows
  <2>1. Len(chunks) \in Nat /\ 1 \in 1..(Len(chunks) + 1)
    BY <1>6, ChunkFacts
  <2>. QED
    BY <1>6, <2>1, ChunkFacts
<1>8. PagesInOrder
  BY <1>2, <1>4, <1>7 DEF PagesInOrder
<1>9. RowsBefore(Decoded + 1) = 0
  <2>1. Decoded + 1 = 1
    BY <1>5
  <2>. QED
    BY <1>7, <2>1
<1>10. RunFrom(InPage, RowsGiven) /\ RunFrom(pending, RowsGiven + RowsOf(InPage)) /\ RowsOf(InPage) = 0 /\ RowsOf(pending) = 0
  BY <1>2, <1>5, SizesOfNone
<1>. QED
  BY <1>1, <1>3, <1>4, <1>8, <1>9, <1>10 DEF StreamInv, Control, RowsInv

LEMMA SourceStays ==
  ASSUME SourceInv, UNCHANGED <<chunks, pulled>>,
         source' = "done" => source = "done", task' = "decoding" => task = "decoding"
  PROVE  SourceInv'
BY DEF SourceInv

\* No row moves: the steps of the caller, of the clock and of the submission, and
\* every pull that fails or is given up.
Idle ==
  /\ UNCHANGED <<chunks, pulled, given, pending>>
  /\ page' \in {page, <<>>}
  /\ source' = "done" => source = "done"
  /\ task' = "decoding" => task = "decoding"
  /\ Flowing' => Flowing /\ InPage' = InPage /\ (task = "decoding" => task' = "decoding")

LEMMA IdleInv == StreamInv /\ Control' /\ Idle => StreamInv'
<1>. SUFFICES ASSUME StreamInv, Control', Idle PROVE StreamInv'
  OBVIOUS
<1>1. Typed'
  BY SizesOfNone DEF StreamInv, Typed, Control, Idle
<1>2. SourceInv'
  BY SourceStays DEF StreamInv, Idle
<1>3. Flowing' => Flowing /\ InPage' = InPage /\ Decoded' = Decoded
  BY DEF Idle, Decoded
<1>4. RowsInv'
  BY <1>3, RowsStay DEF StreamInv, Idle
<1>. QED
  BY <1>1, <1>2, <1>4 DEF StreamInv, Control

LEMMA IteratorInv ==
  ASSUME StreamInv
  PROVE  /\ Anext => StreamInv'
         /\ CheckDeadline => StreamInv'
         /\ anext = "waiting" /\ BeginRunning => StreamInv'
         /\ anext = "waiting" /\ HandOver => StreamInv'
         /\ anext = "waiting" /\ StopAsUsual => StreamInv'
         /\ RaiseTimeout => StreamInv'
         /\ Heartbeat => StreamInv'
         /\ CancelAnext => StreamInv'
         /\ DropIter => StreamInv'
         /\ Expire => StreamInv'
<1>. Control
  BY DEF StreamInv, Typed, Control
<1>. USE DEF sourceVars, fixedVars, taskVars, cancelVars, callerVars, Flowing, InPage, Idle
<1>1. ASSUME Anext PROVE StreamInv'
  BY <1>1, IteratorControl, IdleInv DEF Anext, StartSubmission, ResumeOrPull, StartTask, Control, TaskInv
<1>2. ASSUME CheckDeadline PROVE StreamInv'
  BY <1>2, IteratorControl, IdleInv DEF CheckDeadline
<1>3. ASSUME anext = "waiting", BeginRunning PROVE StreamInv'
  BY <1>3, IteratorControl, IdleInv DEF BeginRunning, StartTask
<1>4. ASSUME anext = "waiting", HandOver PROVE StreamInv'
  <2>1. Control' /\ RowsInv' /\ given' \in Seq(Seq(Runs))
    BY <1>4, IteratorControl, HandOverRows
  <2>2. UNCHANGED <<chunks, pulled, pending, page, source>> /\ task' = "none"
    BY <1>4 DEF HandOver
  <2>3. Typed'
    BY <2>1, <2>2 DEF StreamInv, Typed, Control
  <2>4. SourceInv'
    BY <2>2, SourceStays DEF StreamInv
  <2>. QED
    BY <2>1, <2>3, <2>4 DEF StreamInv, Control
<1>5. ASSUME anext = "waiting", StopAsUsual PROVE StreamInv'
  BY <1>5, IteratorControl, IdleInv DEF StopAsUsual, Stop, DropStream, Control, TaskInv
<1>6. ASSUME RaiseTimeout PROVE StreamInv'
  BY <1>6, IteratorControl, IdleInv DEF RaiseTimeout, Stop, DropStream
<1>7. ASSUME Heartbeat PROVE StreamInv'
  BY <1>7, IteratorControl, IdleInv DEF Heartbeat, OnlyAnext
<1>8. ASSUME CancelAnext PROVE StreamInv'
  BY <1>8, IteratorControl, IdleInv DEF CancelAnext, OnlyAnext
<1>9. ASSUME DropIter PROVE StreamInv'
  BY <1>9, IteratorControl, IdleInv DEF DropIter, DropStream
<1>10. ASSUME Expire PROVE StreamInv'
  BY <1>10, IteratorControl, IdleInv DEF Expire
<1>. QED
  BY <1>1, <1>2, <1>3, <1>4, <1>5, <1>6, <1>7, <1>8, <1>9, <1>10

\* The batches of the chunk just pulled, or the rest of an earlier one, are next.
LEMMA StartPullInv == StreamInv /\ StartPull => StreamInv'
<1>. SUFFICES ASSUME StreamInv, StartPull PROVE StreamInv'
  OBVIOUS
<1>1. Control
  BY DEF StreamInv, Typed, Control
<1>2. Control'
  BY <1>1, TaskControl
<1>3. /\ task = "pull" /\ told = "nothing"
      /\ UNCHANGED <<chunks, pulled, source, given, told>>
  BY DEF StartPull, sourceVars, PullVars, callerVars, StreamInv, TaskInv
<1>4. CASE pending = <<>>
  BY <1>2, <1>3, <1>4, IdleInv DEF StartPull, Idle, Flowing, InPage
<1>5. CASE pending # <<>>
  <2>1. StartEncoding(pending) /\ task' = "encoding"
    BY <1>5 DEF StartPull, StartEncoding
  <2>2. Flowing /\ InPage = <<>> /\ Decoded = Len(pulled)
    BY <1>3 DEF Flowing, InPage, Decoded
  <2>3. RowsGiven \in Nat /\ RowsOf(pending) \in Nat /\ RowsOf(InPage) = 0
    BY <2>2, PageFacts, SizesOfNone DEF StreamInv
  <2>4. RunFrom(pending, RowsGiven) /\ RowsGiven + RowsOf(pending) = RowsBefore(Len(pulled) + 1) /\ PagesInOrder
    BY <2>2, <2>3 DEF StreamInv, RowsInv
  <2>5. pending \in Seq(Runs) /\ Typed
    BY DEF StreamInv, Typed
  <2>6. RowsInv' /\ page' \in Seq(Runs) /\ pending' \in Seq(Runs)
    BY <1>3, <2>1, <2>4, <2>5, StartEncodingRows
  <2>7. Typed'
    BY <1>2, <1>3, <2>6 DEF StreamInv, Typed, Control
  <2>8. SourceInv'
    BY <1>3, <2>1, SourceStays DEF StreamInv
  <2>. QED
    BY <1>2, <2>6, <2>7, <2>8 DEF StreamInv, Control
<1>. QED
  BY <1>4, <1>5

LEMMA DecodeInv == StreamInv /\ task = "decoding" /\ DecodeOk => StreamInv'
<1>. SUFFICES ASSUME StreamInv, task = "decoding", DecodeOk PROVE StreamInv'
  OBVIOUS
<1>. DEFINE i == Len(pulled)
            d == DecodedBatches(i)
<1>1. Pulled
  BY DEF StreamInv, Typed, Pulled, Control
<1>2. Control'
  BY <1>1, TaskControl DEF Pulled
<1>3. i \in 1..Len(chunks) /\ pulled[Len(pulled)].index = i /\ chunks \in Results
  <2>1. i \in Nat /\ Len(chunks) \in Nat /\ i <= Len(chunks) /\ i > 0
    BY <1>1, PulledFirst DEF StreamInv, SourceInv
  <2>2. i \in 1..i
    BY <2>1
  <2>3. pulled[i] = [index |-> i, link |-> 1]
    BY <1>1, <2>2, PulledFirst
  <2>. QED
    BY <2>1, <2>3 DEF StreamInv, Typed, TypeOK
<1>4. /\ StartEncoding(d) /\ task' = "encoding"
      /\ UNCHANGED <<chunks, pulled, source, given, told>>
  BY <1>3 DEF DecodeOk, StartEncoding, sourceVars, PullVars, callerVars
<1>5. told = "nothing" /\ pending = <<>>
  BY DEF StreamInv, TaskInv, ReportInv
<1>6. Flowing /\ InPage = <<>> /\ Decoded = i - 1
  BY <1>5 DEF Flowing, InPage, Decoded
<1>7. RowsGiven \in Nat /\ RowsOf(pending) = 0 /\ RowsOf(InPage) = 0
  BY <1>5, <1>6, PageFacts, SizesOfNone DEF StreamInv
<1>8. RowsGiven + RowsOf(InPage) + RowsOf(pending) = RowsBefore(Decoded + 1) /\ PagesInOrder
  BY <1>6 DEF StreamInv, RowsInv
<1>9. RowsGiven = RowsBefore(i)
  <2>1. Decoded + 1 = i
    BY <1>3, <1>6
  <2>. HIDE DEF i
  <2>. QED
    BY <1>7, <1>8, <2>1
<1>10. d \in Seq(Runs) /\ RunFrom(d, RowsGiven) /\ RowsGiven + RowsOf(d) = RowsBefore(i + 1)
  <2>. HIDE DEF i
  <2>. QED
    BY <1>3, <1>9, DecodedFacts, ChunkFacts
<1>11. RowsInv' /\ page' \in Seq(Runs) /\ pending' \in Seq(Runs)
  <2>1. Typed
    BY DEF StreamInv
  <2>. HIDE DEF d
  <2>. QED
    BY <1>4, <1>8, <1>10, <2>1, StartEncodingRows
<1>12. Typed'
  BY <1>2, <1>4, <1>11 DEF StreamInv, Typed, Control
<1>13. SourceInv'
  BY <1>4, SourceStays DEF StreamInv
<1>. QED
  BY <1>2, <1>11, <1>12, <1>13 DEF StreamInv, Control

LEMMA PullChunkInv == StreamInv /\ task = "pulling" /\ PullChunk => StreamInv'
<1>. SUFFICES ASSUME StreamInv, task = "pulling", PullChunk PROVE StreamInv'
  OBVIOUS
<1>1. Pulled
  BY DEF StreamInv, Typed, Pulled, Control
<1>2. Control' /\ SourceInv' /\ Len(pulled') = Len(pulled) + 1
  BY <1>1, TaskControl, PullChunkSource DEF Pulled
<1>3. UNCHANGED <<chunks, pending, page, given, told>> /\ task' = "decoding"
  BY DEF PullChunk, PullVars, callerVars
<1>4. Typed'
  BY <1>2, <1>3 DEF StreamInv, Typed, Control
<1>5. Len(pulled) \in Nat
  BY <1>1, PulledFirst
<1>6. Flowing' => Flowing /\ InPage' = InPage /\ Decoded' = Decoded
  BY <1>2, <1>3, <1>5 DEF Flowing, InPage, Decoded
<1>7. RowsInv'
  BY <1>3, <1>6, RowsStay DEF StreamInv
<1>. QED
  BY <1>2, <1>4, <1>7 DEF StreamInv, Control

LEMMA PullEndInv == StreamInv /\ task = "pulling" /\ PullEnd => StreamInv'
<1>. SUFFICES ASSUME StreamInv, task = "pulling", PullEnd PROVE StreamInv'
  OBVIOUS
<1>1. Pulled
  BY DEF StreamInv, Typed, Pulled, Control
<1>2. Len(pulled) = Len(chunks)
  BY <1>1, EndPulledAll DEF PullEnd
<1>3. Control'
  BY <1>1, TaskControl DEF Pulled
<1>4. UNCHANGED <<chunks, pulled, pending, page, given, told>> /\ task' = "end"
  BY DEF PullEnd, Source!End, PullVars, callerVars
<1>5. Typed'
  BY <1>3, <1>4 DEF StreamInv, Typed, Control
<1>6. SourceInv'
  BY <1>2, <1>4 DEF StreamInv, SourceInv
<1>7. Flowing' => Flowing /\ InPage' = InPage /\ Decoded' = Decoded
  BY <1>4 DEF Flowing, InPage, Decoded
<1>8. RowsInv'
  BY <1>4, <1>7, RowsStay DEF StreamInv
<1>. QED
  BY <1>3, <1>5, <1>6, <1>8 DEF StreamInv, Control

LEMMA TaskStepInv ==
  ASSUME StreamInv
  PROVE  /\ Submit => StreamInv'
         /\ StatementAccepted => StreamInv'
         /\ ServerFinishes \/ CleanUp => StreamInv'
         /\ SubmitOk => StreamInv'
         /\ SubmitError => StreamInv'
         /\ AbortSubmission => StreamInv'
         /\ task = "pulling" /\ PullError => StreamInv'
         /\ task \in {"decoding", "encoding"} /\ WorkFails => StreamInv'
         /\ task = "encoding" /\ EncodeOk => StreamInv'
         /\ AbortPull => StreamInv'
         /\ OrphanEnds => StreamInv'
<1>. Control
  BY DEF StreamInv, Typed, Control
<1>. USE DEF sourceVars, fixedVars, taskVars, cancelVars, callerVars, SubmitVars, PullVars, Flowing, InPage, Idle
<1>1. ASSUME Submit PROVE StreamInv'
  BY <1>1, TaskControl, IdleInv DEF Submit
<1>2. ASSUME SubmitOk PROVE StreamInv'
  BY <1>2, TaskControl, IdleInv DEF SubmitOk
<1>3. ASSUME SubmitError PROVE StreamInv'
  BY <1>3, TaskControl, IdleInv DEF SubmitError
<1>4. ASSUME AbortSubmission PROVE StreamInv'
  BY <1>4, TaskControl, IdleInv DEF AbortSubmission
<1>5. ASSUME task = "pulling", PullError PROVE StreamInv'
  BY <1>5, TaskControl, IdleInv DEF PullError, PullFails, Source!Fail
<1>6. ASSUME task \in {"decoding", "encoding"}, WorkFails PROVE StreamInv'
  BY <1>6, TaskControl, IdleInv DEF WorkFails, PullFails
<1>7. ASSUME task = "encoding", EncodeOk PROVE StreamInv'
  BY <1>7, TaskControl, IdleInv DEF EncodeOk
<1>8. ASSUME AbortPull PROVE StreamInv'
  BY <1>8, TaskControl, IdleInv DEF AbortPull, DropStream
<1>9. ASSUME OrphanEnds PROVE StreamInv'
  BY <1>9, TaskControl, IdleInv DEF OrphanEnds, DropStream
<1>10. ASSUME StatementAccepted PROVE StreamInv'
  BY <1>10, TaskControl, IdleInv DEF StatementAccepted
<1>11. ASSUME ServerFinishes \/ CleanUp PROVE StreamInv'
  BY <1>11, TaskControl, IdleInv DEF ServerFinishes, CleanUp
<1>. QED
  BY <1>1, <1>2, <1>3, <1>4, <1>5, <1>6, <1>7, <1>8, <1>9, <1>10, <1>11

LEMMA StutterInv == StreamInv /\ UNCHANGED vars => StreamInv'
<1>. SUFFICES ASSUME StreamInv, UNCHANGED vars PROVE StreamInv'
  OBVIOUS
<1>. USE DEF vars, sourceVars, fixedVars, taskVars, cancelVars, callerVars, inFlightVars
<1>1. Control'
  BY DEF StreamInv, Typed, Control, TypeOK, InFlightTypeOK, TaskInv, HookInv, ReportInv
<1>. QED
  BY <1>1, IdleInv DEF Idle, Flowing, InPage

LEMMA NextInv == StreamInv /\ [Next]_vars => StreamInv'
<1>. SUFFICES ASSUME StreamInv, [Next]_vars PROVE StreamInv'
  OBVIOUS
<1>1. CASE CallerStep \/ TickStep \/ Heartbeat \/ Expire
  BY <1>1, IteratorInv, Zenon DEF CallerStep, TickStep, TickResult
<1>2. CASE Abort
  BY <1>2, TaskStepInv DEF Abort
<1>3. CASE Work
  BY <1>3, TaskStepInv, StartPullInv, DecodeInv DEF Work, DecodeStep, EncodeStep
<1>4. CASE Answer
  BY <1>4, TaskStepInv, PullChunkInv, PullEndInv DEF Answer, PullStep
<1>5. CASE CleanUp
  BY <1>5, TaskStepInv
<1>6. CASE UNCHANGED vars
  BY <1>6, StutterInv
<1>. QED
  BY <1>1, <1>2, <1>3, <1>4, <1>5, <1>6 DEF Next

-----------------------------------------------------------------------------
(* Sequences.                                                               *)

\* Induction over sequences, stated of a set of them.
LEMMA SeqInduction ==
  ASSUME NEW S, NEW T, <<>> \in T, \A s \in Seq(S), e \in S : s \in T => Append(s, e) \in T
  PROVE  Seq(S) \subseteq T
<1>. DEFINE N == {n \in Nat : \A s \in Seq(S) : Len(s) = n => s \in T}
<1>1. 0 \in N
  <2>1. ASSUME NEW s \in Seq(S), Len(s) = 0 PROVE s \in T
    <3>1. s = <<>>
      BY <2>1, EmptySeq
    <3>. QED
      BY <3>1
  <2>. QED
    BY <2>1
<1>2. ASSUME NEW n \in Nat, n \in N PROVE n + 1 \in N
  <2>1. ASSUME NEW s \in Seq(S), Len(s) = n + 1 PROVE s \in T
    <3>1. s # <<>>
      BY <2>1
    <3>2. PICK t \in Seq(S), e \in S : s = Append(t, e)
      BY <3>1, SequenceEmptyOrAppend
    <3>3. Len(t) = n
      BY <2>1, <3>2, AppendProperties, LenProperties
    <3>4. t \in T
      BY <1>2, <3>3
    <3>. QED
      BY <3>2, <3>4
  <2>. QED
    BY <2>1
<1>3. Nat \subseteq N
  <2>. HIDE DEF N
  <2>. QED
    BY <1>1, <1>2, SetInduction
<1>4. ASSUME NEW s \in Seq(S) PROVE s \in T
  <2>1. Len(s) \in N
    BY <1>3, LenProperties
  <2>. QED
    BY <2>1
<1>. QED
  BY <1>4

\* A sequence is known by its elements.
LEMMA AppendElements ==
  ASSUME NEW S, NEW s \in Seq(S), NEW e \in S, NEW u \in Seq(S), Len(u) = Len(s) + 1, u[Len(s) + 1] = e,
         \A k \in 1..Len(s) : u[k] = s[k]
  PROVE  u = Append(s, e)
<1>1. Append(s, e) \in Seq(S) /\ Len(Append(s, e)) = Len(s) + 1
  OBVIOUS
<1>2. \A k \in 1..Len(u) : u[k] = Append(s, e)[k]
  <2>1. \A k \in 1..Len(u) : k \in 1..Len(s) \/ k = Len(s) + 1
    OBVIOUS
  <2>2. Append(s, e)[Len(s) + 1] = e /\ \A k \in 1..Len(s) : Append(s, e)[k] = s[k]
    OBVIOUS
  <2>. QED
    BY <2>1, <2>2
<1>. QED
  BY <1>1, <1>2, SeqEqual

Joined(s, t) == s \o t

LEMMA ConcatElements ==
  ASSUME NEW S, NEW s \in Seq(S), NEW t \in Seq(S), NEW u \in Seq(S), Len(u) = Len(s) + Len(t),
         \A k \in 1..Len(s) : u[k] = s[k], \A k \in 1..Len(t) : u[Len(s) + k] = t[k]
  PROVE  u = Joined(s, t)
<1>1. s \o t \in Seq(S) /\ Len(s \o t) = Len(s) + Len(t) /\ Len(s) \in Nat /\ Len(t) \in Nat
  OBVIOUS
<1>2. ASSUME NEW k \in 1..Len(u) PROVE u[k] = (s \o t)[k]
  <2>1. CASE k <= Len(s)
    <3>1. (s \o t)[k] = s[k] /\ k \in 1..Len(s)
      BY <2>1
    <3>. QED
      BY <3>1
  <2>2. CASE ~(k <= Len(s))
    <3>1. k - Len(s) \in 1..Len(t) /\ Len(s) + (k - Len(s)) = k
      BY <1>1, <2>2
    <3>2. (s \o t)[k] = t[k - Len(s)]
      BY <2>2
    <3>3. u[Len(s) + (k - Len(s))] = t[k - Len(s)]
      BY <3>1
    <3>. QED
      BY <3>1, <3>2, <3>3
  <2>. QED
    BY <2>1, <2>2
<1>. QED
  BY <1>1, <1>2, SeqEqual DEF Joined

LEMMA TailElement ==
  ASSUME NEW s \in Seq(Seq(Bytes)), NEW n \in Nat, n <= Len(s), n > 0, NEW k \in 1..(Len(s) - n)
  PROVE  SubSeq(s, n + 1, Len(s))[k] = s[n + k]
OBVIOUS

\* Cut anywhere, it is its two pieces.
LEMMA SplitAt ==
  ASSUME NEW s \in Seq(Chars), NEW k \in 0..Len(s)
  PROVE  /\ SubSeq(s, 1, k) \in Seq(Chars) /\ SubSeq(s, k + 1, Len(s)) \in Seq(Chars)
         /\ Joined(SubSeq(s, 1, k), SubSeq(s, k + 1, Len(s))) = s
<1>1. SubSeq(s, 1, k) \in Seq(Chars) /\ SubSeq(s, k + 1, Len(s)) \in Seq(Chars)
  OBVIOUS
<1>2. ASSUME k = 0 PROVE Joined(SubSeq(s, 1, k), SubSeq(s, k + 1, Len(s))) = s
  <2>1. SubSeq(s, 1, 0) = <<>> /\ SubSeq(s, 0 + 1, Len(s)) = s
    OBVIOUS
  <2>2. <<>> \o s = s
    OBVIOUS
  <2>. QED
    BY <1>2, <2>1, <2>2 DEF Joined
<1>3. ASSUME k \in 1..Len(s) PROVE Joined(SubSeq(s, 1, k), SubSeq(s, k + 1, Len(s))) = s
  BY <1>3 DEF Joined
<1>4. k = 0 \/ k \in 1..Len(s)
  OBVIOUS
<1>. QED
  BY <1>1, <1>2, <1>3, <1>4

\* A recursion over 1..m: its steps are functions on a set, f is what it computes.
StepsOn(step, x, A, m) == m \in Nat /\ x \in A /\ step \in [1..m -> [A -> A]]
FoldsBy(f, step, x, A, m) == f \in [0..m -> A] /\ f[0] = x /\ \A k \in 1..m : f[k] = step[k][f[k - 1]]

LEMMA FoldExists ==
  ASSUME NEW A, NEW x, NEW m, NEW step, StepsOn(step, x, A, m)
  PROVE  \E f : FoldsBy(f, step, x, A, m)
<1>. USE DEF StepsOn
<1>. DEFINE UpTo(n) == \E f \in [0..n -> A] : f[0] = x /\ \A k \in 1..n : f[k] = step[k][f[k - 1]]
            S == {n \in Nat : n <= m => UpTo(n)}
<1>1. 0 \in S
  <2>1. [k \in 0..0 |-> x] \in [0..0 -> A] /\ [k \in 0..0 |-> x][0] = x
    OBVIOUS
  <2>2. \A k \in 1..0 : FALSE
    OBVIOUS
  <2>. QED
    BY <2>1, <2>2
<1>2. ASSUME NEW n \in Nat, n \in S PROVE n + 1 \in S
  <2>. HIDE DEF UpTo
  <2>. SUFFICES ASSUME n + 1 <= m PROVE UpTo(n + 1)
    OBVIOUS
  <2>1. UpTo(n)
    BY <1>2
  <2>. USE DEF UpTo
  <2>2. PICK f \in [0..n -> A] : f[0] = x /\ \A k \in 1..n : f[k] = step[k][f[k - 1]]
    BY <2>1
  <2>. DEFINE last == step[n + 1][f[n]]
              g == [k \in 0..(n + 1) |-> IF k = n + 1 THEN last ELSE f[k]]
  <2>3. last \in A
    <3>1. n + 1 \in 1..m /\ f[n] \in A
      BY <2>2
    <3>2. step[n + 1] \in [A -> A]
      BY <3>1
    <3>. QED
      BY <3>1, <3>2
  <2>. HIDE DEF last
  <2>4. g \in [0..(n + 1) -> A] /\ g[0] = x
    BY <2>2, <2>3
  <2>6. ASSUME NEW k \in 1..(n + 1) PROVE g[k] = step[k][g[k - 1]]
    <3>1. CASE k = n + 1
      <4>1. k - 1 = n /\ n \in 0..(n + 1) /\ n # n + 1
        BY <3>1
      <4>2. g[k] = last /\ g[k - 1] = f[n]
        BY <3>1, <4>1
      <4>. HIDE DEF g
      <4>. QED
        BY <3>1, <4>2 DEF last
    <3>2. CASE k # n + 1
      <4>1. k \in 1..n /\ k - 1 \in 0..n /\ k - 1 # n + 1
        BY <3>2
      <4>2. g[k] = f[k] /\ g[k - 1] = f[k - 1]
        BY <3>2, <4>1
      <4>. HIDE DEF g
      <4>. QED
        BY <2>2, <4>1, <4>2
    <3>. QED
      BY <3>1, <3>2
  <2>. HIDE DEF g
  <2>. QED
    BY <2>4, <2>6
<1>3. Nat \subseteq S
  <2>. HIDE DEF S
  <2>. QED
    BY <1>1, <1>2, SetInduction
<1>4. UpTo(m)
  <2>. HIDE DEF UpTo
  <2>. QED
    BY <1>3
<1>. QED
  BY <1>4 DEF FoldsBy

\* It computes nothing else.
SameSteps(f, g, m) == f[0] = g[0] /\ \A k \in 1..m : f[k - 1] = g[k - 1] => f[k] = g[k]
SameUpTo(f, g, m) == \A k \in 0..m : f[k] = g[k]

LEMMA FoldIsUnique ==
  ASSUME NEW m \in Nat, NEW f, NEW g, SameSteps(f, g, m)
  PROVE  SameUpTo(f, g, m)
<1>. USE DEF SameSteps, SameUpTo
<1>. DEFINE S == {n \in Nat : n <= m => f[n] = g[n]}
<1>1. 0 \in S
  OBVIOUS
<1>2. ASSUME NEW n \in Nat, n \in S PROVE n + 1 \in S
  <2>. SUFFICES ASSUME n + 1 <= m PROVE f[n + 1] = g[n + 1]
    OBVIOUS
  <2>1. n + 1 \in 1..m /\ (n + 1) - 1 = n /\ f[n] = g[n]
    BY <1>2
  <2>. QED
    BY <2>1
<1>3. Nat \subseteq S
  <2>. HIDE DEF S
  <2>. QED
    BY <1>1, <1>2, SetInduction
<1>. QED
  BY <1>3

-----------------------------------------------------------------------------
(* FlattenSeq                                                               *)

Sequences(ss, S, m) == m \in Nat /\ \A k \in 1..m : ss[k] \in Seq(S)
Concatenates(h, ss, S, m) ==
  h \in [0..m -> Seq(S)] /\ h[0] = <<>> /\ \A k \in 1..m : h[k] = h[k - 1] \o ss[k]

LEMMA ConcatFold ==
  ASSUME NEW S, NEW m, NEW ss, Sequences(ss, S, m)
  PROVE  \E h : Concatenates(h, ss, S, m)
<1>. USE DEF Sequences
<1>. DEFINE Q == Seq(S)
            step == [k \in 1..m |-> [a \in Q |-> a \o ss[k]]]
<1>1. StepsOn(step, <<>>, Q, m)
  BY ConcatProperties DEF StepsOn
<1>2. \A k \in 1..m, a \in Q : step[k][a] = a \o ss[k]
  OBVIOUS
<1>. HIDE DEF step, Q
<1>3. PICK h : FoldsBy(h, step, <<>>, Q, m)
  BY <1>1, FoldExists
<1>4. ASSUME NEW k \in 1..m PROVE h[k] = h[k - 1] \o ss[k]
  <2>1. h[k - 1] \in Q
    <3>1. k - 1 \in 0..m
      OBVIOUS
    <3>. QED
      BY <1>3, <3>1 DEF FoldsBy
  <2>. QED
    BY <1>2, <1>3, <2>1 DEF FoldsBy
<1>. QED
  BY <1>3, <1>4 DEF Q, FoldsBy, Concatenates

LEMMA FlattenIsFold ==
  ASSUME NEW S, NEW m, NEW ss, NEW h, Len(ss) = m, m # 0, Sequences(ss, S, m), Concatenates(h, ss, S, m)
  PROVE  FlattenSeq(ss) = h[m]
<1>. USE DEF Sequences, Concatenates
<1>. DEFINE Fits(g) == g = [i \in 1..m |-> IF i = 1 THEN ss[i] ELSE g[i - 1] \o ss[i]]
            h1 == [i \in 1..m |-> h[i]]
<1>0. h[1] = ss[1]
  <2>1. 1 \in 1..m /\ 1 - 1 = 0
    OBVIOUS
  <2>2. h[1] = <<>> \o ss[1] /\ ss[1] \in Seq(S)
    BY <2>1
  <2>. QED
    BY <2>2, ConcatEmptySeq
<1>1. Fits(h1)
  <2>1. ASSUME NEW i \in 1..m PROVE h[i] = IF i = 1 THEN ss[i] ELSE h1[i - 1] \o ss[i]
    <3>1. CASE i = 1
      BY <1>0, <3>1
    <3>2. CASE i # 1
      <4>1. i - 1 \in 1..m
        BY <3>2
      <4>. QED
        BY <3>2, <4>1
    <3>. QED
      BY <3>1, <3>2
  <2>. QED
    BY <2>1
<1>2. PICK g : g = (CHOOSE f : Fits(f)) /\ Fits(g)
  BY <1>1
<1>3. FlattenSeq(ss) = g[m]
  BY <1>2 DEF FlattenSeq
<1>4. ASSUME NEW i \in 1..m PROVE g[i] = IF i = 1 THEN ss[i] ELSE g[i - 1] \o ss[i]
  <2>1. g = [j \in 1..m |-> IF j = 1 THEN ss[j] ELSE g[j - 1] \o ss[j]]
    BY <1>2
  <2>. HIDE DEF Fits
  <2>. QED
    BY <2>1
<1>. HIDE DEF Fits
<1>. DEFINE g0 == [i \in 0..m |-> IF i = 0 THEN <<>> ELSE g[i]]
<1>5. ASSUME NEW k \in 1..m, h[k - 1] = g0[k - 1] PROVE h[k] = g0[k]
  <2>1. g0[k] = g[k]
    OBVIOUS
  <2>2. CASE k = 1
    BY <1>0, <1>4, <2>1, <2>2
  <2>3. CASE k # 1
    <3>1. k - 1 \in 1..m
      BY <2>3
    <3>2. g0[k - 1] = g[k - 1]
      BY <3>1
    <3>3. g[k] = g[k - 1] \o ss[k] /\ h[k] = h[k - 1] \o ss[k]
      BY <1>4, <2>3
    <3>. HIDE DEF g0
    <3>. QED
      BY <1>5, <2>1, <3>2, <3>3
  <2>. QED
    BY <2>2, <2>3
<1>6. h[0] = g0[0] /\ g0[m] = g[m]
  OBVIOUS
<1>. HIDE DEF g0
<1>7. SameSteps(h, g0, m)
  BY <1>5, <1>6 DEF SameSteps
<1>8. SameUpTo(h, g0, m)
  BY <1>7, FoldIsUnique
<1>. QED
  BY <1>3, <1>6, <1>8 DEF SameUpTo

LEMMA FlattenFolds ==
  ASSUME NEW S, NEW ss \in Seq(Seq(S))
  PROVE  \E h : Concatenates(h, ss, S, Len(ss)) /\ FlattenSeq(ss) = h[Len(ss)]
<1>1. Sequences(ss, S, Len(ss))
  BY ElementOfSeq, LenProperties DEF Sequences
<1>2. PICK h : Concatenates(h, ss, S, Len(ss))
  BY <1>1, ConcatFold
<1>3. CASE Len(ss) = 0
  <2>1. ss = <<>>
    BY <1>3, EmptySeq
  <2>. QED
    BY <1>2, <1>3, <2>1 DEF FlattenSeq, Concatenates
<1>4. CASE Len(ss) # 0
  BY <1>1, <1>2, <1>4, FlattenIsFold
<1>. QED
  BY <1>3, <1>4

LEMMA FlattenFacts ==
  ASSUME NEW S, NEW ss \in Seq(Seq(S))
  PROVE  /\ FlattenSeq(ss) \in Seq(S)
         /\ FlattenSeq(<<>>) = <<>>
         /\ \A s \in Seq(S) : FlattenSeq(Append(ss, s)) = FlattenSeq(ss) \o s
<1>. USE DEF Concatenates
<1>1. PICK h : Concatenates(h, ss, S, Len(ss)) /\ FlattenSeq(ss) = h[Len(ss)]
  <2>. HIDE DEF Concatenates
  <2>. QED
    BY FlattenFolds
<1>2. Len(ss) \in Nat
  OBVIOUS
<1>3. FlattenSeq(<<>>) = <<>>
  BY DEF FlattenSeq
<1>4. ASSUME NEW s \in Seq(S) PROVE FlattenSeq(Append(ss, s)) = FlattenSeq(ss) \o s
  <2>. DEFINE tt == Append(ss, s)
              m == Len(ss)
  <2>1. tt \in Seq(Seq(S)) /\ Len(tt) = m + 1 /\ tt[m + 1] = s /\ \A i \in 1..m : tt[i] = ss[i]
    BY AppendProperties
  <2>. HIDE DEF tt
  <2>2. PICK g : Concatenates(g, tt, S, Len(tt)) /\ FlattenSeq(tt) = g[Len(tt)]
    <3>. HIDE DEF Concatenates
    <3>. QED
      BY <2>1, FlattenFolds
  <2>3. \A k \in 0..m : g[k] = h[k]
    <3>1. ASSUME NEW k \in 1..m, g[k - 1] = h[k - 1] PROVE g[k] = h[k]
      <4>1. k \in 1..Len(tt)
        BY <1>2, <2>1
      <4>. QED
        BY <1>1, <2>1, <2>2, <3>1, <4>1
    <3>2. SameSteps(g, h, m)
      BY <1>1, <1>2, <2>2, <3>1 DEF SameSteps
    <3>3. SameUpTo(g, h, m)
      BY <1>2, <3>2, FoldIsUnique
    <3>. QED
      BY <3>3 DEF SameUpTo
  <2>4. g[m + 1] = g[m] \o s
    <3>1. m + 1 \in 1..Len(tt) /\ (m + 1) - 1 = m
      BY <1>2, <2>1
    <3>. QED
      BY <2>1, <2>2, <3>1
  <2>5. m \in 0..m
    BY <1>2
  <2>. QED
    BY <1>1, <2>1, <2>2, <2>3, <2>4, <2>5 DEF tt
<1>5. FlattenSeq(ss) \in Seq(S)
  BY <1>1, <1>2
<1>. QED
  BY <1>3, <1>4, <1>5

\* Two sequences of sequences, one after the other.
LEMMA FlattenConcat ==
  ASSUME NEW S, NEW ss \in Seq(Seq(S)), NEW tt \in Seq(Seq(S))
  PROVE  ss \o tt \in Seq(Seq(S)) /\ FlattenSeq(ss \o tt) = FlattenSeq(ss) \o FlattenSeq(tt)
<1>. DEFINE T == {t \in Seq(Seq(S)) : FlattenSeq(ss \o t) = FlattenSeq(ss) \o FlattenSeq(t)}
<1>1. <<>> \in T
  <2>1. FlattenSeq(ss) \in Seq(S) /\ FlattenSeq(<<>>) = <<>>
    BY FlattenFacts
  <2>2. FlattenSeq(ss) \o FlattenSeq(<<>>) = FlattenSeq(ss)
    BY <2>1
  <2>3. ss \o <<>> = ss /\ <<>> \in Seq(Seq(S))
    OBVIOUS
  <2>4. FlattenSeq(ss \o <<>>) = FlattenSeq(ss)
    BY <2>3
  <2>. QED
    BY <2>2, <2>3, <2>4
<1>2. ASSUME NEW t \in Seq(Seq(S)), NEW e \in Seq(S), t \in T PROVE Append(t, e) \in T
  <2>1. ss \o Append(t, e) = Append(ss \o t, e)
    OBVIOUS
  <2>2. ss \o t \in Seq(Seq(S)) /\ Append(t, e) \in Seq(Seq(S))
    OBVIOUS
  <2>3. FlattenSeq(Append(ss \o t, e)) = FlattenSeq(ss \o t) \o e
    BY <2>2, FlattenFacts
  <2>4. FlattenSeq(Append(t, e)) = FlattenSeq(t) \o e
    BY FlattenFacts
  <2>5. (FlattenSeq(ss) \o FlattenSeq(t)) \o e = FlattenSeq(ss) \o (FlattenSeq(t) \o e)
    <3>1. FlattenSeq(ss) \in Seq(S) /\ FlattenSeq(t) \in Seq(S)
      BY FlattenFacts
    <3>. QED
      BY <3>1
  <2>. QED
    BY <1>2, <2>1, <2>2, <2>3, <2>4, <2>5
<1>3. Seq(Seq(S)) \subseteq T
  <2>. HIDE DEF T
  <2>. QED
    BY <1>1, <1>2, SeqInduction
<1>. QED
  BY <1>3

-----------------------------------------------------------------------------
(* LineCollector                                                            *)

Collector == [lines : Seq(Seq(Chars)), pending : Seq(Chars)]

LEMMA CollectFacts ==
  ASSUME NEW c \in Collector, NEW b \in Chars
  PROVE  CollectByte(c, b) \in Collector
<1>1. c.lines \in Seq(Seq(Chars)) /\ c.pending \in Seq(Chars)
  BY DEF Collector
<1>2. CASE b = "newline"
  <2>1. Append(c.lines, c.pending) \in Seq(Seq(Chars)) /\ <<>> \in Seq(Chars)
    BY <1>1
  <2>. QED
    BY <1>2, <2>1 DEF CollectByte, Collector
<1>3. CASE b # "newline"
  <2>1. Append(c.pending, b) \in Seq(Chars)
    BY <1>1
  <2>2. c = [lines |-> c.lines, pending |-> c.pending]
    BY DEF Collector
  <2>3. CollectByte(c, b) = [lines |-> c.lines, pending |-> Append(c.pending, b)]
    BY <1>3, <2>2 DEF CollectByte
  <2>. QED
    BY <1>1, <2>1, <2>3 DEF Collector
<1>. QED
  BY <1>2, <1>3

Collects(h, c, s, m) ==
  h \in [0..m -> Collector] /\ h[0] = c /\ \A k \in 1..m : h[k] = CollectByte(h[k - 1], s[k])

LEMMA WriteFolds ==
  ASSUME NEW c \in Collector, NEW s \in Seq(Chars)
  PROVE  \E h : Collects(h, c, s, Len(s)) /\ Write(c, s) = h[Len(s)]
<1>. DEFINE m == Len(s)
            step == [k \in 1..m |-> [a \in Collector |-> CollectByte(a, s[k])]]
            Fits(f) == f = [n \in 0..m |-> IF n = 0 THEN c ELSE CollectByte(f[n - 1], s[n])]
<1>1. m \in Nat /\ \A k \in 1..m : s[k] \in Chars
  BY ElementOfSeq, LenProperties
<1>. HIDE DEF m
<1>2. StepsOn(step, c, Collector, m)
  BY <1>1, CollectFacts DEF StepsOn
<1>3. \A k \in 1..m, a \in Collector : step[k][a] = CollectByte(a, s[k])
  OBVIOUS
<1>. HIDE DEF step
<1>4. PICK h : FoldsBy(h, step, c, Collector, m)
  BY <1>2, FoldExists
<1>5. Collects(h, c, s, m)
  <2>1. h \in [0..m -> Collector] /\ h[0] = c /\ \A k \in 1..m : h[k] = step[k][h[k - 1]]
    BY <1>4 DEF FoldsBy
  <2>2. ASSUME NEW k \in 1..m PROVE h[k] = CollectByte(h[k - 1], s[k])
    <3>1. k - 1 \in 0..m
      BY <1>1
    <3>2. h[k - 1] \in Collector
      BY <2>1, <3>1
    <3>. QED
      BY <1>3, <2>1, <3>2
  <2>. QED
    BY <2>1, <2>2 DEF Collects
<1>6. Fits(h)
  BY <1>1, <1>5 DEF Collects
<1>7. PICK g : g = (CHOOSE f : Fits(f)) /\ Fits(g)
  BY <1>6
<1>8. Write(c, s) = g[m]
  BY <1>7 DEF Write, m
<1>9. g[0] = c /\ \A k \in 1..m : g[k] = CollectByte(g[k - 1], s[k])
  <2>1. g = [n \in 0..m |-> IF n = 0 THEN c ELSE CollectByte(g[n - 1], s[n])]
    BY <1>7
  <2>. HIDE DEF Fits
  <2>2. \A k \in 0..m : g[k] = IF k = 0 THEN c ELSE CollectByte(g[k - 1], s[k])
    BY <2>1
  <2>. QED
    BY <1>1, <2>2
<1>. HIDE DEF Fits
<1>10. SameSteps(g, h, m)
  BY <1>5, <1>9 DEF SameSteps, Collects
<1>11. g[m] = h[m]
  BY <1>1, <1>10, FoldIsUnique DEF SameUpTo
<1>. QED
  BY <1>5, <1>8, <1>11 DEF m

LEMMA WriteFacts ==
  ASSUME NEW c \in Collector, NEW s \in Seq(Chars)
  PROVE  /\ Write(c, s) \in Collector
         /\ Write(c, <<>>) = c
         /\ \A b \in Chars : Write(c, Append(s, b)) = CollectByte(Write(c, s), b)
<1>1. PICK h : Collects(h, c, s, Len(s)) /\ Write(c, s) = h[Len(s)]
  BY WriteFolds
<1>2. Len(s) \in Nat
  OBVIOUS
<1>3. Write(c, s) \in Collector
  BY <1>1, <1>2 DEF Collects
<1>4. Write(c, <<>>) = c
  <2>1. <<>> \in Seq(Chars) /\ Len(<<>>) = 0
    OBVIOUS
  <2>2. PICK g : Collects(g, c, <<>>, 0) /\ Write(c, <<>>) = g[0]
    BY <2>1, WriteFolds
  <2>. QED
    BY <2>2 DEF Collects
<1>5. ASSUME NEW b \in Chars PROVE Write(c, Append(s, b)) = CollectByte(Write(c, s), b)
  <2>. DEFINE t == Append(s, b)
              m == Len(s)
  <2>1. t \in Seq(Chars) /\ Len(t) = m + 1 /\ t[m + 1] = b /\ \A i \in 1..m : t[i] = s[i]
    BY AppendProperties
  <2>. HIDE DEF t
  <2>2. PICK g : Collects(g, c, t, Len(t)) /\ Write(c, t) = g[Len(t)]
    BY <2>1, WriteFolds
  <2>3. SameSteps(g, h, m)
    <3>1. ASSUME NEW k \in 1..m, g[k - 1] = h[k - 1] PROVE g[k] = h[k]
      <4>1. k \in 1..Len(t)
        BY <1>2, <2>1
      <4>. QED
        BY <1>1, <2>1, <2>2, <3>1, <4>1 DEF Collects
    <3>. QED
      BY <1>1, <2>2, <3>1 DEF Collects, SameSteps
  <2>4. g[m] = h[m]
    BY <1>2, <2>3, FoldIsUnique DEF SameUpTo
  <2>5. g[m + 1] = CollectByte(g[m], b)
    <3>1. m + 1 \in 1..Len(t) /\ (m + 1) - 1 = m
      BY <1>2, <2>1
    <3>. QED
      BY <2>1, <2>2, <3>1 DEF Collects
  <2>. QED
    BY <1>1, <2>1, <2>2, <2>4, <2>5 DEF t
<1>. QED
  BY <1>3, <1>4, <1>5

\* Where a write ends makes no difference.
LEMMA WriteConcat ==
  ASSUME NEW c \in Collector, NEW s \in Seq(Chars), NEW t \in Seq(Chars)
  PROVE  Write(c, s \o t) = Write(Write(c, s), t)
<1>. DEFINE d == Write(c, s)
            T == {u \in Seq(Chars) : Write(c, s \o u) = Write(d, u)}
<1>1. d \in Collector
  BY WriteFacts
<1>2. <<>> \in T
  <2>1. s \o <<>> = s /\ <<>> \in Seq(Chars)
    OBVIOUS
  <2>2. Write(c, s \o <<>>) = d
    BY <2>1
  <2>3. Write(d, <<>>) = d
    BY <1>1, <2>1, WriteFacts
  <2>. QED
    BY <2>1, <2>2, <2>3
<1>. HIDE DEF d
<1>3. ASSUME NEW u \in Seq(Chars), NEW b \in Chars, u \in T PROVE Append(u, b) \in T
  <2>1. s \o Append(u, b) = Append(s \o u, b) /\ s \o u \in Seq(Chars) /\ Append(u, b) \in Seq(Chars)
    OBVIOUS
  <2>2. Write(c, Append(s \o u, b)) = CollectByte(Write(c, s \o u), b)
    BY <2>1, WriteFacts
  <2>3. Write(d, Append(u, b)) = CollectByte(Write(d, u), b)
    BY <1>1, WriteFacts
  <2>4. Write(c, s \o Append(u, b)) = Write(c, Append(s \o u, b))
    BY <2>1
  <2>5. Write(c, s \o u) = Write(d, u)
    BY <1>3
  <2>. QED
    BY <2>1, <2>2, <2>3, <2>4, <2>5
<1>4. Seq(Chars) \subseteq T
  <2>. HIDE DEF T
  <2>. QED
    BY <1>2, <1>3, SeqInduction
<1>. QED
  BY <1>4 DEF d

LEMMA CollectOther ==
  ASSUME NEW ls, NEW p, NEW b, b # "newline"
  PROVE  CollectByte([lines |-> ls, pending |-> p], b) = [lines |-> ls, pending |-> Append(p, b)]
BY DEF CollectByte

LEMMA PendingGrows ==
  \A p \in Seq(Chars), v \in Seq(Chars), b \in Chars : Append(p \o v, b) = p \o Append(v, b)
OBVIOUS

\* Bytes without a newline are kept back.
LEMMA WriteBytes ==
  ASSUME NEW c \in Collector, NEW s \in Seq(Bytes)
  PROVE  Write(c, s) = [lines |-> c.lines, pending |-> c.pending \o s]
<1>. DEFINE T == {u \in Seq(Bytes) : Write(c, u) = [lines |-> c.lines, pending |-> c.pending \o u]}
<1>0. c.lines \in Seq(Seq(Chars)) /\ c.pending \in Seq(Chars) /\ c = [lines |-> c.lines, pending |-> c.pending]
  BY DEF Collector
<1>1. <<>> \in T
  <2>1. c.pending \o <<>> = c.pending /\ <<>> \in Seq(Bytes) /\ <<>> \in Seq(Chars)
    BY <1>0
  <2>2. Write(c, <<>>) = c
    BY <2>1, WriteFacts
  <2>. QED
    BY <1>0, <2>1, <2>2
<1>2. \A v \in Seq(Chars), b \in Chars : Append(c.pending \o v, b) = c.pending \o Append(v, b)
  BY <1>0, PendingGrows
<1>3. ASSUME NEW u \in Seq(Bytes), NEW b \in Bytes, u \in T PROVE Append(u, b) \in T
  <2>1. u \in Seq(Chars) /\ b \in Chars /\ b # "newline" /\ Append(u, b) \in Seq(Bytes)
    <3>1. Bytes \subseteq Chars
      BY DEF Chars
    <3>2. u \in Seq(Chars)
      BY <3>1, SeqMonotonic
    <3>3. b # "newline"
      BY DEF Bytes
    <3>. QED
      BY <3>1, <3>2, <3>3
  <2>2. Write(c, Append(u, b)) = CollectByte(Write(c, u), b)
    BY <2>1, WriteFacts
  <2>3. Write(c, u) = [lines |-> c.lines, pending |-> c.pending \o u]
    BY <1>3
  <2>4. CollectByte(Write(c, u), b) = [lines |-> c.lines, pending |-> Append(c.pending \o u, b)]
    BY <2>1, <2>3, CollectOther
  <2>5. Append(c.pending \o u, b) = c.pending \o Append(u, b)
    BY <1>2, <2>1
  <2>. QED
    BY <2>1, <2>2, <2>4, <2>5
<1>4. Seq(Bytes) \subseteq T
  <2>. HIDE DEF T
  <2>. QED
    BY <1>1, <1>3, SeqInduction
<1>. QED
  BY <1>4

\* A whole line is a line more.
LEMMA WriteLine ==
  ASSUME NEW ls \in Seq(Seq(Chars)), NEW s \in Seq(Bytes)
  PROVE  Write([lines |-> ls, pending |-> <<>>], s \o <<"newline">>)
           = [lines |-> Append(ls, s), pending |-> <<>>]
<1>. DEFINE c == [lines |-> ls, pending |-> <<>>]
<1>1. c \in Collector /\ c.lines = ls /\ c.pending = <<>>
  BY DEF Collector
<1>2. s \in Seq(Chars) /\ "newline" \in Chars
  <2>1. Bytes \subseteq Chars /\ "newline" \in Chars
    BY DEF Chars
  <2>. QED
    BY <2>1, SeqMonotonic
<1>3. s \o <<"newline">> = Append(s, "newline") /\ <<>> \o s = s
  BY <1>2
<1>. HIDE DEF c
<1>4. Write(c, Append(s, "newline")) = CollectByte(Write(c, s), "newline")
  BY <1>1, <1>2, WriteFacts
<1>5. Write(c, s) = [lines |-> ls, pending |-> s]
  BY <1>1, <1>3, WriteBytes
<1>6. CollectByte([lines |-> ls, pending |-> s], "newline") = [lines |-> Append(ls, s), pending |-> <<>>]
  BY DEF CollectByte
<1>7. Write(c, s \o <<"newline">>) = Write(c, Append(s, "newline"))
  BY <1>3
<1>. QED
  BY <1>4, <1>5, <1>6, <1>7 DEF c

-----------------------------------------------------------------------------
(* What arrow-json writes                                                   *)

Escapes(s) == FlattenSeq([n \in DOMAIN s |-> Escaped(s[n])])

LEMMA EscapedType == \A c \in Chars : Escaped(c) \in Seq(Bytes)
<1>. SUFFICES ASSUME NEW c \in Chars PROVE Escaped(c) \in Seq(Bytes)
  OBVIOUS
<1>1. "backslash" \in Bytes /\ "other" \in Bytes
  BY DEF Bytes
<1>2. CASE c \in {"quote", "backslash"}
  <2>1. c \in Bytes /\ Escaped(c) = <<"backslash", c>>
    BY <1>2 DEF Bytes, Escaped
  <2>. QED
    BY <1>1, <2>1
<1>3. CASE c = "newline"
  <2>1. Escaped(c) = <<"backslash", "other">>
    BY <1>3 DEF Escaped
  <2>. QED
    BY <1>1, <2>1
<1>4. CASE c \notin {"quote", "backslash"} /\ c # "newline"
  <2>1. c \in Bytes /\ Escaped(c) = <<c>>
    BY <1>4 DEF Chars, Escaped
  <2>. QED
    BY <2>1
<1>. QED
  BY <1>2, <1>3, <1>4

LEMMA EscapesFacts ==
  /\ Escapes(<<>>) = <<>>
  /\ \A s \in Seq(Chars), c \in Chars : Escapes(Append(s, c)) = Escapes(s) \o Escaped(c)
  /\ \A s \in Seq(Chars) : Escapes(s) \in Seq(Bytes)
<1>1. Escapes(<<>>) = <<>>
  BY DEF Escapes, FlattenSeq
<1>2. ASSUME NEW s \in Seq(Chars), NEW c \in Chars
      PROVE  Escapes(s) \in Seq(Bytes) /\ Escapes(Append(s, c)) = Escapes(s) \o Escaped(c)
  <2>. DEFINE m == Len(s)
              e == [n \in DOMAIN s |-> Escaped(s[n])]
              t == Append(s, c)
  <2>1. m \in Nat /\ DOMAIN s = 1..m /\ \A n \in 1..m : s[n] \in Chars
    BY LenProperties, ElementOfSeq
  <2>2. DOMAIN t = 1..(m + 1) /\ t[m + 1] = c /\ \A n \in 1..m : t[n] = s[n]
    BY AppendProperties, LenProperties
  <2>3. e \in [1..m -> Seq(Bytes)]
    BY <2>1, EscapedType
  <2>4. e \in Seq(Seq(Bytes)) /\ Len(e) = m
    BY <2>1, <2>3
  <2>5. [n \in DOMAIN t |-> Escaped(t[n])] = Append(e, Escaped(c))
    <3>. HIDE DEF t
    <3>1. Len(e) + 1 = m + 1 /\ Append(e, Escaped(c)) = [n \in 1..(m + 1) |-> IF n = m + 1 THEN Escaped(c) ELSE e[n]]
      BY <2>1, <2>4
    <3>2. \A n \in 1..(m + 1) : Escaped(t[n]) = IF n = m + 1 THEN Escaped(c) ELSE e[n]
      BY <2>1, <2>2
    <3>. QED
      BY <2>2, <3>1, <3>2
  <2>6. Escaped(c) \in Seq(Bytes)
    BY EscapedType
  <2>. HIDE DEF e, t
  <2>7. FlattenSeq(e) \in Seq(Bytes) /\ FlattenSeq(Append(e, Escaped(c))) = FlattenSeq(e) \o Escaped(c)
    BY <2>4, <2>6, FlattenFacts
  <2>8. Escapes(s) = FlattenSeq(e) /\ Escapes(t) = FlattenSeq(Append(e, Escaped(c)))
    BY <2>5 DEF Escapes, e
  <2>. QED
    BY <2>7, <2>8 DEF t
<1>. QED
  BY <1>1, <1>2 DEF Chars

LEMMA TextType == \A s \in Seq(Chars) : Text(s) \in Seq(Bytes) /\ Text(s) = <<"quote">> \o Escapes(s) \o <<"quote">>
<1>. SUFFICES ASSUME NEW s \in Seq(Chars)
              PROVE  Text(s) \in Seq(Bytes) /\ Text(s) = <<"quote">> \o Escapes(s) \o <<"quote">>
  OBVIOUS
<1>1. Text(s) = <<"quote">> \o Escapes(s) \o <<"quote">>
  BY DEF Text, Escapes
<1>2. Escapes(s) \in Seq(Bytes) /\ <<"quote">> \in Seq(Bytes)
  <2>1. Escapes(s) \in Seq(Bytes)
    BY EscapesFacts
  <2>2. "quote" \in Bytes
    BY DEF Bytes
  <2>. QED
    BY <2>1, <2>2
<1>. QED
  BY <1>1, <1>2

LEMMA EncodedType == \A p \in Parts : Encoded(p) \in Seq(Bytes)
<1>. SUFFICES ASSUME NEW p \in Parts PROVE Encoded(p) \in Seq(Bytes)
  OBVIOUS
<1>1. CASE p \in [kind : {"text"}, chars : Seq(Chars)]
  BY <1>1, TextType DEF Encoded
<1>2. CASE \E b \in Bytes : p = Mark(b)
  <2>1. PICK b \in Bytes : p = Mark(b)
    BY <1>2
  <2>2. p.kind # "text" /\ p.chars = <<b>>
    BY <2>1 DEF Mark
  <2>. QED
    BY <2>2 DEF Encoded
<1>. QED
  BY <1>1, <1>2 DEF Parts

LEMMA JsonFacts ==
  /\ Json(<<>>) = <<>>
  /\ \A v \in Seq(Parts), p \in Parts : Json(Append(v, p)) = Json(v) \o Encoded(p)
  /\ \A v \in Seq(Parts) : Json(v) \in Seq(Bytes)
<1>1. Json(<<>>) = <<>>
  BY DEF Json, FlattenSeq
<1>2. ASSUME NEW v \in Seq(Parts), NEW p \in Parts
      PROVE  Json(v) \in Seq(Bytes) /\ Json(Append(v, p)) = Json(v) \o Encoded(p)
  <2>. DEFINE m == Len(v)
              e == [n \in DOMAIN v |-> Encoded(v[n])]
              t == Append(v, p)
  <2>1. m \in Nat /\ DOMAIN v = 1..m /\ \A n \in 1..m : v[n] \in Parts
    BY LenProperties, ElementOfSeq
  <2>2. DOMAIN t = 1..(m + 1) /\ t[m + 1] = p /\ \A n \in 1..m : t[n] = v[n]
    BY AppendProperties, LenProperties
  <2>3. e \in [1..m -> Seq(Bytes)]
    BY <2>1, EncodedType
  <2>4. e \in Seq(Seq(Bytes)) /\ Len(e) = m
    BY <2>1, <2>3
  <2>5. [n \in DOMAIN t |-> Encoded(t[n])] = Append(e, Encoded(p))
    <3>. HIDE DEF t
    <3>1. Len(e) + 1 = m + 1 /\ Append(e, Encoded(p)) = [n \in 1..(m + 1) |-> IF n = m + 1 THEN Encoded(p) ELSE e[n]]
      BY <2>1, <2>4
    <3>2. \A n \in 1..(m + 1) : Encoded(t[n]) = IF n = m + 1 THEN Encoded(p) ELSE e[n]
      BY <2>1, <2>2
    <3>. QED
      BY <2>2, <3>1, <3>2
  <2>6. Encoded(p) \in Seq(Bytes)
    BY EncodedType
  <2>. HIDE DEF e, t
  <2>7. FlattenSeq(e) \in Seq(Bytes) /\ FlattenSeq(Append(e, Encoded(p))) = FlattenSeq(e) \o Encoded(p)
    BY <2>4, <2>6, FlattenFacts
  <2>8. Json(v) = FlattenSeq(e) /\ Json(t) = FlattenSeq(Append(e, Encoded(p)))
    BY <2>5 DEF Json, e
  <2>. QED
    BY <2>7, <2>8 DEF t
<1>3. \E p : p \in Parts
  <2>1. Mark("null") \in Parts
    BY DEF Parts, Bytes
  <2>. QED
    BY <2>1
<1>. QED
  BY <1>1, <1>2, <1>3

-----------------------------------------------------------------------------
(* The scanner: its state after a line.                                     *)

ScanStates == [inString : BOOLEAN, escape : BOOLEAN, depth : Int, field : Int, value : Int]

Outside(depth, field) ==
  [inString |-> FALSE, escape |-> FALSE, depth |-> depth, field |-> field, value |-> 0]
Inside(depth, field) ==
  [inString |-> TRUE, escape |-> FALSE, depth |-> depth, field |-> field, value |-> 0]
Escaping(depth, field) ==
  [inString |-> TRUE, escape |-> TRUE, depth |-> depth, field |-> field, value |-> 0]

Scan(line, n) ==
  LET scan[i \in 0..Len(line)] ==
        IF i = 0 THEN Outside(0, 1) ELSE ScanByte(scan[i - 1], line[i], i, n)
  IN  scan[Len(line)]

LEMMA ValueStartIsScan == \A line, n : ValueStart(line, n) = Scan(line, n).value
BY DEF ValueStart, Scan, Outside

LEMMA ScanByteType ==
  ASSUME NEW s \in ScanStates, NEW b \in Bytes, NEW i \in Int, NEW n
  PROVE  ScanByte(s, b, i, n) \in ScanStates
<1>1. /\ s.inString \in BOOLEAN /\ s.escape \in BOOLEAN /\ s.depth \in Int /\ s.field \in Int /\ s.value \in Int
  BY DEF ScanStates
<1>2. InString(s, b) \in ScanStates
  BY <1>1 DEF InString, ScanStates
<1>3. AtColon(s, i, n) \in ScanStates
  BY <1>1 DEF AtColon, ScanStates
<1>4. [s EXCEPT !.inString = TRUE] \in ScanStates
  BY <1>1 DEF ScanStates
<1>5. [s EXCEPT !.depth = @ + 1] \in ScanStates /\ [s EXCEPT !.depth = @ - 1] \in ScanStates
  BY <1>1 DEF ScanStates
<1>. QED
  BY <1>1, <1>2, <1>3, <1>4, <1>5 DEF ScanByte

Scans(h, line, n, m) ==
  h \in [0..m -> ScanStates] /\ h[0] = Outside(0, 1) /\ \A k \in 1..m : h[k] = ScanByte(h[k - 1], line[k], k, n)

LEMMA ScanFolds ==
  ASSUME NEW line \in Seq(Bytes), NEW n
  PROVE  \E h : Scans(h, line, n, Len(line)) /\ Scan(line, n) = h[Len(line)]
<1>. DEFINE m == Len(line)
            step == [k \in 1..m |-> [a \in ScanStates |-> ScanByte(a, line[k], k, n)]]
            Fits(f) == f = [i \in 0..m |-> IF i = 0 THEN Outside(0, 1) ELSE ScanByte(f[i - 1], line[i], i, n)]
<1>1. m \in Nat /\ \A k \in 1..m : line[k] \in Bytes
  BY ElementOfSeq, LenProperties
<1>. HIDE DEF m
<1>2. StepsOn(step, Outside(0, 1), ScanStates, m)
  <2>1. \A k \in 1..m, a \in ScanStates : ScanByte(a, line[k], k, n) \in ScanStates
    BY <1>1, ScanByteType
  <2>2. Outside(0, 1) \in ScanStates
    BY DEF Outside, ScanStates
  <2>. QED
    BY <1>1, <2>1, <2>2 DEF StepsOn
<1>3. \A k \in 1..m, a \in ScanStates : step[k][a] = ScanByte(a, line[k], k, n)
  OBVIOUS
<1>. HIDE DEF step
<1>4. PICK h : FoldsBy(h, step, Outside(0, 1), ScanStates, m)
  BY <1>2, FoldExists
<1>5. Scans(h, line, n, m)
  <2>1. h \in [0..m -> ScanStates] /\ h[0] = Outside(0, 1) /\ \A k \in 1..m : h[k] = step[k][h[k - 1]]
    BY <1>4 DEF FoldsBy
  <2>2. ASSUME NEW k \in 1..m PROVE h[k] = ScanByte(h[k - 1], line[k], k, n)
    <3>1. k - 1 \in 0..m
      BY <1>1
    <3>2. h[k - 1] \in ScanStates
      BY <2>1, <3>1
    <3>. QED
      BY <1>3, <2>1, <3>2
  <2>. QED
    BY <2>1, <2>2 DEF Scans
<1>6. Fits(h)
  BY <1>1, <1>5 DEF Scans
<1>7. PICK g : g = (CHOOSE f : Fits(f)) /\ Fits(g)
  BY <1>6
<1>8. Scan(line, n) = g[m]
  BY <1>7 DEF Scan, m
<1>9. g[0] = Outside(0, 1) /\ \A k \in 1..m : g[k] = ScanByte(g[k - 1], line[k], k, n)
  <2>1. g = [i \in 0..m |-> IF i = 0 THEN Outside(0, 1) ELSE ScanByte(g[i - 1], line[i], i, n)]
    BY <1>7
  <2>. HIDE DEF Fits
  <2>2. \A k \in 0..m : g[k] = IF k = 0 THEN Outside(0, 1) ELSE ScanByte(g[k - 1], line[k], k, n)
    BY <2>1
  <2>. QED
    BY <1>1, <2>2
<1>. HIDE DEF Fits
<1>10. SameSteps(g, h, m)
  BY <1>5, <1>9 DEF SameSteps, Scans
<1>11. g[m] = h[m]
  BY <1>1, <1>10, FoldIsUnique DEF SameUpTo
<1>. QED
  BY <1>5, <1>8, <1>11 DEF m

LEMMA ScanFacts ==
  ASSUME NEW line \in Seq(Bytes), NEW n
  PROVE  /\ Scan(line, n) \in ScanStates
         /\ Scan(<<>>, n) = Outside(0, 1)
         /\ \A b \in Bytes : Scan(Append(line, b), n) = ScanByte(Scan(line, n), b, Len(line) + 1, n)
<1>1. PICK h : Scans(h, line, n, Len(line)) /\ Scan(line, n) = h[Len(line)]
  BY ScanFolds
<1>2. Len(line) \in Nat
  OBVIOUS
<1>3. Scan(line, n) \in ScanStates
  BY <1>1, <1>2 DEF Scans
<1>4. Scan(<<>>, n) = Outside(0, 1)
  <2>1. <<>> \in Seq(Bytes) /\ Len(<<>>) = 0
    OBVIOUS
  <2>2. PICK g : Scans(g, <<>>, n, 0) /\ Scan(<<>>, n) = g[0]
    BY <2>1, ScanFolds
  <2>. QED
    BY <2>2 DEF Scans
<1>5. ASSUME NEW b \in Bytes PROVE Scan(Append(line, b), n) = ScanByte(Scan(line, n), b, Len(line) + 1, n)
  <2>. DEFINE t == Append(line, b)
              m == Len(line)
  <2>1. t \in Seq(Bytes) /\ Len(t) = m + 1 /\ t[m + 1] = b /\ \A i \in 1..m : t[i] = line[i]
    BY AppendProperties
  <2>. HIDE DEF t
  <2>2. PICK g : Scans(g, t, n, Len(t)) /\ Scan(t, n) = g[Len(t)]
    BY <2>1, ScanFolds
  <2>3. SameSteps(g, h, m)
    <3>1. ASSUME NEW k \in 1..m, g[k - 1] = h[k - 1] PROVE g[k] = h[k]
      <4>1. k \in 1..Len(t)
        BY <1>2, <2>1
      <4>. QED
        BY <1>1, <2>1, <2>2, <3>1, <4>1 DEF Scans
    <3>. QED
      BY <1>1, <2>2, <3>1 DEF Scans, SameSteps
  <2>4. g[m] = h[m]
    BY <1>2, <2>3, FoldIsUnique DEF SameUpTo
  <2>5. g[m + 1] = ScanByte(g[m], b, m + 1, n)
    <3>1. m + 1 \in 1..Len(t) /\ (m + 1) - 1 = m
      BY <1>2, <2>1
    <3>. QED
      BY <2>1, <2>2, <3>1 DEF Scans
  <2>. QED
    BY <1>1, <2>1, <2>2, <2>4, <2>5 DEF t
<1>. QED
  BY <1>3, <1>4, <1>5

\* Once the value is found, nothing changes.
LEMMA ScanFound ==
  ASSUME NEW line \in Seq(Bytes), NEW n, NEW rest \in Seq(Bytes), Scan(line, n).value # 0
  PROVE  Scan(line \o rest, n) = Scan(line, n)
<1>. DEFINE T == {u \in Seq(Bytes) : Scan(line \o u, n) = Scan(line, n)}
<1>1. <<>> \in T
  <2>1. line \o <<>> = line /\ <<>> \in Seq(Bytes)
    OBVIOUS
  <2>2. Scan(line \o <<>>, n) = Scan(line, n)
    BY <2>1
  <2>. QED
    BY <2>1, <2>2
<1>2. ASSUME NEW u \in Seq(Bytes), NEW b \in Bytes, u \in T PROVE Append(u, b) \in T
  <2>1. line \o Append(u, b) = Append(line \o u, b) /\ line \o u \in Seq(Bytes) /\ Append(u, b) \in Seq(Bytes)
    OBVIOUS
  <2>2. Scan(Append(line \o u, b), n) = ScanByte(Scan(line \o u, n), b, Len(line \o u) + 1, n)
    BY <2>1, ScanFacts
  <2>3. Scan(line \o u, n) = Scan(line, n)
    BY <1>2
  <2>4. ScanByte(Scan(line, n), b, Len(line \o u) + 1, n) = Scan(line, n)
    BY DEF ScanByte
  <2>5. Scan(line \o Append(u, b), n) = Scan(Append(line \o u, b), n)
    BY <2>1
  <2>. QED
    BY <2>1, <2>2, <2>3, <2>4, <2>5
<1>3. Seq(Bytes) \subseteq T
  <2>. HIDE DEF T
  <2>. QED
    BY <1>1, <1>2, SeqInduction
<1>. QED
  BY <1>3

-----------------------------------------------------------------------------
(* One byte.                                                                *)

LEMMA ScanQuote ==
  ASSUME NEW d, NEW f, NEW i, NEW n
  PROVE  /\ ScanByte(Outside(d, f), "quote", i, n) = Inside(d, f)
         /\ ScanByte(Inside(d, f), "quote", i, n) = Outside(d, f)
         /\ ScanByte(Inside(d, f), "backslash", i, n) = Escaping(d, f)
         /\ \A b : ScanByte(Escaping(d, f), b, i, n) = Inside(d, f)
         /\ \A b : b \notin {"quote", "backslash"} => ScanByte(Inside(d, f), b, i, n) = Inside(d, f)
<1>1. ScanByte(Outside(d, f), "quote", i, n) = Inside(d, f)
  BY DEF ScanByte, Outside, Inside
<1>2. \A b : ScanByte(Inside(d, f), b, i, n) = InString(Inside(d, f), b)
  BY DEF ScanByte, Inside
<1>3. \A b : ScanByte(Escaping(d, f), b, i, n) = InString(Escaping(d, f), b)
  BY DEF ScanByte, Escaping
<1>4. InString(Inside(d, f), "quote") = Outside(d, f)
  BY DEF InString, Outside, Inside
<1>5. InString(Inside(d, f), "backslash") = Escaping(d, f)
  BY DEF InString, Escaping, Inside
<1>6. \A b : InString(Escaping(d, f), b) = Inside(d, f)
  BY DEF InString, Escaping, Inside
<1>7. \A b : b \notin {"quote", "backslash"} => InString(Inside(d, f), b) = Inside(d, f)
  BY DEF InString, Inside
<1>. QED
  BY <1>1, <1>2, <1>3, <1>4, <1>5, <1>6, <1>7

LEMMA ScanMark ==
  ASSUME NEW d \in Int, NEW f \in Int, NEW i, NEW n
  PROVE  /\ ScanByte(Outside(d, f), "open", i, n) = Outside(d + 1, f)
         /\ ScanByte(Outside(d, f), "close", i, n) = Outside(d - 1, f)
         /\ \A b \in {"comma", "null", "other"} : ScanByte(Outside(d, f), b, i, n) = Outside(d, f)
         /\ d # 1 => ScanByte(Outside(d, f), "colon", i, n) = Outside(d, f)
         /\ d = 1 /\ f # n => ScanByte(Outside(d, f), "colon", i, n) = Outside(d, f + 1)
         /\ d = 1 /\ f = n => ScanByte(Outside(d, f), "colon", i, n).value = i + 1
<1>1. ScanByte(Outside(d, f), "open", i, n) = Outside(d + 1, f)
  BY DEF ScanByte, Outside
<1>2. ScanByte(Outside(d, f), "close", i, n) = Outside(d - 1, f)
  BY DEF ScanByte, Outside
<1>3. \A b \in {"comma", "null", "other"} : ScanByte(Outside(d, f), b, i, n) = Outside(d, f)
  BY DEF ScanByte, Outside
<1>4. ScanByte(Outside(d, f), "colon", i, n) = AtColon(Outside(d, f), i, n)
  BY DEF ScanByte, Outside
<1>5. d # 1 => AtColon(Outside(d, f), i, n) = Outside(d, f)
  BY DEF AtColon, Outside
<1>6. d = 1 /\ f # n => AtColon(Outside(d, f), i, n) = Outside(d, f + 1)
  BY DEF AtColon, Outside
<1>7. d = 1 /\ f = n => AtColon(Outside(d, f), i, n).value = i + 1
  BY DEF AtColon, Outside
<1>. QED
  BY <1>1, <1>2, <1>3, <1>4, <1>5, <1>6, <1>7

-----------------------------------------------------------------------------
(* A string and a value.                                                    *)

LEMMA ScanEscaped ==
  ASSUME NEW line \in Seq(Bytes), NEW n, NEW d, NEW f, Scan(line, n) = Inside(d, f), NEW c \in Chars
  PROVE  Scan(line \o Escaped(c), n) = Inside(d, f)
<1>1. ASSUME NEW x \in Bytes PROVE Scan(line \o <<"backslash", x>>, n) = Inside(d, f)
  <2>. DEFINE p == Append(line, "backslash")
  <2>1. "backslash" \in Bytes
    BY DEF Bytes
  <2>2. p \in Seq(Bytes) /\ line \o <<"backslash", x>> = Append(p, x)
    BY <2>1
  <2>3. Scan(p, n) = ScanByte(Scan(line, n), "backslash", Len(line) + 1, n)
    BY <2>1, ScanFacts
  <2>4. Scan(p, n) = Escaping(d, f)
    BY <2>3, ScanQuote
  <2>. HIDE DEF p
  <2>5. Scan(Append(p, x), n) = ScanByte(Scan(p, n), x, Len(p) + 1, n)
    BY <2>2, ScanFacts
  <2>6. \A i : ScanByte(Escaping(d, f), x, i, n) = Inside(d, f)
    BY ScanQuote
  <2>7. Scan(Append(p, x), n) = Inside(d, f)
    BY <2>4, <2>5, <2>6
  <2>. QED
    BY <2>2, <2>7
<1>2. CASE c \in {"quote", "backslash"}
  <2>1. c \in Bytes /\ Escaped(c) = <<"backslash", c>>
    BY <1>2 DEF Bytes, Escaped
  <2>. QED
    BY <1>1, <2>1
<1>3. CASE c = "newline"
  <2>1. "other" \in Bytes /\ Escaped(c) = <<"backslash", "other">>
    BY <1>3 DEF Bytes, Escaped
  <2>. QED
    BY <1>1, <2>1
<1>4. CASE c \notin {"quote", "backslash"} /\ c # "newline"
  <2>1. c \in Bytes /\ Escaped(c) = <<c>>
    BY <1>4 DEF Chars, Escaped
  <2>2. line \o <<c>> = Append(line, c)
    BY <2>1
  <2>3. Scan(Append(line, c), n) = ScanByte(Scan(line, n), c, Len(line) + 1, n)
    BY <2>1, ScanFacts
  <2>4. \A i : ScanByte(Inside(d, f), c, i, n) = Inside(d, f)
    BY <1>4, ScanQuote
  <2>5. Scan(Append(line, c), n) = Inside(d, f)
    BY <2>3, <2>4
  <2>. QED
    BY <2>1, <2>2, <2>5
<1>. QED
  BY <1>2, <1>3, <1>4

LEMMA ScanEscapes ==
  ASSUME NEW line \in Seq(Bytes), NEW n, NEW d, NEW f, Scan(line, n) = Inside(d, f)
  PROVE  \A s \in Seq(Chars) : Scan(line \o Escapes(s), n) = Inside(d, f)
<1>. DEFINE T == {s \in Seq(Chars) : Scan(line \o Escapes(s), n) = Inside(d, f)}
<1>1. <<>> \in T
  <2>1. Escapes(<<>>) = <<>> /\ line \o <<>> = line /\ <<>> \in Seq(Chars)
    BY EscapesFacts
  <2>2. Scan(line \o Escapes(<<>>), n) = Scan(line, n)
    BY <2>1
  <2>. QED
    BY <2>1, <2>2
<1>2. ASSUME NEW s \in Seq(Chars), NEW c \in Chars, s \in T PROVE Append(s, c) \in T
  <2>. DEFINE e == Escapes(s)
              x == Escaped(c)
  <2>1. e \in Seq(Bytes) /\ x \in Seq(Bytes) /\ Escapes(Append(s, c)) = e \o x
    BY EscapesFacts, EscapedType
  <2>2. Scan(line \o e, n) = Inside(d, f)
    BY <1>2
  <2>. HIDE DEF e
  <2>. DEFINE p == line \o e
  <2>3. p \in Seq(Bytes) /\ Scan(p, n) = Inside(d, f)
    BY <2>1, <2>2
  <2>. HIDE DEF p
  <2>4. Scan(p \o x, n) = Inside(d, f)
    BY <2>3, ScanEscaped
  <2>. USE DEF p
  <2>. HIDE DEF x
  <2>5. (line \o e) \o x = line \o (e \o x)
    BY <2>1
  <2>6. Append(s, c) \in Seq(Chars)
    OBVIOUS
  <2>. QED
    BY <2>1, <2>4, <2>5, <2>6
<1>3. Seq(Chars) \subseteq T
  <2>. HIDE DEF T
  <2>. QED
    BY <1>1, <1>2, SeqInduction
<1>. QED
  BY <1>3

\* The scanner leaves a string as it came to it.
LEMMA ScanText ==
  ASSUME NEW line \in Seq(Bytes), NEW n, NEW d, NEW f, Scan(line, n) = Outside(d, f), NEW s \in Seq(Chars)
  PROVE  Scan(line \o Text(s), n) = Outside(d, f)
<1>. DEFINE e == Escapes(s)
            p == Append(line, "quote")
<1>1. "quote" \in Bytes /\ e \in Seq(Bytes) /\ Text(s) = <<"quote">> \o e \o <<"quote">>
  BY EscapesFacts, TextType DEF Bytes
<1>2. p \in Seq(Bytes) /\ Scan(p, n) = Inside(d, f)
  <2>1. Scan(p, n) = ScanByte(Scan(line, n), "quote", Len(line) + 1, n)
    BY <1>1, ScanFacts
  <2>. QED
    BY <1>1, <2>1, ScanQuote
<1>. HIDE DEF p
<1>3. Scan(p \o e, n) = Inside(d, f)
  BY <1>2, ScanEscapes
<1>. HIDE DEF e
<1>4. p \o e \in Seq(Bytes)
  BY <1>1, <1>2
<1>5. Scan(Append(p \o e, "quote"), n) = ScanByte(Scan(p \o e, n), "quote", Len(p \o e) + 1, n)
  BY <1>1, <1>4, ScanFacts
<1>6. Scan(Append(p \o e, "quote"), n) = Outside(d, f)
  BY <1>3, <1>5, ScanQuote
<1>7. line \o (<<"quote">> \o e \o <<"quote">>) = Append(p \o e, "quote")
  BY <1>1 DEF p
<1>. QED
  BY <1>1, <1>6, <1>7

Opens(p) ==
  CASE p = Mark("open")  -> 1
    [] p = Mark("close") -> -1
    [] OTHER             -> 0

LEMMA OpensType == \A p : Opens(p) \in Int
BY DEF Opens

LEMMA NestingFacts ==
  ASSUME NEW v \in Seq(Parts)
  PROVE  /\ Nesting(v)[0] = 0
         /\ \A k \in 1..Len(v) : Nesting(v)[k] = Nesting(v)[k - 1] + Opens(v[k])
         /\ \A k \in 0..Len(v) : Nesting(v)[k] \in Int
<1>. DEFINE m == Len(v)
            o == [k \in 1..m |-> Opens(v[k])]
            step == [k \in 1..m |-> [a \in Int |-> a + o[k]]]
            Fits(f) == f = [n \in 0..m |-> IF n = 0 THEN 0 ELSE f[n - 1] + Opens(v[n])]
<1>1. m \in Nat /\ o \in [1..m -> Int] /\ \A k \in 1..m : o[k] = Opens(v[k])
  BY OpensType, LenProperties
<1>. HIDE DEF m, o
<1>2. StepsOn(step, 0, Int, m)
  BY <1>1 DEF StepsOn
<1>3. \A k \in 1..m, a \in Int : step[k][a] = a + Opens(v[k])
  BY <1>1
<1>. HIDE DEF step
<1>4. PICK h : FoldsBy(h, step, 0, Int, m)
  BY <1>2, FoldExists
<1>5. h \in [0..m -> Int] /\ h[0] = 0 /\ \A k \in 1..m : h[k] = step[k][h[k - 1]]
  BY <1>4 DEF FoldsBy
<1>6. ASSUME NEW k \in 1..m PROVE h[k] = h[k - 1] + Opens(v[k])
  <2>1. h[k - 1] \in Int
    <3>1. k - 1 \in 0..m
      BY <1>1
    <3>. QED
      BY <1>5, <3>1
  <2>. QED
    BY <1>3, <1>5, <2>1
<1>7. Fits(h)
  BY <1>1, <1>5, <1>6
<1>8. PICK g : g = (CHOOSE f : Fits(f)) /\ Fits(g)
  BY <1>7
<1>9. Nesting(v) = g
  BY <1>8 DEF Nesting, Opens, m
<1>10. g[0] = 0 /\ \A k \in 1..m : g[k] = g[k - 1] + Opens(v[k])
  <2>1. g = [n \in 0..m |-> IF n = 0 THEN 0 ELSE g[n - 1] + Opens(v[n])]
    BY <1>8
  <2>. HIDE DEF Fits
  <2>2. \A k \in 0..m : g[k] = IF k = 0 THEN 0 ELSE g[k - 1] + Opens(v[k])
    BY <2>1
  <2>. QED
    BY <1>1, <2>2
<1>. HIDE DEF Fits
<1>11. SameSteps(g, h, m)
  BY <1>5, <1>6, <1>10 DEF SameSteps
<1>12. \A k \in 0..m : g[k] = h[k]
  BY <1>1, <1>11, FoldIsUnique DEF SameUpTo
<1>. QED
  BY <1>5, <1>9, <1>10, <1>12 DEF m

LEMMA ScanPart ==
  ASSUME NEW line \in Seq(Bytes), NEW n, NEW d \in Int, NEW f \in Int, Scan(line, n) = Outside(d, f),
         NEW p \in Parts, p = Mark("colon") => d # 1
  PROVE  Scan(line \o Encoded(p), n) = Outside(d + Opens(p), f)
<1>1. CASE p \in [kind : {"text"}, chars : Seq(Chars)]
  <2>1. p.kind = "text" /\ p.chars \in Seq(Chars)
    BY <1>1
  <2>2. Encoded(p) = Text(p.chars)
    BY <2>1 DEF Encoded
  <2>3. Opens(p) = 0
    BY <2>1 DEF Opens, Mark
  <2>. QED
    BY <2>1, <2>2, <2>3, ScanText
<1>2. CASE \E b \in Bytes \ {"quote", "backslash"} : p = Mark(b)
  <2>1. PICK b \in Bytes \ {"quote", "backslash"} : p = Mark(b)
    BY <1>2
  <2>2. p.kind = "mark" /\ p.chars = <<b>>
    BY <2>1 DEF Mark
  <2>3. Encoded(p) = <<b>>
    BY <2>2 DEF Encoded
  <2>4. line \o <<b>> = Append(line, b)
    BY <2>1
  <2>5. Scan(Append(line, b), n) = ScanByte(Outside(d, f), b, Len(line) + 1, n)
    BY <2>1, ScanFacts
  <2>6. \A x, y \in Bytes : Mark(x) = Mark(y) => x = y
    BY DEF Mark
  <2>7. ScanByte(Outside(d, f), b, Len(line) + 1, n) = Outside(d + Opens(p), f)
    <3>1. CASE b = "open"
      <4>1. Opens(p) = 1
        <5>1. p # Mark("close") /\ p = Mark("open")
          BY <2>1, <2>6, <3>1 DEF Bytes
        <5>. QED
          BY <5>1 DEF Opens
      <4>. QED
        BY <3>1, <4>1, ScanMark
    <3>2. CASE b = "close"
      <4>1. Opens(p) = -1 /\ d + Opens(p) = d - 1
        <5>1. p # Mark("open")
          BY <2>1, <2>6, <3>2 DEF Bytes
        <5>. QED
          BY <2>1, <3>2, <5>1 DEF Opens
      <4>. QED
        BY <3>2, <4>1, ScanMark
    <3>3. CASE b \notin {"open", "close"}
      <4>1. Opens(p) = 0 /\ d + Opens(p) = d
        <5>1. p # Mark("open") /\ p # Mark("close")
          BY <2>1, <2>6, <3>3 DEF Bytes
        <5>. QED
          BY <5>1 DEF Opens
      <4>2. CASE b = "colon"
        BY <2>1, <4>1, <4>2, ScanMark
      <4>3. CASE b # "colon"
        <5>1. b \in {"comma", "null", "other"}
          BY <2>1, <3>3, <4>3 DEF Bytes
        <5>. QED
          BY <4>1, <5>1, ScanMark
      <4>. QED
        BY <4>2, <4>3
    <3>. QED
      BY <3>1, <3>2, <3>3
  <2>. QED
    BY <2>3, <2>4, <2>5, <2>7
<1>. QED
  BY <1>1, <1>2 DEF Parts

\* And a value, whose own keys are all inside its brackets.
LEMMA ScanJson ==
  ASSUME NEW line \in Seq(Bytes), NEW n, NEW f \in Int, Scan(line, n) = Outside(1, f), NEW v, IsValue(v)
  PROVE  Scan(line \o Json(v), n) = Outside(1, f)
<1>. DEFINE m == Len(v)
            First(k) == SubSeq(v, 1, k)
            S == {k \in Nat : k <= m => Scan(line \o Json(First(k)), n) = Outside(1 + Nesting(v)[k], f)}
<1>1. v \in Seq(Parts) /\ m \in Nat /\ Nesting(v)[m] = 0
  BY DEF IsValue
<1>2. 0 \in S
  <2>1. First(0) = <<>> /\ Json(<<>>) = <<>>
    BY SubSeqEmpty, JsonFacts
  <2>2. Nesting(v)[0] = 0 /\ 1 + Nesting(v)[0] = 1
    BY <1>1, NestingFacts
  <2>3. line \o <<>> = line
    OBVIOUS
  <2>. HIDE DEF First
  <2>4. Json(First(0)) = <<>>
    BY <2>1
  <2>5. Scan(line \o Json(First(0)), n) = Scan(line, n)
    BY <2>3, <2>4
  <2>6. Outside(1 + Nesting(v)[0], f) = Outside(1, f)
    BY <2>2
  <2>. QED
    BY <2>5, <2>6
<1>3. ASSUME NEW k \in Nat, k \in S PROVE k + 1 \in S
  <2>. SUFFICES ASSUME k + 1 <= m
                PROVE  Scan(line \o Json(First(k + 1)), n) = Outside(1 + Nesting(v)[k + 1], f)
    OBVIOUS
  <2>. DEFINE p == v[k + 1]
              j == Json(First(k))
              q == line \o j
              d == 1 + Nesting(v)[k]
  <2>1. k + 1 \in 1..m /\ (k + 1) - 1 = k /\ k \in 0..m
    BY <1>1
  <2>2. p \in Parts
    BY <1>1, <2>1, ElementOfSeq
  <2>3. First(k) \in Seq(Parts) /\ First(k + 1) = Append(First(k), p)
    BY <1>1, <2>1
  <2>4. Nesting(v)[k] \in Int /\ Nesting(v)[k + 1] = Nesting(v)[k] + Opens(p)
    BY <1>1, <2>1, NestingFacts
  <2>5. p = Mark("colon") => d # 1
    <3>. SUFFICES ASSUME p = Mark("colon") PROVE d # 1
      OBVIOUS
    <3>1. Nesting(v)[k + 1] > 0
      BY <1>1, <2>1 DEF IsValue
    <3>2. Opens(p) = 0
      BY DEF Opens, Mark
    <3>. QED
      BY <2>4, <3>1, <3>2
  <2>6. j \in Seq(Bytes) /\ Encoded(p) \in Seq(Bytes) /\ Json(First(k + 1)) = j \o Encoded(p)
    BY <2>2, <2>3, JsonFacts, EncodedType
  <2>7. Scan(q, n) = Outside(d, f)
    BY <1>3, <2>1
  <2>. HIDE DEF j, p
  <2>8. q \in Seq(Bytes) /\ d \in Int
    BY <2>4, <2>6
  <2>. DEFINE e == Encoded(p)
  <2>. HIDE DEF q, d
  <2>9. Scan(q \o e, n) = Outside(d + Opens(p), f)
    BY <2>2, <2>5, <2>7, <2>8, ScanPart
  <2>. HIDE DEF e
  <2>10. q \o e = line \o (j \o e)
    <3>1. j \in Seq(Bytes) /\ e \in Seq(Bytes)
      BY <2>6 DEF e
    <3>. QED
      BY <3>1 DEF q
  <2>11. d + Opens(p) = 1 + Nesting(v)[k + 1]
    BY <2>4, OpensType DEF d
  <2>. QED
    BY <2>6, <2>9, <2>10, <2>11 DEF e
<1>4. Nat \subseteq S
  <2>. HIDE DEF S
  <2>. QED
    BY <1>2, <1>3, SetInduction
<1>5. First(m) = v
  BY <1>1, SubSeqFull
<1>6. Scan(line \o Json(First(m)), n) = Outside(1 + Nesting(v)[m], f)
  BY <1>1, <1>4
<1>7. 1 + Nesting(v)[m] = 1
  BY <1>1
<1>8. Outside(1 + Nesting(v)[m], f) = Outside(1, f)
  BY <1>7
<1>. HIDE DEF First, m
<1>9. Json(First(m)) = Json(v)
  BY <1>5
<1>. QED
  BY <1>6, <1>8, <1>9

-----------------------------------------------------------------------------
(* The line of a row, when the columns of P have been patched.              *)

Value(r, k, P) ==
  IF k \in P /\ Rows[r][k].token # <<>> THEN Text(Rows[r][k].token) ELSE Json(Rows[r][k].json)

Key(k) == (IF k = 1 THEN <<>> ELSE <<"comma">>) \o Text(Keys[k]) \o <<"colon">>

Cells(r, P) == [k \in DOMAIN Keys |-> Cell(k, Value(r, k, P))]

LEMMA KeyFacts ==
  /\ Len(Keys) \in Nat /\ DOMAIN Keys = 1..Len(Keys)
  /\ \A k \in DOMAIN Keys : Keys[k] \in Seq(Chars)
<1>1. Keys \in Seq(Seq(Chars))
  BY EncodeAssumption
<1>. QED
  BY <1>1, LenProperties, ElementOfSeq

LEMMA RowFacts ==
  ASSUME NEW r \in DOMAIN Rows, NEW k \in DOMAIN Keys
  PROVE  /\ Rows[r][k].token \in Seq(Chars)
         /\ IsValue(Rows[r][k].json)
         /\ Rows[r][k].token # <<>> => Rows[r][k].json = <<Mark("null")>> /\ \E n \in DOMAIN Floats : Floats[n] = k
<1>. DEFINE CellSet == [json : Seq(Parts), token : Seq(Chars)]
            RowSet == [DOMAIN Keys -> CellSet]
<1>1. Rows \in Seq(RowSet)
  BY EncodeAssumption
<1>2. Rows[r] \in RowSet
  <2>. HIDE DEF RowSet
  <2>1. r \in 1..Len(Rows)
    BY <1>1, LenProperties
  <2>. QED
    BY <1>1, <2>1, ElementOfSeq
<1>3. Rows[r][k] \in CellSet
  <2>. HIDE DEF CellSet
  <2>. QED
    BY <1>2
<1>4. Rows[r][k].token \in Seq(Chars)
  BY <1>3
<1>. QED
  BY <1>4, EncodeAssumption

LEMMA ValueFacts ==
  ASSUME NEW r \in DOMAIN Rows, NEW k \in DOMAIN Keys, NEW P
  PROVE  /\ Value(r, k, P) \in Seq(Bytes)
         /\ \A line \in Seq(Bytes), n, f \in Int :
              Scan(line, n) = Outside(1, f) => Scan(line \o Value(r, k, P), n) = Outside(1, f)
<1>1. CASE k \in P /\ Rows[r][k].token # <<>>
  <2>1. Value(r, k, P) = Text(Rows[r][k].token)
    BY <1>1 DEF Value
  <2>2. Rows[r][k].token \in Seq(Chars)
    BY RowFacts
  <2>. QED
    BY <2>1, <2>2, TextType, ScanText
<1>2. CASE ~(k \in P /\ Rows[r][k].token # <<>>)
  <2>1. Value(r, k, P) = Json(Rows[r][k].json)
    BY <1>2 DEF Value
  <2>2. IsValue(Rows[r][k].json) /\ Rows[r][k].json \in Seq(Parts)
    BY RowFacts DEF IsValue
  <2>. QED
    BY <2>1, <2>2, JsonFacts, ScanJson
<1>. QED
  BY <1>1, <1>2

\* The colon of a key: it is the one looked for, or one of those before it.
LEMMA ScanKey ==
  ASSUME NEW line \in Seq(Bytes), NEW n, NEW f \in Int, Scan(line, n) = Outside(1, f), NEW k \in DOMAIN Keys
  PROVE  /\ Key(k) \in Seq(Bytes)
         /\ f # n => Scan(line \o Key(k), n) = Outside(1, f + 1)
         /\ f = n => Scan(line \o Key(k), n).value = Len(line \o Key(k)) + 1
<1>. DEFINE comma == IF k = 1 THEN <<>> ELSE <<"comma">>
            name == Text(Keys[k])
            p == line \o comma
            q == p \o name
<1>1. comma \in Seq(Bytes) /\ name \in Seq(Bytes) /\ "colon" \in Bytes /\ Key(k) = comma \o name \o <<"colon">>
  <2>1. "comma" \in Bytes /\ "colon" \in Bytes
    BY DEF Bytes
  <2>2. name \in Seq(Bytes)
    BY KeyFacts, TextType
  <2>. QED
    BY <2>1, <2>2 DEF Key
<1>2. p \in Seq(Bytes) /\ Scan(p, n) = Outside(1, f)
  <2>1. CASE k = 1
    BY <2>1
  <2>2. CASE k # 1
    <3>1. p = Append(line, "comma") /\ "comma" \in Bytes
      BY <2>2 DEF Bytes
    <3>2. Scan(Append(line, "comma"), n) = ScanByte(Outside(1, f), "comma", Len(line) + 1, n)
      BY <3>1, ScanFacts
    <3>3. ScanByte(Outside(1, f), "comma", Len(line) + 1, n) = Outside(1, f)
      BY ScanMark
    <3>4. p \in Seq(Bytes)
      BY <3>1
    <3>. HIDE DEF p
    <3>. QED
      BY <3>1, <3>2, <3>3, <3>4
  <2>. QED
    BY <2>1, <2>2
<1>. HIDE DEF p
<1>3. q \in Seq(Bytes) /\ Scan(q, n) = Outside(1, f)
  <2>1. Keys[k] \in Seq(Chars)
    BY KeyFacts
  <2>2. Scan(p \o Text(Keys[k]), n) = Outside(1, f)
    BY <1>2, <2>1, ScanText
  <2>. QED
    BY <1>1, <1>2, <2>2
<1>. HIDE DEF comma, name
<1>4. line \o Key(k) = Append(q, "colon") /\ Len(Append(q, "colon")) = Len(q) + 1
  <2>. DEFINE c == comma \o name
  <2>1. comma \in Seq(Bytes) /\ name \in Seq(Bytes)
    BY <1>1
  <2>2. c \in Seq(Bytes) /\ "colon" \in Bytes
    BY <1>1, <2>1
  <2>3. Key(k) = c \o <<"colon">> /\ q = line \o c
    <3>1. Key(k) = c \o <<"colon">>
      BY <1>1
    <3>2. q = line \o c
      BY <2>1 DEF p
    <3>. QED
      BY <3>1, <3>2
  <2>. HIDE DEF c, q
  <2>4. line \o (c \o <<"colon">>) = (line \o c) \o <<"colon">>
    BY <2>2
  <2>5. q \o <<"colon">> = Append(q, "colon") /\ Len(Append(q, "colon")) = Len(q) + 1
    BY <1>3, <2>2
  <2>. QED
    BY <2>3, <2>4, <2>5
<1>. HIDE DEF q
<1>5. Scan(Append(q, "colon"), n) = ScanByte(Outside(1, f), "colon", Len(q) + 1, n)
  BY <1>1, <1>3, ScanFacts
<1>6. f # n => ScanByte(Outside(1, f), "colon", Len(q) + 1, n) = Outside(1, f + 1)
  BY ScanMark
<1>7. f = n => ScanByte(Outside(1, f), "colon", Len(q) + 1, n).value = (Len(q) + 1) + 1
  BY ScanMark
<1>8. Key(k) \in Seq(Bytes)
  BY <1>1
<1>. QED
  BY <1>4, <1>5, <1>6, <1>7, <1>8

LEMMA KeyType == \A k \in DOMAIN Keys : Key(k) \in Seq(Bytes)
<1>. SUFFICES ASSUME NEW k \in DOMAIN Keys PROVE Key(k) \in Seq(Bytes)
  OBVIOUS
<1>. DEFINE comma == IF k = 1 THEN <<>> ELSE <<"comma">>
            t == Text(Keys[k])
            e == <<"colon">>
<1>1. comma \in Seq(Bytes) /\ e \in Seq(Bytes)
  <2>1. "comma" \in Bytes /\ "colon" \in Bytes
    BY DEF Bytes
  <2>. QED
    BY <2>1
<1>2. t \in Seq(Bytes)
  BY KeyFacts, TextType
<1>. HIDE DEF comma, t, e
<1>3. comma \o t \o e \in Seq(Bytes)
  BY <1>1, <1>2
<1>. QED
  BY <1>3 DEF Key, comma, t, e

LEMMA CellIsKeyAndValue ==
  ASSUME NEW k \in DOMAIN Keys, NEW x \in Seq(Bytes)
  PROVE  Cell(k, x) \in Seq(Bytes) /\ Cell(k, x) = Key(k) \o x
<1>. DEFINE comma == IF k = 1 THEN <<>> ELSE <<"comma">>
            name == Text(Keys[k])
<1>1. comma \in Seq(Bytes) /\ name \in Seq(Bytes) /\ "colon" \in Bytes
  <2>1. "comma" \in Bytes /\ "colon" \in Bytes
    BY DEF Bytes
  <2>2. name \in Seq(Bytes)
    BY KeyFacts, TextType
  <2>. QED
    BY <2>1, <2>2
<1>2. Cell(k, x) = comma \o name \o <<"colon">> \o x /\ Key(k) = comma \o name \o <<"colon">>
  BY DEF Cell, Key
<1>. HIDE DEF comma, name
<1>. QED
  BY <1>1, <1>2

LEMMA FlattenSplit ==
  ASSUME NEW S, NEW ss \in Seq(Seq(S)), NEW n \in 1..Len(ss)
  PROVE  /\ FlattenSeq(SubSeq(ss, 1, n)) = FlattenSeq(SubSeq(ss, 1, n - 1)) \o ss[n]
         /\ FlattenSeq(ss) = FlattenSeq(SubSeq(ss, 1, n)) \o FlattenSeq(SubSeq(ss, n + 1, Len(ss)))
         /\ FlattenSeq(SubSeq(ss, 1, n - 1)) \in Seq(S)
         /\ FlattenSeq(SubSeq(ss, 1, n)) \in Seq(S)
         /\ FlattenSeq(SubSeq(ss, n + 1, Len(ss))) \in Seq(S)
<1>. DEFINE a == SubSeq(ss, 1, n - 1)
            b == SubSeq(ss, 1, n)
            c == SubSeq(ss, n + 1, Len(ss))
<1>1. Len(ss) \in Nat /\ ss[n] \in Seq(S)
  BY ElementOfSeq, LenProperties
<1>2. a \in Seq(Seq(S)) /\ b \in Seq(Seq(S)) /\ c \in Seq(Seq(S))
  BY <1>1
<1>3. b = Append(a, ss[n])
  BY <1>1
<1>4. b \o c = ss
  BY <1>1
<1>. HIDE DEF a, b, c
<1>5. FlattenSeq(Append(a, ss[n])) = FlattenSeq(a) \o ss[n] /\ FlattenSeq(a) \in Seq(S)
  BY <1>1, <1>2, FlattenFacts
<1>6. FlattenSeq(b \o c) = FlattenSeq(b) \o FlattenSeq(c)
  BY <1>2, FlattenConcat
<1>7. FlattenSeq(b) \in Seq(S) /\ FlattenSeq(c) \in Seq(S)
  BY <1>2, FlattenFacts
<1>8. FlattenSeq(b) = FlattenSeq(Append(a, ss[n])) /\ FlattenSeq(ss) = FlattenSeq(b \o c)
  BY <1>3, <1>4
<1>. QED
  BY <1>5, <1>6, <1>7, <1>8 DEF a, b, c

LEMMA CellsFacts ==
  ASSUME NEW r \in DOMAIN Rows, NEW P
  PROVE  /\ Cells(r, P) \in Seq(Seq(Bytes)) /\ Len(Cells(r, P)) = Len(Keys) /\ DOMAIN Cells(r, P) = DOMAIN Keys
         /\ \A k \in DOMAIN Keys : Cells(r, P)[k] = Key(k) \o Value(r, k, P)
         /\ Line(Cells(r, P)) \in Seq(Bytes)
<1>1. \A k \in DOMAIN Keys : Cell(k, Value(r, k, P)) \in Seq(Bytes)
  BY CellIsKeyAndValue, ValueFacts
<1>2. Cells(r, P) \in [1..Len(Keys) -> Seq(Bytes)] /\ Len(Keys) \in Nat
  BY <1>1, KeyFacts DEF Cells
<1>3. Cells(r, P) \in Seq(Seq(Bytes)) /\ Len(Cells(r, P)) = Len(Keys) /\ DOMAIN Cells(r, P) = DOMAIN Keys
  BY <1>2, KeyFacts
<1>4. \A k \in DOMAIN Keys : Cells(r, P)[k] = Key(k) \o Value(r, k, P)
  BY CellIsKeyAndValue, ValueFacts DEF Cells
<1>5. Line(Cells(r, P)) \in Seq(Bytes)
  <2>. DEFINE x == FlattenSeq(Cells(r, P))
  <2>1. x \in Seq(Bytes)
    BY <1>3, FlattenFacts
  <2>2. "open" \in Bytes /\ "close" \in Bytes
    BY DEF Bytes
  <2>. HIDE DEF x
  <2>3. <<"open">> \o x \o <<"close">> \in Seq(Bytes)
    BY <2>1, <2>2
  <2>. QED
    BY <2>3 DEF Line, x
<1>. QED
  BY <1>3, <1>4, <1>5

\* The line before the n-th key, and after its value.
Before(r, P, n) == <<"open">> \o FlattenSeq(SubSeq(Cells(r, P), 1, n - 1))
After(r, P, n) == FlattenSeq(SubSeq(Cells(r, P), n + 1, Len(Keys))) \o <<"close">>

LEMMA LineParts ==
  ASSUME NEW r \in DOMAIN Rows, NEW P, NEW n \in DOMAIN Keys
  PROVE  /\ Before(r, P, n) \in Seq(Bytes) /\ After(r, P, n) \in Seq(Bytes)
         /\ Line(Cells(r, P)) = ((Before(r, P, n) \o Key(n)) \o Value(r, n, P)) \o After(r, P, n)
         /\ Before(r, P, n + 1) = (Before(r, P, n) \o Key(n)) \o Value(r, n, P)
         /\ Before(r, P, 1) = <<"open">>
<1>. DEFINE c == Cells(r, P)
            a == FlattenSeq(SubSeq(c, 1, n - 1))
            b == FlattenSeq(SubSeq(c, 1, n))
            z == FlattenSeq(SubSeq(c, n + 1, Len(c)))
            k == Key(n)
            v == Value(r, n, P)
<1>1. c \in Seq(Seq(Bytes)) /\ Len(c) = Len(Keys) /\ n \in 1..Len(c) /\ c[n] = k \o v
  BY CellsFacts, KeyFacts
<1>2. k \in Seq(Bytes) /\ v \in Seq(Bytes)
  <2>1. k \in Seq(Bytes)
    BY KeyType
  <2>. QED
    BY <2>1, ValueFacts
<1>. HIDE DEF c
<1>3. /\ b = a \o c[n] /\ FlattenSeq(c) = b \o z
      /\ a \in Seq(Bytes) /\ b \in Seq(Bytes) /\ z \in Seq(Bytes)
  BY <1>1, FlattenSplit
<1>4. SubSeq(c, 1, 1 - 1) = <<>> /\ FlattenSeq(<<>>) = <<>>
  <2>1. SubSeq(c, 1, 1 - 1) = <<>>
    BY <1>1
  <2>2. FlattenSeq(<<>>) = <<>>
    BY DEF FlattenSeq
  <2>. QED
    BY <2>1, <2>2
<1>5. "open" \in Bytes /\ "close" \in Bytes
  BY DEF Bytes
<1>6. Before(r, P, n) = <<"open">> \o a /\ After(r, P, n) = z \o <<"close">>
  BY <1>1 DEF Before, After, c
<1>7. Before(r, P, n + 1) = <<"open">> \o b
  <2>1. (n + 1) - 1 = n
    BY KeyFacts
  <2>. QED
    BY <2>1 DEF Before, c
<1>8. Line(c) = <<"open">> \o (b \o z) \o <<"close">>
  BY <1>3 DEF Line
<1>9. Before(r, P, 1) = <<"open">>
  <2>1. FlattenSeq(SubSeq(c, 1, 1 - 1)) = <<>>
    BY <1>4
  <2>2. <<"open">> \o <<>> = <<"open">>
    OBVIOUS
  <2>. QED
    BY <2>1, <2>2 DEF Before, c
<1>. HIDE DEF a, b, z, k, v
<1>10. b = a \o (k \o v)
  BY <1>1, <1>3
<1>11. <<"open">> \o a \in Seq(Bytes) /\ z \o <<"close">> \in Seq(Bytes)
  BY <1>3, <1>5
<1>12. <<"open">> \o b = ((<<"open">> \o a) \o k) \o v
  <2>. DEFINE o == <<"open">>
  <2>1. o \in Seq(Bytes)
    BY <1>5
  <2>2. a \in Seq(Bytes)
    BY <1>3
  <2>. HIDE DEF o
  <2>3. o \o (a \o (k \o v)) = ((o \o a) \o k) \o v
    <3>1. k \o v \in Seq(Bytes) /\ o \o a \in Seq(Bytes)
      BY <1>2, <2>1, <2>2
    <3>. DEFINE w == k \o v
                x == o \o a
    <3>2. x \o (k \o v) = (x \o k) \o v
      <4>1. x \in Seq(Bytes)
        BY <3>1
      <4>. HIDE DEF x
      <4>. QED
        BY <1>2, <4>1
    <3>3. o \o (a \o w) = (o \o a) \o w
      <4>1. w \in Seq(Bytes)
        BY <3>1
      <4>. HIDE DEF w
      <4>. QED
        BY <2>1, <2>2, <4>1
    <3>. QED
      BY <3>2, <3>3
  <2>. QED
    BY <1>10, <2>3 DEF o
<1>13. <<"open">> \o (b \o z) \o <<"close">> = (<<"open">> \o b) \o (z \o <<"close">>)
  <2>. DEFINE o == <<"open">>
              e == <<"close">>
  <2>1. o \in Seq(Bytes) /\ e \in Seq(Bytes)
    BY <1>5
  <2>. HIDE DEF o, e
  <2>2. o \o (b \o z) \o e = (o \o b) \o (z \o e)
    <3>1. b \in Seq(Bytes) /\ z \in Seq(Bytes)
      BY <1>3
    <3>2. o \o (b \o z) = (o \o b) \o z /\ o \o b \in Seq(Bytes)
      BY <2>1, <3>1
    <3>. DEFINE x == o \o b
    <3>3. x \in Seq(Bytes)
      BY <3>2
    <3>. HIDE DEF x
    <3>4. (x \o z) \o e = x \o (z \o e)
      BY <2>1, <3>1, <3>3
    <3>. QED
      BY <3>2, <3>4 DEF x
  <2>. QED
    BY <2>2 DEF o, e
<1>. QED
  BY <1>6, <1>7, <1>8, <1>9, <1>11, <1>12, <1>13 DEF c, k, v

\* The scanner comes to the n-th key with n - 1 keys counted.
LEMMA ScanBefore ==
  ASSUME NEW r \in DOMAIN Rows, NEW P, NEW n \in DOMAIN Keys
  PROVE  Scan(Before(r, P, n), n) = Outside(1, n)
<1>. DEFINE S == {k \in Nat : k + 1 <= n => Scan(Before(r, P, k + 1), n) = Outside(1, k + 1)}
<1>0. n \in Nat /\ n >= 1 /\ n <= Len(Keys) /\ Len(Keys) \in Nat /\ DOMAIN Keys = 1..Len(Keys)
  BY KeyFacts
<1>1. 0 \in S
  <2>1. 1 \in DOMAIN Keys
    BY <1>0
  <2>2. Before(r, P, 0 + 1) = <<"open">>
    BY <2>1, LineParts
  <2>3. <<>> \in Seq(Bytes) /\ "open" \in Bytes /\ Append(<<>>, "open") = <<"open">>
    BY DEF Bytes
  <2>4. Scan(Append(<<>>, "open"), n) = ScanByte(Outside(0, 1), "open", Len(<<>>) + 1, n)
    BY <2>3, ScanFacts
  <2>5. ScanByte(Outside(0, 1), "open", Len(<<>>) + 1, n) = Outside(0 + 1, 1)
    BY ScanMark
  <2>6. Scan(<<"open">>, n) = Outside(1, 1)
    BY <2>3, <2>4, <2>5
  <2>. QED
    BY <2>2, <2>6
<1>2. ASSUME NEW k \in Nat, k \in S PROVE k + 1 \in S
  <2>. SUFFICES ASSUME (k + 1) + 1 <= n
                PROVE  Scan(Before(r, P, (k + 1) + 1), n) = Outside(1, (k + 1) + 1)
    OBVIOUS
  <2>. DEFINE i == k + 1
              b == Before(r, P, i)
              c == b \o Key(i)
  <2>1. i \in DOMAIN Keys /\ i # n /\ i \in Int
    BY <1>0
  <2>2. Scan(b, n) = Outside(1, i)
    BY <1>0, <1>2
  <2>. HIDE DEF i
  <2>3. b \in Seq(Bytes) /\ Before(r, P, i + 1) = c \o Value(r, i, P)
    BY <2>1, LineParts
  <2>. HIDE DEF b
  <2>4. Scan(c, n) = Outside(1, i + 1) /\ Key(i) \in Seq(Bytes)
    BY <2>1, <2>2, <2>3, ScanKey
  <2>5. c \in Seq(Bytes) /\ i + 1 \in Int
    BY <2>1, <2>3, <2>4
  <2>. HIDE DEF c
  <2>6. n \in Int
    BY <1>0
  <2>7. Scan(c \o Value(r, i, P), n) = Outside(1, i + 1)
    BY <2>1, <2>4, <2>5, <2>6, ValueFacts
  <2>. QED
    BY <2>3, <2>7 DEF i
<1>3. Nat \subseteq S
  <2>. HIDE DEF S
  <2>. QED
    BY <1>1, <1>2, SetInduction
<1>4. n - 1 \in Nat /\ (n - 1) + 1 = n
  BY <1>0
<1>5. n - 1 \in S
  BY <1>3, <1>4
<1>. QED
  BY <1>4, <1>5

LEMMA NullFound ==
  ASSUME NEW r \in DOMAIN Rows, NEW P, NEW n \in DOMAIN Keys
  PROVE  ValueStart(Line(Cells(r, P)), n) = Len(Before(r, P, n) \o Key(n)) + 1
<1>. DEFINE b == Before(r, P, n)
            q == b \o Key(n)
            v == Value(r, n, P)
            z == After(r, P, n)
<1>1. n \in Int /\ n \in Nat
  BY KeyFacts
<1>2. b \in Seq(Bytes) /\ z \in Seq(Bytes) /\ v \in Seq(Bytes) /\ Line(Cells(r, P)) = (q \o v) \o z
  BY LineParts, ValueFacts
<1>3. Scan(b, n) = Outside(1, n)
  BY ScanBefore
<1>. HIDE DEF b, v, z
<1>4. Scan(q, n).value = Len(q) + 1 /\ Key(n) \in Seq(Bytes)
  BY <1>1, <1>2, <1>3, ScanKey
<1>5. q \in Seq(Bytes)
  BY <1>2, <1>4
<1>. HIDE DEF q
<1>6. v \o z \in Seq(Bytes) /\ (q \o v) \o z = q \o (v \o z) /\ Len(q) + 1 # 0 /\ Len(q) \in Nat
  <2>1. v \in Seq(Bytes) /\ z \in Seq(Bytes)
    BY <1>2
  <2>2. v \o z \in Seq(Bytes) /\ (q \o v) \o z = q \o (v \o z)
    BY <1>5, <2>1
  <2>3. Len(q) \in Nat /\ Len(q) + 1 # 0
    BY <1>5
  <2>. QED
    BY <2>2, <2>3
<1>. DEFINE w == v \o z
<1>. HIDE DEF w
<1>7. Scan(q \o w, n) = Scan(q, n)
  BY <1>4, <1>5, <1>6, ScanFound DEF w
<1>. QED
  BY <1>2, <1>4, <1>6, <1>7, ValueStartIsScan DEF w, q, b

-----------------------------------------------------------------------------
(* One column is patched.                                                   *)

LEMMA CellsElsewhere ==
  ASSUME NEW r \in DOMAIN Rows, NEW P, NEW n \in DOMAIN Keys
  PROVE  /\ \A k \in DOMAIN Keys : k # n => Cells(r, P \cup {n})[k] = Cells(r, P)[k]
         /\ Rows[r][n].token = <<>> => Cells(r, P \cup {n}) = Cells(r, P)
<1>1. \A k \in DOMAIN Keys : k # n => Value(r, k, P \cup {n}) = Value(r, k, P)
  BY DEF Value
<1>2. Rows[r][n].token = <<>> => \A k \in DOMAIN Keys : Value(r, k, P \cup {n}) = Value(r, k, P)
  BY DEF Value
<1>. QED
  BY <1>1, <1>2 DEF Cells

\* The cells around the n-th are the same.
LEMMA AroundCell ==
  ASSUME NEW r \in DOMAIN Rows, NEW P, NEW n \in DOMAIN Keys
  PROVE  Before(r, P \cup {n}, n) = Before(r, P, n) /\ After(r, P \cup {n}, n) = After(r, P, n)
<1>. DEFINE Q == P \cup {n}
            c == Cells(r, P)
            d == Cells(r, Q)
            m == Len(Keys)
<1>1. m \in Nat /\ DOMAIN Keys = 1..m
  BY KeyFacts
<1>2. \A k \in 1..m : k # n => d[k] = c[k]
  BY <1>1, CellsElsewhere
<1>. HIDE DEF Q
<1>3. c \in Seq(Seq(Bytes)) /\ Len(c) = m /\ d \in Seq(Seq(Bytes)) /\ Len(d) = m
  BY CellsFacts
<1>4. n \in 1..m
  BY <1>1
<1>. HIDE DEF c, d, m
<1>5. SubSeq(d, 1, n - 1) = SubSeq(c, 1, n - 1)
  BY <1>1, <1>2, <1>3, <1>4
<1>6. SubSeq(d, n + 1, m) = SubSeq(c, n + 1, m)
  <2>. DEFINE x == SubSeq(d, n + 1, m)
              y == SubSeq(c, n + 1, m)
  <2>1. x \in Seq(Seq(Bytes)) /\ y \in Seq(Seq(Bytes)) /\ Len(x) = m - n /\ Len(y) = m - n
    BY <1>1, <1>3, <1>4
  <2>2. \A k \in 1..(m - n) : x[k] = d[n + k] /\ y[k] = c[n + k]
    <3>1. n \in Nat /\ n > 0 /\ n <= Len(d) /\ n <= Len(c)
      BY <1>1, <1>3, <1>4
    <3>2. \A k \in 1..(Len(d) - n) : SubSeq(d, n + 1, Len(d))[k] = d[n + k]
      BY <1>3, <3>1, TailElement
    <3>3. \A k \in 1..(Len(c) - n) : SubSeq(c, n + 1, Len(c))[k] = c[n + k]
      BY <1>3, <3>1, TailElement
    <3>. QED
      BY <1>3, <3>2, <3>3
  <2>3. \A k \in 1..(m - n) : d[n + k] = c[n + k]
    BY <1>1, <1>2, <1>4
  <2>. HIDE DEF x, y
  <2>4. \A k \in 1..Len(x) : x[k] = y[k]
    BY <2>1, <2>2, <2>3
  <2>5. x = y
    BY <2>1, <2>4, SeqEqual
  <2>. QED
    BY <2>5 DEF x, y
<1>. QED
  BY <1>5, <1>6 DEF Before, After, c, d, m, Q

\* One column of a line is patched, whatever was patched before.
LEMMA PatchOne ==
  ASSUME NEW r \in DOMAIN Rows, NEW P, NEW n \in DOMAIN Keys, n \notin P
  PROVE  PatchedCell(Line(Cells(r, P)), r, n) = Line(Cells(r, P \cup {n}))
<1>. DEFINE token == Rows[r][n].token
            Q == P \cup {n}
<1>1. CASE token = <<>>
  BY <1>1, CellsElsewhere DEF PatchedCell
<1>2. CASE token # <<>>
  <2>. DEFINE q == Before(r, P, n) \o Key(n)
              z == After(r, P, n)
              line == Line(Cells(r, P))
              t == Text(token)
              at == ValueStart(line, n)
  <2>1. Value(r, n, P) = <<"null">>
    <3>1. Value(r, n, P) = Json(<<Mark("null")>>)
      BY <1>2, RowFacts DEF Value
    <3>2. Json(<<Mark("null")>>) = <<"null">>
      <4>1. Mark("null") \in Parts /\ <<>> \in Seq(Parts) /\ Append(<<>>, Mark("null")) = <<Mark("null")>>
        BY DEF Parts, Bytes
      <4>2. Json(Append(<<>>, Mark("null"))) = Json(<<>>) \o Encoded(Mark("null"))
        BY <4>1, JsonFacts
      <4>3. Encoded(Mark("null")) = <<"null">>
        BY DEF Encoded, Mark
      <4>4. <<>> \o <<"null">> = <<"null">>
        OBVIOUS
      <4>. QED
        BY <4>1, <4>2, <4>3, <4>4, JsonFacts
    <3>. QED
      BY <3>1, <3>2
  <2>2. Value(r, n, Q) = t
    BY <1>2 DEF Value
  <2>3. Before(r, Q, n) = Before(r, P, n) /\ After(r, Q, n) = z
    BY AroundCell
  <2>4. at = Len(q) + 1
    BY NullFound
  <2>5. line = (q \o <<"null">>) \o z
    BY <2>1, LineParts
  <2>6. Line(Cells(r, Q)) = (q \o t) \o z
    <3>. HIDE DEF Q, t
    <3>. QED
      BY <2>2, <2>3, LineParts
  <2>7. q \in Seq(Bytes) /\ z \in Seq(Bytes)
    BY LineParts, KeyType
  <2>8. PatchedCell(line, r, n) = IF at = 0 THEN line ELSE SubSeq(line, 1, at - 1) \o t \o SubSeq(line, at + 1, Len(line))
    BY <1>2 DEF PatchedCell, ReplaceNthTopLevelNull
  <2>9. "null" \in Bytes
    BY DEF Bytes
  <2>. HIDE DEF q, z, line, t, at, Q
  <2>10. at # 0 /\ at - 1 = Len(q) /\ at + 1 = Len(q) + 2
    BY <2>4, <2>7
  <2>11. SubSeq(line, 1, Len(q)) = q
    BY <2>5, <2>7, <2>9
  <2>12. SubSeq(line, Len(q) + 2, Len(line)) = z
    BY <2>5, <2>7, <2>9
  <2>13. PatchedCell(line, r, n) = q \o t \o z
    BY <2>8, <2>10, <2>11, <2>12
  <2>. QED
    BY <2>6, <2>13 DEF line, Q
<1>. QED
  BY <1>1, <1>2

-----------------------------------------------------------------------------
(* patch_non_finite_floats.                                                 *)

\* The first columns that are patched.
Patched(k) == {Floats[i] : i \in 1..k}

LEMMA FloatFacts ==
  /\ Len(Floats) \in Nat /\ DOMAIN Floats = 1..Len(Floats)
  /\ \A k \in 1..Len(Floats) : Floats[k] \in DOMAIN Keys
  /\ Patched(0) = {}
  /\ \A k \in 1..Len(Floats) : Patched(k - 1) \cup {Floats[k]} = Patched(k) /\ Floats[k] \notin Patched(k - 1)
<1>1. /\ Len(Floats) \in Nat /\ DOMAIN Floats = 1..Len(Floats)
      /\ \A k \in 1..Len(Floats) : Floats[k] \in DOMAIN Keys
  BY EncodeAssumption, ElementOfSeq
<1>2. Patched(0) = {}
  <2>1. \A i \in 1..0 : FALSE
    OBVIOUS
  <2>. QED
    BY <2>1 DEF Patched
<1>3. ASSUME NEW k \in 1..Len(Floats)
      PROVE  Patched(k - 1) \cup {Floats[k]} = Patched(k)
  <2>1. 1..k = 1..(k - 1) \cup {k}
    BY <1>1
  <2>. QED
    BY <2>1 DEF Patched
<1>4. ASSUME NEW k \in 1..Len(Floats), Floats[k] \in Patched(k - 1)
      PROVE  FALSE
  <2>1. PICK i \in 1..(k - 1) : Floats[i] = Floats[k]
    BY <1>4 DEF Patched
  <2>2. i \in DOMAIN Floats /\ k \in DOMAIN Floats /\ i < k
    BY <1>1
  <2>3. Floats[i] < Floats[k]
    BY <2>2, EncodeAssumption
  <2>4. Floats[k] \in Int
    BY <1>1, KeyFacts
  <2>. QED
    BY <2>1, <2>3, <2>4
<1>. QED
  BY <1>1, <1>2, <1>3, <1>4

LEMMA PatchAll ==
  ASSUME NEW r \in DOMAIN Rows
  PROVE  PatchedLine(Line(Cells(r, {})), r) = Line(Cells(r, Patched(Len(Floats))))
<1>. DEFINE m == Len(Floats)
            line == Line(Cells(r, {}))
            h == [k \in 0..m |-> Line(Cells(r, Patched(k)))]
            Fits(f) == f = [n \in 0..m |-> IF n = 0 THEN line ELSE PatchedCell(f[n - 1], r, Floats[n])]
<1>1. m \in Nat /\ Patched(0) = {} /\ \A k \in 1..m : Floats[k] \in DOMAIN Keys
  BY FloatFacts
<1>2. \A k \in 1..m : Patched(k - 1) \cup {Floats[k]} = Patched(k) /\ Floats[k] \notin Patched(k - 1)
  BY FloatFacts
<1>3. h[0] = line /\ h[m] = Line(Cells(r, Patched(m)))
  <2>1. 0 \in 0..m /\ m \in 0..m
    BY <1>1
  <2>. QED
    BY <1>1, <2>1
<1>4. ASSUME NEW k \in 1..m PROVE h[k] = PatchedCell(h[k - 1], r, Floats[k])
  <2>1. k \in 0..m /\ k - 1 \in 0..m
    BY <1>1
  <2>2. PatchedCell(Line(Cells(r, Patched(k - 1))), r, Floats[k]) = Line(Cells(r, Patched(k - 1) \cup {Floats[k]}))
    BY <1>1, <1>2, PatchOne
  <2>. QED
    BY <1>2, <2>1, <2>2
<1>. HIDE DEF line
<1>5. Fits(h)
  <2>1. \A k \in 0..m : h[k] = IF k = 0 THEN line ELSE PatchedCell(h[k - 1], r, Floats[k])
    <3>. HIDE DEF h
    <3>1. \A k \in 0..m : k = 0 \/ k \in 1..m
      BY <1>1
    <3>2. \A k \in 1..m : k # 0
      OBVIOUS
    <3>. QED
      BY <1>3, <1>4, <3>1, <3>2
  <2>2. h = [k \in 0..m |-> h[k]]
    OBVIOUS
  <2>. HIDE DEF h
  <2>. QED
    BY <2>1, <2>2
<1>. HIDE DEF h
<1>6. PICK g : g = (CHOOSE f : Fits(f)) /\ Fits(g)
  BY <1>5
<1>7. PatchedLine(line, r) = g[m]
  BY <1>6 DEF PatchedLine
<1>8. \A k \in 0..m : g[k] = IF k = 0 THEN line ELSE PatchedCell(g[k - 1], r, Floats[k])
  BY <1>6
<1>. HIDE DEF Fits
<1>9. SameSteps(g, h, m)
  <2>1. g[0] = h[0]
    BY <1>1, <1>3, <1>8
  <2>2. ASSUME NEW k \in 1..m, g[k - 1] = h[k - 1] PROVE g[k] = h[k]
    <3>1. k \in 0..m /\ k # 0
      BY <1>1
    <3>. QED
      BY <1>4, <1>8, <2>2, <3>1
  <2>. QED
    BY <2>1, <2>2 DEF SameSteps
<1>10. g[m] = h[m]
  BY <1>1, <1>9, FoldIsUnique DEF SameUpTo
<1>. QED
  BY <1>3, <1>7, <1>10 DEF line

\* What a line is, before and after it was patched.
LEMMA LineFacts ==
  ASSUME NEW r \in DOMAIN Rows
  PROVE  /\ LineOf(r, FALSE) = Line(Cells(r, {}))
         /\ LineOf(r, TRUE) = PatchedLine(LineOf(r, FALSE), r)
         /\ WrittenRow(r) = LineOf(r, FALSE) \o <<"newline">>
         /\ LineOf(r, FALSE) \in Seq(Bytes)
<1>1. LineOf(r, FALSE) = Line(Cells(r, {}))
  BY DEF LineOf, Cells, Value
<1>2. LineOf(r, TRUE) = Line(Cells(r, Patched(Len(Floats))))
  <2>. DEFINE P == Patched(Len(Floats))
  <2>1. ASSUME NEW k \in DOMAIN Keys
        PROVE  (IF Rows[r][k].token # <<>> THEN Text(Rows[r][k].token) ELSE Json(Rows[r][k].json)) = Value(r, k, P)
    <3>1. Rows[r][k].token # <<>> => k \in P
      BY RowFacts, FloatFacts DEF Patched
    <3>. QED
      BY <3>1 DEF Value
  <2>. HIDE DEF P
  <2>2. Cells(r, P) = [k \in DOMAIN Keys |-> Cell(k, IF Rows[r][k].token # <<>> THEN Text(Rows[r][k].token) ELSE Json(Rows[r][k].json))]
    BY <2>1 DEF Cells
  <2>. QED
    BY <2>2 DEF LineOf, P
<1>3. WrittenRow(r) = Line(Cells(r, {})) \o <<"newline">>
  BY DEF WrittenRow, Cells, Value
<1>4. Line(Cells(r, {})) \in Seq(Bytes)
  BY CellsFacts
<1>. QED
  BY <1>1, <1>2, <1>3, <1>4, PatchAll

-----------------------------------------------------------------------------
(* The rows of a page.                                                      *)

Numbers(before, m) == [n \in 1..m |-> before + n]

\* The converse of RunAppend.
LEMMA RunPrefix ==
  ASSUME NEW s \in Seq(Runs), NEW b \in Runs, NEW n \in Nat, RunFrom(Append(s, b), n)
  PROVE  RunFrom(s, n) /\ b.first = n + RowsOf(s) + 1
<1>. DEFINE t == Append(s, b)
            m == Len(s)
<1>1. b.rows \in Nat /\ m \in Nat /\ DOMAIN s = 1..m
  BY DEF Runs
<1>2. t \in Seq(Runs) /\ DOMAIN t = 1..(m + 1) /\ t[m + 1] = b /\ \A k \in 1..m : t[k] = s[k]
  OBVIOUS
<1>3. Sizes(t) = Append(Sizes(s), b.rows)
  BY <1>1, <1>2 DEF Sizes
<1>4. Sizes(s) \in Seq(Nat) /\ Len(Sizes(s)) = m
  BY SizesFacts
<1>5. \A k \in 0..m : RowsUpTo(Sizes(t))[k] = RowsUpTo(Sizes(s))[k]
  BY <1>1, <1>3, <1>4, CountAppend
<1>6. \A k \in 1..(m + 1) : t[k].first = n + RowsUpTo(Sizes(t))[k - 1] + 1
  BY <1>2 DEF RunFrom
<1>. HIDE DEF t
<1>7. ASSUME NEW k \in 1..m PROVE s[k].first = n + RowsUpTo(Sizes(s))[k - 1] + 1
  <2>1. k \in 1..(m + 1) /\ k - 1 \in 0..m
    BY <1>1
  <2>. QED
    BY <1>2, <1>5, <1>6, <2>1
<1>8. b.first = n + RowsOf(s) + 1
  <2>1. m + 1 \in 1..(m + 1) /\ (m + 1) - 1 = m /\ m \in 0..m
    BY <1>1
  <2>2. t[m + 1].first = n + RowsUpTo(Sizes(t))[(m + 1) - 1] + 1
    BY <1>6, <2>1
  <2>. QED
    BY <1>2, <1>4, <1>5, <2>1, <2>2 DEF RowsOf, RowCount
<1>. QED
  BY <1>1, <1>7, <1>8 DEF RunFrom

LEMMA RunOfType == \A b \in Runs : RunOf(b) \in Seq(Nat) /\ Len(RunOf(b)) = b.rows
<1>. SUFFICES ASSUME NEW b \in Runs PROVE RunOf(b) \in Seq(Nat) /\ Len(RunOf(b)) = b.rows
  OBVIOUS
<1>1. b.first \in Nat /\ b.rows \in Nat
  BY DEF Runs
<1>2. RunOf(b) \in [1..b.rows -> Nat]
  BY <1>1 DEF RunOf
<1>. QED
  BY <1>1, <1>2

LEMMA PageRunsAppend ==
  ASSUME NEW s \in Seq(Runs), NEW b \in Runs
  PROVE  RowsOfPage(s) \in Seq(Nat) /\ RowsOfPage(Append(s, b)) = RowsOfPage(s) \o RunOf(b)
<1>. DEFINE t == Append(s, b)
            m == Len(s)
            Of(x) == [n \in DOMAIN x |-> RunOf(x[n])]
            e == RunOf(b)
<1>1. m \in Nat /\ DOMAIN s = 1..m /\ \A k \in 1..m : s[k] \in Runs
  BY ElementOfSeq
<1>2. DOMAIN t = 1..(m + 1) /\ t[m + 1] = b /\ \A k \in 1..m : t[k] = s[k]
  OBVIOUS
<1>3. e \in Seq(Nat)
  BY RunOfType
<1>. HIDE DEF t, e
<1>4. Of(s) \in Seq(Seq(Nat)) /\ Len(Of(s)) = m
  <2>1. \A k \in 1..m : RunOf(s[k]) \in Seq(Nat)
    BY <1>1, RunOfType
  <2>2. Of(s) \in [1..m -> Seq(Nat)]
    BY <1>1, <2>1
  <2>. HIDE DEF Of
  <2>. QED
    BY <1>1, <2>2
<1>5. Of(t) = Append(Of(s), e)
  <2>1. \A k \in 1..m : k \in 1..(m + 1)
    BY <1>1
  <2>2. Of(t)[m + 1] = e /\ \A k \in 1..m : Of(t)[k] = Of(s)[k]
    BY <1>1, <1>2, <2>1 DEF e
  <2>3. Of(t) \in Seq(Seq(Nat)) /\ Len(Of(t)) = m + 1
    <3>1. t \in Seq(Runs)
      BY DEF t
    <3>2. \A k \in 1..(m + 1) : RunOf(t[k]) \in Seq(Nat)
      BY <1>2, <3>1, ElementOfSeq, RunOfType
    <3>3. Of(t) \in [1..(m + 1) -> Seq(Nat)]
      BY <1>2, <3>2
    <3>. HIDE DEF Of
    <3>. QED
      BY <1>1, <3>3
  <2>. HIDE DEF Of
  <2>. QED
    BY <1>3, <1>4, <2>2, <2>3, AppendElements
<1>. HIDE DEF Of
<1>6. FlattenSeq(Append(Of(s), e)) = FlattenSeq(Of(s)) \o e /\ FlattenSeq(Of(s)) \in Seq(Nat)
  BY <1>3, <1>4, FlattenFacts
<1>7. RowsOfPage(s) = FlattenSeq(Of(s)) /\ RowsOfPage(t) = FlattenSeq(Of(t))
  BY DEF RowsOfPage, Of
<1>. QED
  BY <1>5, <1>6, <1>7 DEF t, e

LEMMA RowsOfNoPage == RowsOfPage(<<>>) = <<>>
<1>1. [n \in DOMAIN <<>> |-> RunOf((<<>>)[n])] = <<>>
  OBVIOUS
<1>2. FlattenSeq(<<>>) = <<>>
  BY DEF FlattenSeq
<1>. QED
  BY <1>1, <1>2 DEF RowsOfPage

\* A page's batches, put together, are a run of rows.
LEMMA PageIsRun ==
  ASSUME NEW before \in Nat
  PROVE  \A s \in Seq(Runs) : RunFrom(s, before) => RowsOfPage(s) = Numbers(before, RowsOf(s))
<1>. DEFINE T == {s \in Seq(Runs) : RunFrom(s, before) => RowsOfPage(s) = Numbers(before, RowsOf(s))}
<1>1. <<>> \in T
  <2>1. RowsOfPage(<<>>) = <<>> /\ RowsOf(<<>>) = 0 /\ <<>> \in Seq(Runs)
    BY RowsOfNoPage, SizesOfNone
  <2>2. Numbers(before, 0) = <<>>
    BY DEF Numbers
  <2>. QED
    BY <2>1, <2>2
<1>2. ASSUME NEW s \in Seq(Runs), NEW b \in Runs, s \in T PROVE Append(s, b) \in T
  <2>. DEFINE t == Append(s, b)
              m == RowsOf(s)
              x == RowsOfPage(s)
              e == RunOf(b)
  <2>1. t \in Seq(Runs) /\ RowsOf(t) = m + b.rows /\ m \in Nat /\ b.rows \in Nat /\ b.first \in Nat
    BY RunAppend, SizesFacts DEF Runs
  <2>. SUFFICES ASSUME RunFrom(t, before) PROVE RowsOfPage(t) = Numbers(before, m + b.rows)
    BY <2>1
  <2>2. RunFrom(s, before) /\ b.first = before + m + 1
    BY RunPrefix
  <2>3. x = Numbers(before, m)
    BY <1>2, <2>2
  <2>4. RowsOfPage(t) = x \o e
    BY PageRunsAppend
  <2>5. x \o e = Numbers(before, m + b.rows)
    <3>1. x \in Seq(Nat) /\ Len(x) = m /\ \A k \in 1..m : x[k] = before + k
      <4>1. x \in [1..m -> Nat] /\ \A k \in 1..m : x[k] = before + k
        BY <2>1, <2>3 DEF Numbers
      <4>. HIDE DEF x
      <4>. QED
        BY <2>1, <4>1
    <3>2. e \in Seq(Nat) /\ Len(e) = b.rows /\ \A k \in 1..b.rows : e[k] = before + (m + k)
      <4>1. \A k \in 1..b.rows : b.first + k - 1 = before + (m + k)
        BY <2>1, <2>2
      <4>2. \A k \in 1..b.rows : e[k] = b.first + k - 1
        BY DEF RunOf
      <4>. HIDE DEF e
      <4>3. e \in Seq(Nat) /\ Len(e) = b.rows
        BY RunOfType DEF e
      <4>. QED
        BY <4>1, <4>2, <4>3
    <3>. DEFINE y == Numbers(before, m + b.rows)
    <3>. HIDE DEF x, e
    <3>3. y \in [1..(m + b.rows) -> Nat] /\ \A k \in 1..(m + b.rows) : y[k] = before + k
      BY <2>1 DEF Numbers
    <3>4. m + b.rows \in Nat
      BY <2>1
    <3>. HIDE DEF y
    <3>5. y \in Seq(Nat) /\ Len(y) = m + b.rows
      BY <3>3, <3>4
    <3>6. \A k \in 1..m : y[k] = x[k]
      BY <2>1, <3>1, <3>3
    <3>7. ASSUME NEW k \in 1..b.rows PROVE y[m + k] = e[k]
      <4>1. m + k \in 1..(m + b.rows)
        BY <2>1
      <4>2. y[m + k] = before + (m + k)
        BY <3>3, <4>1
      <4>. QED
        BY <3>2, <4>2
    <3>8. y = Joined(x, e)
      <4>1. /\ x \in Seq(Nat) /\ e \in Seq(Nat) /\ y \in Seq(Nat) /\ Len(y) = Len(x) + Len(e)
            /\ \A k \in 1..Len(x) : y[k] = x[k]
            /\ \A k \in 1..Len(e) : y[Len(x) + k] = e[k]
        BY <3>1, <3>2, <3>5, <3>6, <3>7
      <4>. QED
        BY <4>1, ConcatElements
    <3>. QED
      BY <3>8 DEF y, Joined
  <2>. QED
    BY <2>4, <2>5
<1>3. Seq(Runs) \subseteq T
  <2>. HIDE DEF T
  <2>. QED
    BY <1>1, <1>2, SeqInduction
<1>. QED
  BY <1>3

-----------------------------------------------------------------------------
(* encode_ndjson_lines.                                                     *)

Fresh == [lines |-> <<>>, pending |-> <<>>]
WrittenRows(before, m) == [n \in 1..m |-> WrittenRow(before + n)]
Lines(before, m, a) == [n \in 1..m |-> LineOf(before + n, a)]

LEMMA FreshType == Fresh \in Collector
<1>1. <<>> \in Seq(Seq(Chars)) /\ <<>> \in Seq(Chars)
  OBVIOUS
<1>. QED
  BY <1>1 DEF Fresh, Collector

LEMMA RowTypes ==
  ASSUME NEW r \in DOMAIN Rows
  PROVE  LineOf(r, FALSE) \in Seq(Bytes) /\ LineOf(r, FALSE) \in Seq(Chars) /\ WrittenRow(r) \in Seq(Chars)
<1>. DEFINE l == LineOf(r, FALSE)
<1>1. l \in Seq(Bytes) /\ WrittenRow(r) = l \o <<"newline">>
  BY LineFacts
<1>2. "newline" \in Chars /\ Bytes \subseteq Chars
  BY DEF Chars
<1>. HIDE DEF l
<1>3. l \in Seq(Chars)
  BY <1>1, <1>2
<1>4. l \o <<"newline">> \in Seq(Chars)
  BY <1>2, <1>3
<1>. QED
  BY <1>1, <1>3, <1>4 DEF l

\* Rows that are written in one piece are as many lines, and no rest.
LEMMA RowsAreLines ==
  ASSUME NEW before \in Nat
  PROVE  \A m \in Nat : before + m <= Len(Rows) =>
           /\ WrittenRows(before, m) \in Seq(Seq(Chars))
           /\ Lines(before, m, FALSE) \in Seq(Seq(Chars))
           /\ FlattenSeq(WrittenRows(before, m)) \in Seq(Chars)
           /\ Write(Fresh, FlattenSeq(WrittenRows(before, m))) = [lines |-> Lines(before, m, FALSE), pending |-> <<>>]
<1>. DEFINE W(m) == WrittenRows(before, m)
            L(m) == Lines(before, m, FALSE)
            Good(m) == /\ W(m) \in Seq(Seq(Chars)) /\ Len(W(m)) = m
                       /\ L(m) \in Seq(Seq(Chars)) /\ Len(L(m)) = m
                       /\ FlattenSeq(W(m)) \in Seq(Chars)
                       /\ Write(Fresh, FlattenSeq(W(m))) = [lines |-> L(m), pending |-> <<>>]
            S == {m \in Nat : before + m <= Len(Rows) => Good(m)}
<1>0. Len(Rows) \in Nat /\ DOMAIN Rows = 1..Len(Rows)
  BY EncodeAssumption
<1>1. 0 \in S
  <2>1. W(0) = <<>> /\ L(0) = <<>>
    BY DEF WrittenRows, Lines
  <2>2. FlattenSeq(<<>>) = <<>>
    BY DEF FlattenSeq
  <2>3. <<>> \in Seq(Seq(Chars)) /\ <<>> \in Seq(Chars) /\ Len(<<>>) = 0
    OBVIOUS
  <2>4. Write(Fresh, <<>>) = Fresh
    BY <2>3, FreshType, WriteFacts
  <2>. HIDE DEF W, L
  <2>. QED
    BY <2>1, <2>2, <2>3, <2>4 DEF Fresh
<1>2. ASSUME NEW m \in Nat, m \in S PROVE m + 1 \in S
  <2>. HIDE DEF Good
  <2>. SUFFICES ASSUME before + (m + 1) <= Len(Rows) PROVE Good(m + 1)
    OBVIOUS
  <2>0. Good(m)
    BY <1>0, <1>2
  <2>. USE DEF Good
  <2>. DEFINE r == before + (m + 1)
              x == WrittenRow(r)
              l == LineOf(r, FALSE)
  <2>1. Good(m)
    BY <2>0
  <2>2. r \in DOMAIN Rows
    BY <1>0
  <2>. HIDE DEF r
  <2>3. x \in Seq(Chars) /\ l \in Seq(Chars) /\ l \in Seq(Bytes) /\ x = l \o <<"newline">>
    BY <2>2, RowTypes, LineFacts
  <2>4. \A k \in 1..m : W(m + 1)[k] = W(m)[k] /\ L(m + 1)[k] = L(m)[k]
    <3>1. \A k \in 1..m : k \in 1..(m + 1)
      OBVIOUS
    <3>. QED
      BY <3>1 DEF WrittenRows, Lines
  <2>5. W(m + 1)[m + 1] = x /\ L(m + 1)[m + 1] = l
    <3>1. m + 1 \in 1..(m + 1)
      OBVIOUS
    <3>. QED
      BY <3>1 DEF WrittenRows, Lines, r
  <2>6. \A k \in 1..(m + 1) : WrittenRow(before + k) \in Seq(Chars) /\ LineOf(before + k, FALSE) \in Seq(Chars)
    <3>1. \A k \in 1..(m + 1) : before + k \in DOMAIN Rows
      BY <1>0
    <3>. QED
      BY <3>1, RowTypes
  <2>7. W(m + 1) \in [1..(m + 1) -> Seq(Chars)] /\ L(m + 1) \in [1..(m + 1) -> Seq(Chars)]
    BY <2>6 DEF WrittenRows, Lines
  <2>. HIDE DEF x, l, W, L
  <2>8. /\ W(m + 1) \in Seq(Seq(Chars)) /\ Len(W(m + 1)) = m + 1
        /\ L(m + 1) \in Seq(Seq(Chars)) /\ Len(L(m + 1)) = m + 1
    BY <2>7
  <2>9. W(m + 1) = Append(W(m), x)
    <3>1. /\ W(m) \in Seq(Seq(Chars)) /\ W(m + 1) \in Seq(Seq(Chars)) /\ Len(W(m + 1)) = Len(W(m)) + 1
          /\ W(m + 1)[Len(W(m)) + 1] = x /\ \A k \in 1..Len(W(m)) : W(m + 1)[k] = W(m)[k]
      BY <2>1, <2>4, <2>5, <2>8
    <3>2. x \in Seq(Chars)
      BY <2>3
    <3>. QED
      BY <3>1, <3>2, AppendElements
  <2>10. L(m + 1) = Append(L(m), l)
    <3>1. /\ L(m) \in Seq(Seq(Chars)) /\ L(m + 1) \in Seq(Seq(Chars)) /\ Len(L(m + 1)) = Len(L(m)) + 1
          /\ L(m + 1)[Len(L(m)) + 1] = l /\ \A k \in 1..Len(L(m)) : L(m + 1)[k] = L(m)[k]
      BY <2>1, <2>4, <2>5, <2>8
    <3>2. l \in Seq(Chars)
      BY <2>3
    <3>. QED
      BY <3>1, <3>2, AppendElements
  <2>. DEFINE f == FlattenSeq(W(m))
  <2>11. FlattenSeq(Append(W(m), x)) = f \o x
    BY <2>1, <2>3, FlattenFacts
  <2>12. f \in Seq(Chars) /\ Write(Fresh, f) = [lines |-> L(m), pending |-> <<>>]
    BY <2>1
  <2>. HIDE DEF f
  <2>13. f \o x \in Seq(Chars)
    BY <2>3, <2>12
  <2>14. Write(Fresh, f \o x) = Write(Write(Fresh, f), x)
    BY <2>3, <2>12, FreshType, WriteConcat
  <2>15. Write([lines |-> L(m), pending |-> <<>>], l \o <<"newline">>) = [lines |-> Append(L(m), l), pending |-> <<>>]
    BY <2>1, <2>3, WriteLine
  <2>16. Write(Fresh, f \o x) = [lines |-> L(m + 1), pending |-> <<>>]
    BY <2>3, <2>10, <2>12, <2>14, <2>15
  <2>. QED
    BY <2>8, <2>9, <2>11, <2>13, <2>16
<1>3. Nat \subseteq S
  <2>. HIDE DEF S
  <2>. QED
    BY <1>1, <1>2, SetInduction
<1>. QED
  BY <1>3

\* Wherever arrow-json ends its first write, the lines are those of the rows.
LEMMA PageIsCollected ==
  ASSUME NEW batches \in Seq(Runs), NEW before \in Nat, RunFrom(batches, before),
         before + RowsOf(batches) <= Len(Rows), NEW n \in Nat
  PROVE  Collected(batches, n).lines = Lines(before, RowsOf(batches), FALSE)
<1>. DEFINE m == RowsOf(batches)
            bytes == FlattenSeq(WrittenRows(before, m))
            end == IF n < Len(bytes) THEN n ELSE Len(bytes)
            p == SubSeq(bytes, 1, end)
            q == SubSeq(bytes, end + 1, Len(bytes))
<1>1. m \in Nat
  BY SizesFacts
<1>2. RowsOfPage(batches) = Numbers(before, m)
  BY PageIsRun
<1>. HIDE DEF m
<1>3. Written(batches) = bytes
  <2>1. [k \in DOMAIN Numbers(before, m) |-> WrittenRow(Numbers(before, m)[k])] = WrittenRows(before, m)
    BY <1>1 DEF Numbers, WrittenRows
  <2>. QED
    BY <1>2, <2>1 DEF Written
<1>4. bytes \in Seq(Chars) /\ Write(Fresh, bytes) = [lines |-> Lines(before, m, FALSE), pending |-> <<>>]
  BY <1>1, RowsAreLines DEF m
<1>5. Collected(batches, n) = Write(Write(Fresh, p), q)
  BY <1>3 DEF Collected, Fresh
<1>. HIDE DEF bytes
<1>6. end \in Nat /\ end <= Len(bytes) /\ Len(bytes) \in Nat
  BY <1>4
<1>. HIDE DEF end
<1>7. p \in Seq(Chars) /\ q \in Seq(Chars) /\ p \o q = bytes
  <2>1. bytes \in Seq(Chars) /\ end \in 0..Len(bytes)
    BY <1>4, <1>6
  <2>2. p \in Seq(Chars) /\ q \in Seq(Chars) /\ Joined(p, q) = bytes
    BY <2>1, SplitAt
  <2>. QED
    BY <2>2 DEF Joined
<1>. HIDE DEF p, q
<1>8. Write(Fresh, p \o q) = Write(Write(Fresh, p), q)
  BY <1>7, FreshType, WriteConcat
<1>9. Write(Fresh, p \o q) = Write(Fresh, bytes)
  BY <1>7
<1>10. Collected(batches, n) = [lines |-> Lines(before, m, FALSE), pending |-> <<>>]
  BY <1>4, <1>5, <1>8, <1>9
<1>. QED
  BY <1>10 DEF m

LEMMA PageIsEncoded ==
  ASSUME NEW batches \in Seq(Runs), NEW before \in Nat, RunFrom(batches, before),
         before + RowsOf(batches) <= Len(Rows), NEW n \in Nat, NEW a \in BOOLEAN
  PROVE  EncodeNdjsonLines(batches, n, a) = Lines(before, RowsOf(batches), a)
<1>. DEFINE m == RowsOf(batches)
            l == Lines(before, m, FALSE)
<1>1. m \in Nat
  BY SizesFacts
<1>2. RowsOfPage(batches) = Numbers(before, m)
  BY PageIsRun
<1>3. Collected(batches, n).lines = l
  BY PageIsCollected
<1>. HIDE DEF m
<1>4. PatchNonFiniteFloats(batches, l) = Lines(before, m, TRUE)
  <2>1. DOMAIN l = 1..m /\ \A k \in 1..m : l[k] = LineOf(before + k, FALSE)
    BY DEF Lines
  <2>2. ASSUME NEW k \in 1..m PROVE PatchedLine(l[k], RowsOfPage(batches)[k]) = LineOf(before + k, TRUE)
    <3>1. before + k \in DOMAIN Rows
      <4>1. Len(Rows) \in Nat /\ DOMAIN Rows = 1..Len(Rows)
        BY EncodeAssumption
      <4>. QED
        BY <1>1, <4>1 DEF m
    <3>2. RowsOfPage(batches)[k] = before + k
      BY <1>2 DEF Numbers
    <3>3. LineOf(before + k, TRUE) = PatchedLine(LineOf(before + k, FALSE), before + k)
      BY <3>1, LineFacts
    <3>. HIDE DEF l
    <3>. QED
      BY <2>1, <3>2, <3>3
  <2>. HIDE DEF l
  <2>. QED
    BY <2>1, <2>2 DEF PatchNonFiniteFloats, Lines
<1>. QED
  BY <1>3, <1>4 DEF EncodeNdjsonLines, m

-----------------------------------------------------------------------------
(* One page after the other.                                                *)

EveryLine(a) == {LineOf(r, a) : r \in Nat}

LEMMA LinesType ==
  ASSUME NEW before \in Nat, NEW m \in Nat, NEW a
  PROVE  /\ Lines(before, m, a) \in Seq(EveryLine(a)) /\ Len(Lines(before, m, a)) = m
         /\ \A k \in 1..m : Lines(before, m, a)[k] = LineOf(before + k, a)
<1>. DEFINE l == Lines(before, m, a)
<1>1. \A k \in 1..m : LineOf(before + k, a) \in EveryLine(a)
  BY DEF EveryLine
<1>2. l \in [1..m -> EveryLine(a)] /\ \A k \in 1..m : l[k] = LineOf(before + k, a)
  BY <1>1 DEF Lines
<1>. HIDE DEF l
<1>3. l \in Seq(EveryLine(a)) /\ Len(l) = m
  BY <1>2
<1>. QED
  BY <1>2, <1>3 DEF l

\* The lines of one run of rows and of the next.
LEMMA LinesJoin ==
  ASSUME NEW m \in Nat, NEW x \in Nat, NEW a
  PROVE  Lines(0, m + x, a) = Joined(Lines(0, m, a), Lines(m, x, a))
<1>. DEFINE S == EveryLine(a)
            u == Lines(0, m + x, a)
            s == Lines(0, m, a)
            t == Lines(m, x, a)
<1>1. s \in Seq(S) /\ Len(s) = m /\ \A k \in 1..m : s[k] = LineOf(0 + k, a)
  BY LinesType
<1>2. t \in Seq(S) /\ Len(t) = x /\ \A k \in 1..x : t[k] = LineOf(m + k, a)
  BY LinesType
<1>3. m + x \in Nat
  OBVIOUS
<1>4. u \in Seq(S) /\ Len(u) = m + x /\ \A k \in 1..(m + x) : u[k] = LineOf(0 + k, a)
  BY <1>3, LinesType
<1>. HIDE DEF S, u, s, t
<1>5. \A k \in 1..m : u[k] = s[k]
  BY <1>1, <1>4
<1>6. ASSUME NEW k \in 1..x PROVE u[m + k] = t[k]
  <2>1. m + k \in 1..(m + x) /\ 0 + (m + k) = m + k
    OBVIOUS
  <2>2. u[m + k] = LineOf(0 + (m + k), a)
    BY <1>4, <2>1
  <2>. QED
    BY <1>2, <2>1, <2>2
<1>7. /\ s \in Seq(S) /\ t \in Seq(S) /\ u \in Seq(S) /\ Len(u) = Len(s) + Len(t)
      /\ \A k \in 1..Len(s) : u[k] = s[k]
      /\ \A k \in 1..Len(t) : u[Len(s) + k] = t[k]
  BY <1>1, <1>2, <1>4, <1>5, <1>6
<1>8. u = Joined(s, t)
  BY <1>7, ConcatElements
<1>. QED
  BY <1>8 DEF u, s, t

PageLines(sizes, a) == [n \in DOMAIN sizes |-> Lines(RowsUpTo(sizes)[n - 1], sizes[n], a)]

\* The lines of the pages, one page after the other, are those of all their rows.
LEMMA PagesAreLines ==
  ASSUME NEW a
  PROVE  \A s \in Seq(Nat) : FlattenSeq(PageLines(s, a)) = Lines(0, RowCount(s), a)
<1>. DEFINE T == {s \in Seq(Nat) : FlattenSeq(PageLines(s, a)) = Lines(0, RowCount(s), a)}
<1>1. <<>> \in T
  <2>1. PageLines(<<>>, a) = <<>> /\ RowCount(<<>>) = 0 /\ Lines(0, 0, a) = <<>>
    BY CountOfNone DEF PageLines, Lines
  <2>2. FlattenSeq(<<>>) = <<>>
    BY DEF FlattenSeq
  <2>. QED
    BY <2>1, <2>2
<1>2. ASSUME NEW s \in Seq(Nat), NEW x \in Nat, s \in T PROVE Append(s, x) \in T
  <2>. DEFINE t == Append(s, x)
              c == RowCount(s)
              m == Len(s)
              S == EveryLine(a)
              ls == PageLines(s, a)
              lt == PageLines(t, a)
              e == Lines(c, x, a)
  <2>1. /\ m \in Nat /\ DOMAIN s = 1..m /\ t \in Seq(Nat) /\ DOMAIN t = 1..(m + 1)
        /\ t[m + 1] = x /\ \A k \in 1..m : t[k] = s[k]
    OBVIOUS
  <2>2. c \in Nat /\ \A k \in 0..m : RowsUpTo(s)[k] \in Nat
    BY CountType
  <2>3. RowCount(t) = c + x /\ \A k \in 0..m : RowsUpTo(t)[k] = RowsUpTo(s)[k]
    BY CountAppend
  <2>4. RowsUpTo(s)[m] = c
    BY DEF RowCount
  <2>5. \A k \in 1..m : s[k] \in Nat
    BY <2>1, ElementOfSeq
  <2>. HIDE DEF t, c
  <2>6. ls \in Seq(Seq(S)) /\ Len(ls) = m
    <3>1. \A k \in 1..m : Lines(RowsUpTo(s)[k - 1], s[k], a) \in Seq(S)
      <4>1. \A k \in 1..m : k - 1 \in 0..m
        BY <2>1
      <4>. QED
        BY <2>2, <2>5, <4>1, LinesType
    <3>2. ls \in [1..m -> Seq(S)]
      BY <2>1, <3>1 DEF PageLines
    <3>. HIDE DEF ls
    <3>3. m \in Nat
      BY <2>1
    <3>. QED
      BY <3>2, <3>3
  <2>7. e \in Seq(S)
    BY <2>2, LinesType
  <2>8. \A k \in 1..m : lt[k] = ls[k]
    <3>1. \A k \in 1..m : k - 1 \in 0..m /\ k \in 1..(m + 1)
      BY <2>1
    <3>. QED
      BY <2>1, <2>3, <3>1 DEF PageLines
  <2>9. lt[m + 1] = e
    <3>1. m + 1 \in 1..(m + 1) /\ (m + 1) - 1 = m /\ m \in 0..m
      BY <2>1
    <3>. QED
      BY <2>1, <2>3, <2>4, <3>1 DEF PageLines
  <2>10. DOMAIN lt = 1..(m + 1)
    BY <2>1 DEF PageLines
  <2>11. lt = [k \in 1..(m + 1) |-> lt[k]]
    BY <2>1 DEF PageLines
  <2>12. \A k \in 1..m : ls[k] \in Seq(S)
    BY <2>6, ElementOfSeq
  <2>. HIDE DEF ls, lt, e, S
  <2>13. lt \in Seq(Seq(S)) /\ Len(lt) = m + 1
    <3>1. \A k \in 1..(m + 1) : k \in 1..m \/ k = m + 1
      BY <2>1
    <3>2. \A k \in 1..(m + 1) : lt[k] \in Seq(S)
      BY <2>7, <2>8, <2>9, <2>12, <3>1
    <3>3. lt \in [1..(m + 1) -> Seq(S)]
      BY <2>11, <3>2
    <3>4. m + 1 \in Nat
      BY <2>1
    <3>. QED
      BY <3>3, <3>4
  <2>14. lt = Append(ls, e)
    BY <2>6, <2>7, <2>8, <2>9, <2>13, AppendElements
  <2>15. FlattenSeq(Append(ls, e)) = FlattenSeq(ls) \o e
    BY <2>6, <2>7, FlattenFacts
  <2>16. FlattenSeq(ls) = Lines(0, c, a)
    BY <1>2 DEF ls, c
  <2>17. FlattenSeq(lt) = Joined(Lines(0, c, a), e)
    BY <2>14, <2>15, <2>16 DEF Joined
  <2>18. Lines(0, c + x, a) = Joined(Lines(0, c, a), e)
    BY <2>2, LinesJoin DEF e
  <2>19. FlattenSeq(lt) = Lines(0, RowCount(t), a)
    BY <2>3, <2>17, <2>18
  <2>. QED
    BY <2>1, <2>19 DEF lt, t
<1>3. Seq(Nat) \subseteq T
  <2>. HIDE DEF T
  <2>. QED
    BY <1>1, <1>2, SeqInduction
<1>. QED
  BY <1>3

LEMMA KnownRows == chunks \in Results => TotalRows <= Len(Rows) /\ TotalRows \in Nat
<1>. SUFFICES ASSUME chunks \in Results PROVE TotalRows <= Len(Rows) /\ TotalRows \in Nat
  OBVIOUS
<1>. DEFINE sizes == [n \in DOMAIN chunks |-> RowCount(chunks[n])]
<1>1. RowCount(sizes) <= Len(Rows)
  BY RowsAssumption
<1>2. Len(sizes) = Len(chunks) /\ Len(chunks) \in Nat
  <2>1. Len(chunks) \in Nat /\ DOMAIN chunks = 1..Len(chunks)
    BY ChunkFacts
  <2>2. \A n \in 1..Len(chunks) : RowCount(chunks[n]) \in Nat
    BY ChunkFacts, CountType
  <2>3. sizes \in [1..Len(chunks) -> Nat]
    BY <2>1, <2>2
  <2>. HIDE DEF sizes
  <2>. QED
    BY <2>1, <2>3
<1>3. (Len(chunks) + 1) - 1 = Len(chunks)
  BY <1>2
<1>4. TotalRows = RowCount(sizes)
  BY <1>2, <1>3 DEF TotalRows, RowsBefore, RowCount
<1>5. RowsBefore(Len(chunks) + 1) \in Nat
  <2>1. Len(chunks) + 1 \in 1..(Len(chunks) + 1)
    BY <1>2
  <2>. QED
    BY <2>1, ChunkFacts
<1>. QED
  BY <1>1, <1>4, <1>5 DEF TotalRows

LEMMA GivenPages ==
  ASSUME given \in Seq(Seq(Runs))
  PROVE  /\ PageSizes \in Seq(Nat) /\ Len(PageSizes) = Len(given) /\ Len(given) \in Nat
         /\ DOMAIN given = 1..Len(given) /\ DOMAIN PageSizes = DOMAIN given
         /\ \A n \in DOMAIN given : PageSizes[n] = RowsOf(given[n]) /\ given[n] \in Seq(Runs)
<1>1. Len(given) \in Nat /\ DOMAIN given = 1..Len(given)
  OBVIOUS
<1>2. \A n \in DOMAIN given : given[n] \in Seq(Runs)
  BY <1>1, ElementOfSeq
<1>3. \A n \in DOMAIN given : RowsOf(given[n]) \in Nat
  BY <1>2, SizesFacts
<1>4. PageSizes \in [1..Len(given) -> Nat] /\ DOMAIN PageSizes = DOMAIN given
  BY <1>1, <1>3 DEF PageSizes
<1>5. PageSizes \in Seq(Nat) /\ Len(PageSizes) = Len(given)
  <2>. DEFINE p == PageSizes
              m == Len(given)
  <2>1. p \in [1..m -> Nat] /\ m \in Nat
    BY <1>1, <1>4
  <2>. HIDE DEF p, m
  <2>2. p \in Seq(Nat) /\ Len(p) = m
    BY <2>1
  <2>. QED
    BY <2>2 DEF p, m
<1>. QED
  BY <1>1, <1>2, <1>4, <1>5 DEF PageSizes

LEMMA InvLines == StreamInv => LinesAreRows
<1>. SUFFICES ASSUME StreamInv PROVE LinesAreRows
  OBVIOUS
<1>1. TypeOK /\ PagesInOrder /\ given \in Seq(Seq(Runs))
  BY DEF StreamInv, Typed, RowsInv
<1>2. chunks \in Results /\ asString \in BOOLEAN /\ cut \in Nat
  BY <1>1, EncodeAssumption DEF TypeOK
<1>3. TotalRows <= Len(Rows) /\ TotalRows \in Nat /\ Len(Rows) \in Nat
  BY <1>2, KnownRows, EncodeAssumption
<1>4. ASSUME NEW n \in DOMAIN given
      PROVE  EncodeNdjsonLines(given[n], cut, asString) = Lines(RowsUpTo(PageSizes)[n - 1], PageSizes[n], asString)
  <2>. DEFINE before == RowsUpTo(PageSizes)[n - 1]
              m == PageSizes[n]
  <2>1. given[n] \in Seq(Runs) /\ m = RowsOf(given[n]) /\ PageSizes \in Seq(Nat) /\ n \in 1..Len(PageSizes)
    BY <1>1, GivenPages
  <2>2. n - 1 \in 0..Len(PageSizes) /\ n \in 0..Len(PageSizes)
    BY <2>1
  <2>3. before \in Nat /\ RowsUpTo(PageSizes)[n] = before + m /\ RowsUpTo(PageSizes)[n] <= RowsGiven
    BY <2>1, <2>2, CountType, RowsUpToSums, PrefixIsLess DEF RowsGiven
  <2>4. RunFrom(given[n], before) /\ RowsGiven <= TotalRows
    BY <1>1 DEF PagesInOrder
  <2>5. RowsGiven \in Nat /\ m \in Nat
    BY <2>1, CountType, SizesFacts DEF RowsGiven
  <2>. HIDE DEF before, m
  <2>6. before + RowsOf(given[n]) <= Len(Rows)
    BY <1>3, <2>1, <2>3, <2>4, <2>5
  <2>. DEFINE g == given[n]
  <2>. HIDE DEF g
  <2>7. g \in Seq(Runs) /\ RunFrom(g, before) /\ before + RowsOf(g) <= Len(Rows)
    BY <2>1, <2>4, <2>6 DEF g
  <2>8. EncodeNdjsonLines(g, cut, asString) = Lines(before, RowsOf(g), asString)
    BY <1>2, <2>3, <2>7, PageIsEncoded
  <2>. QED
    BY <2>1, <2>8 DEF g, before, m
<1>5. LinesGiven = FlattenSeq(PageLines(PageSizes, asString))
  <2>1. DOMAIN PageSizes = DOMAIN given
    BY <1>1, GivenPages
  <2>. QED
    BY <1>4, <2>1 DEF LinesGiven, PageLines
<1>6. FlattenSeq(PageLines(PageSizes, asString)) = Lines(0, RowsGiven, asString)
  BY <1>1, GivenPages, PagesAreLines DEF RowsGiven
<1>7. Lines(0, RowsGiven, asString) = [n \in 1..RowsGiven |-> LineOf(n, asString)]
  <2>1. \A n \in 1..RowsGiven : 0 + n = n
    OBVIOUS
  <2>. QED
    BY <2>1 DEF Lines
<1>. QED
  BY <1>1, <1>5, <1>6, <1>7 DEF LinesAreRows

-----------------------------------------------------------------------------
(* The theorems.                                                            *)

\* The strengthening is an invariant: which task, hook, source and report belong
\* together, and that what was decoded is given, on the page or pending, in order.
THEOREM StreamIsSound == Spec => []StreamInv
<1>1. Init => StreamInv
  BY InitInv
<1>2. StreamInv /\ [Next]_vars => StreamInv'
  BY NextInv
<1>. QED
  BY <1>1, <1>2, PTL DEF Spec

LEMMA InvTimeout == StreamInv => TimeoutLeavesNothing
BY DEF StreamInv, TaskInv, TimeoutLeavesNothing, LetGo

LEMMA InvReport == StreamInv => ReportAgrees
<1>. SUFFICES ASSUME StreamInv PROVE ReportAgrees
  OBVIOUS
<1>1. ASSUME told = "end" PROVE RowsGiven = TotalRows
  <2>1. task = "none" /\ source = "done" /\ pending = <<>>
    BY <1>1 DEF StreamInv, TaskInv, ReportInv
  <2>2. Flowing /\ InPage = <<>> /\ Decoded = Len(chunks)
    <3>1. Len(pulled) = Len(chunks)
      BY <2>1 DEF StreamInv, SourceInv
    <3>. QED
      BY <1>1, <2>1, <3>1 DEF Flowing, InPage, Decoded
  <2>3. RowsGiven + RowsOf(InPage) + RowsOf(pending) = TotalRows
    BY <2>2 DEF StreamInv, RowsInv, TotalRows
  <2>4. RowsGiven \in Nat /\ RowsOf(InPage) = 0 /\ RowsOf(pending) = 0
    BY <2>1, <2>2, PageFacts, SizesOfNone DEF StreamInv
  <2>. QED
    BY <2>3, <2>4
<1>2. Len(reports) <= 1
  <2>1. reports \in {<<>>} \cup {<<o>> : o \in Outcomes}
    BY DEF StreamInv, Typed, TypeOK
  <2>2. CASE reports = <<>>
    BY <2>2
  <2>3. CASE reports # <<>>
    <3>1. PICK o \in Outcomes : reports = <<o>>
      BY <2>1, <2>3
    <3>2. Len(reports) = 1
      BY <3>1
    <3>. QED
      BY <3>2
  <2>. QED
    BY <2>2, <2>3
<1>. QED
  BY <1>1, <1>2 DEF ReportAgrees, StreamInv, ReportInv

LEMMA InvPages == StreamInv => PagesInOrder
BY DEF StreamInv, RowsInv

\* check_deadline_or_wait, CancelInFlightOnDrop and AbandonedSubmitCancel: a caller
\* that is told a timeout leaves no task and no reader of the download, whenever it
\* asked, cancelled or dropped before, and a statement that still runs is being
\* cancelled, unless its handle has not arrived or the request has failed.
THEOREM TimeoutIsClean == Spec => []TimeoutLeavesNothing
BY StreamIsSound, InvTimeout, PTL

\* ReportOnDrop, cancel_hook and the first outcome of the StatsReporter: what the
\* event sink hears agrees with what the caller is told, and a clean end is told only
\* when every row has been given.
THEOREM ReportsAlwaysAgree == Spec => []ReportAgrees
BY StreamIsSound, InvReport, PTL

\* take_page over the chunks of the source: the pages given are the first rows of the
\* result, each once and in order, for every split of rows into batches and chunks
\* and every page size.
THEOREM PagesAlwaysInOrder == Spec => []PagesInOrder
BY StreamIsSound, InvPages, PTL

\* take_page, LineCollector and replace_nth_top_level_null together: the lines of the
\* pages given are those of the first rows of the result, each with its own values,
\* for every split of rows into batches, chunks, pages and writes, whatever
\* characters the names and values have and however values nest.
THEOREM LinesAlwaysRows == Spec => []LinesAreRows
BY StreamIsSound, InvLines, PTL
=============================================================================
