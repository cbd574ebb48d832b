-------------------------- MODULE ResultStreamProofs --------------------------
(***************************************************************************)
(* Theorems about ResultStream, for every set of calls, every result and    *)
(* every bound on a batch of chunks.                                        *)
(***************************************************************************)
EXTENDS ResultStream, SequenceTheorems, WellFoundedInduction, TLAPS

-----------------------------------------------------------------------------
(* Induction over the natural numbers, stated of a set of them.             *)

LEMMA LeastElement ==
  ASSUME NEW S, S \subseteq Nat, S # {}
  PROVE  \E n \in S : \A m \in S : n <= m
<1>. DEFINE R == OpToRel(<, Nat)
<1>1. IsWellFoundedOn(R, Nat)
  BY NatLessThanWellFounded
<1>2. PICK n \in S : \A m \in S : ~(<<m, n>> \in R)
  <2>. HIDE DEF R
  <2>. QED
    BY <1>1, WFMin
<1>3. \A m \in S : m \in Nat /\ n \in Nat /\ ~(m < n)
  BY <1>2 DEF OpToRel
<1>. QED
  BY <1>3

LEMMA SetInduction ==
  ASSUME NEW S, 0 \in S, \A n \in Nat : n \in S => n + 1 \in S
  PROVE  Nat \subseteq S
<1>. SUFFICES ASSUME ~(Nat \subseteq S) PROVE FALSE
  OBVIOUS
<1>. DEFINE T == Nat \ S
<1>1. PICK n \in T : \A m \in T : n <= m
  <2>1. T \subseteq Nat /\ T # {}
    OBVIOUS
  <2>. QED
    BY <2>1, LeastElement
<1>2. n # 0 /\ n - 1 \in Nat
  OBVIOUS
<1>3. n - 1 \in S
  BY <1>1, <1>2
<1>. QED
  BY <1>2, <1>3

-----------------------------------------------------------------------------
(* The rows of a prefix.                                                    *)

\* What RowsUpTo computes exists.
LEMMA PrefixSumsExist ==
  ASSUME NEW s, Len(s) \in Nat, \A k \in 1..Len(s) : s[k].rows \in Nat
  PROVE  \E f \in [0..Len(s) -> Nat] :
           f[0] = 0 /\ \A k \in 1..Len(s) : f[k] = f[k - 1] + s[k].rows
<1>. DEFINE UpTo(n) == \E f \in [0..n -> Nat] :
                         f[0] = 0 /\ \A k \in 1..n : f[k] = f[k - 1] + s[k].rows
<1>. DEFINE S == {n \in Nat : n <= Len(s) => UpTo(n)}
<1>1. 0 \in S
  <2>1. [k \in 0..0 |-> 0] \in [0..0 -> Nat] /\ [k \in 0..0 |-> 0][0] = 0
    OBVIOUS
  <2>2. \A k \in 1..0 : FALSE
    OBVIOUS
  <2>. QED
    BY <2>1, <2>2
<1>2. ASSUME NEW n \in Nat, n \in S PROVE n + 1 \in S
  <2>. HIDE DEF UpTo
  <2>. SUFFICES ASSUME n + 1 <= Len(s) PROVE UpTo(n + 1)
    OBVIOUS
  <2>1. UpTo(n)
    BY <1>2
  <2>. USE DEF UpTo
  <2>2. PICK f \in [0..n -> Nat] : f[0] = 0 /\ \A k \in 1..n : f[k] = f[k - 1] + s[k].rows
    BY <2>1
  <2>3. s[n + 1].rows \in Nat
    OBVIOUS
  <2>. DEFINE g == [k \in 0..(n + 1) |-> IF k = n + 1 THEN f[n] + s[n + 1].rows ELSE f[k]]
  <2>4. g \in [0..(n + 1) -> Nat]
    BY <2>3
  <2>5. g[0] = 0
    BY <2>2
  <2>6. \A k \in 1..(n + 1) : g[k] = g[k - 1] + s[k].rows
    BY <2>2
  <2>. HIDE DEF g
  <2>. QED
    BY <2>4, <2>5, <2>6
<1>3. Nat \subseteq S
  <2>. HIDE DEF S
  <2>. QED
    BY <1>1, <1>2, SetInduction
<1>. QED
  BY <1>3, SMTT(30)

LEMMA RowsUpToSums ==
  ASSUME NEW s, Len(s) \in Nat, \A k \in 1..Len(s) : s[k].rows \in Nat
  PROVE  /\ RowsUpTo(s) \in [0..Len(s) -> Nat]
         /\ RowsUpTo(s)[0] = 0
         /\ \A k \in 1..Len(s) : RowsUpTo(s)[k] = RowsUpTo(s)[k - 1] + s[k].rows
<1>. DEFINE Fits(f) == f = [k \in 0..Len(s) |-> IF k = 0 THEN 0 ELSE f[k - 1] + s[k].rows]
<1>1. \E f : Fits(f)
  <2>1. PICK f \in [0..Len(s) -> Nat] : f[0] = 0 /\ \A k \in 1..Len(s) : f[k] = f[k - 1] + s[k].rows
    BY PrefixSumsExist
  <2>2. Fits(f)
    BY <2>1
  <2>. QED
    BY <2>2
<1>2. RowsUpTo(s) = CHOOSE f : Fits(f)
  BY DEF RowsUpTo
<1>3. Fits(RowsUpTo(s))
  BY <1>1, <1>2
<1>. HIDE DEF Fits
<1>4. PICK g : g = RowsUpTo(s) /\ Fits(g)
  BY <1>3
<1>. USE DEF Fits
<1>a. g = [k \in 0..Len(s) |-> IF k = 0 THEN 0 ELSE g[k - 1] + s[k].rows]
  BY <1>4
<1>b. DOMAIN g = 0..Len(s) /\ g[0] = 0
  BY <1>a
<1>c. ASSUME NEW k \in 1..Len(s) PROVE g[k] = g[k - 1] + s[k].rows
  <2>1. k \in 0..Len(s) /\ k # 0
    OBVIOUS
  <2>. QED
    BY <1>a, <2>1
<1>. DEFINE S == {n \in Nat : n <= Len(s) => g[n] \in Nat}
<1>5. Nat \subseteq S
  <2>1. 0 \in S
    BY <1>b
  <2>2. ASSUME NEW n \in Nat, n \in S PROVE n + 1 \in S
    <3>. SUFFICES ASSUME n + 1 <= Len(s) PROVE g[n + 1] \in Nat
      OBVIOUS
    <3>1. g[n] \in Nat /\ n + 1 \in 1..Len(s)
      BY <2>2
    <3>2. g[n + 1] = g[n] + s[n + 1].rows
      <4>1. g[n + 1] = g[(n + 1) - 1] + s[n + 1].rows
        BY <1>c, <3>1
      <4>2. (n + 1) - 1 = n
        OBVIOUS
      <4>. QED
        BY <4>1, <4>2
    <3>. QED
      BY <3>1, <3>2
  <2>. HIDE DEF S
  <2>. QED
    BY <2>1, <2>2, SetInduction
<1>6. \A k \in 0..Len(s) : g[k] \in Nat
  BY <1>5
<1>. QED
  BY <1>4, <1>a, <1>b, <1>c, <1>6

LEMMA PrefixIsLess ==
  ASSUME NEW s, Len(s) \in Nat, \A k \in 1..Len(s) : s[k].rows \in Nat
  PROVE  \A k \in 0..Len(s) : RowsUpTo(s)[k] <= RowsUpTo(s)[Len(s)]
<1>1. PICK u : /\ u = RowsUpTo(s)
               /\ u \in [0..Len(s) -> Nat]
               /\ \A k \in 1..Len(s) : u[k] = u[k - 1] + s[k].rows
  BY RowsUpToSums
<1>. DEFINE S == {n \in Nat : n <= Len(s) => u[Len(s) - n] <= u[Len(s)]}
<1>2. 0 \in S
  <2>1. Len(s) - 0 = Len(s) /\ u[Len(s)] \in Nat
    BY <1>1
  <2>. QED
    BY <2>1
<1>3. ASSUME NEW n \in Nat, n \in S PROVE n + 1 \in S
  <2>. SUFFICES ASSUME n + 1 <= Len(s) PROVE u[Len(s) - (n + 1)] <= u[Len(s)]
    OBVIOUS
  <2>1. /\ Len(s) - n \in 1..Len(s) /\ (Len(s) - n) - 1 = Len(s) - (n + 1)
        /\ Len(s) - n \in 0..Len(s) /\ Len(s) - (n + 1) \in 0..Len(s) /\ Len(s) \in 0..Len(s)
    OBVIOUS
  <2>2. PICK a \in Nat, b \in Nat, c \in Nat, r \in Nat :
          /\ a = u[Len(s) - (n + 1)] /\ b = u[Len(s) - n] /\ c = u[Len(s)]
          /\ r = s[Len(s) - n].rows
    BY <1>1, <2>1
  <2>3. b = a + r
    BY <1>1, <2>1, <2>2
  <2>4. b <= c
    BY <1>3, <2>2
  <2>. QED
    BY <2>2, <2>3, <2>4, SMTT(30)
<1>4. Nat \subseteq S
  <2>. HIDE DEF S
  <2>. QED
    BY <1>2, <1>3, SetInduction
<1>5. ASSUME NEW k \in 0..Len(s) PROVE u[k] <= u[Len(s)]
  <2>1. Len(s) - k \in Nat /\ Len(s) - k <= Len(s) /\ Len(s) - (Len(s) - k) = k
    OBVIOUS
  <2>2. Len(s) - k \in S
    BY <1>4, <2>1
  <2>3. u[Len(s) - (Len(s) - k)] <= u[Len(s)]
    BY <2>1, <2>2
  <2>. QED
    BY <2>1, <2>3
<1>. QED
  BY <1>1, <1>5

-----------------------------------------------------------------------------
(* Runs of rows.                                                            *)

LEMMA RunSums ==
  ASSUME NEW s \in Seq(RowRuns), NEW from \in Nat, NEW to \in Nat, Run(s, from, to)
  PROVE  /\ RowsUpTo(s) \in [0..Len(s) -> Nat] /\ RowsUpTo(s)[0] = 0
         /\ \A k \in 1..Len(s) :
              /\ s[k].first \in Nat /\ s[k].rows \in Nat /\ s[k].rows > 0
              /\ from + RowsUpTo(s)[k - 1] = s[k].first
              /\ from + RowsUpTo(s)[k] = s[k].first + s[k].rows
         /\ \A k \in 0..Len(s) : from + RowsUpTo(s)[k] <= to
         /\ from + RowCount(s) = to
<1>1. Len(s) \in Nat /\ \A k \in 1..Len(s) : s[k] \in RowRuns
  OBVIOUS
<1>2. \A k \in 1..Len(s) : s[k].first \in Nat /\ s[k].rows \in Nat /\ s[k].rows > 0
  BY <1>1 DEF RowRuns, Run
<1>3. PICK u : /\ u = RowsUpTo(s)
               /\ u \in [0..Len(s) -> Nat]
               /\ u[0] = 0
               /\ \A k \in 1..Len(s) : u[k] = u[k - 1] + s[k].rows
  BY <1>1, <1>2, RowsUpToSums
<1>4. \A k \in 1..(Len(s) - 1) : s[k + 1].first = s[k].first + s[k].rows
  BY DEF Run
<1>5. \A k \in 1..Len(s) : from + u[k - 1] = s[k].first
  <2>. DEFINE S == {n \in Nat : n + 1 <= Len(s) => from + u[n] = s[n + 1].first}
  <2>1. 0 \in S
    <3>. SUFFICES ASSUME 1 <= Len(s) PROVE from + u[0] = s[1].first
      OBVIOUS
    <3>1. s # <<>>
      BY <1>1
    <3>2. s[1].first = from
      BY <3>1 DEF Run
    <3>. QED
      BY <1>3, <3>2
  <2>2. ASSUME NEW n \in Nat, n \in S PROVE n + 1 \in S
    <3>. SUFFICES ASSUME n + 2 <= Len(s) PROVE from + u[n + 1] = s[n + 2].first
      <4>1. (n + 1) + 1 = n + 2
        OBVIOUS
      <4>. QED
        BY <4>1
    <3>1. n + 1 \in 1..Len(s) /\ n + 1 \in 1..(Len(s) - 1) /\ n + 2 \in 1..Len(s)
      BY <1>1
    <3>2. from + u[n] = s[n + 1].first
      BY <1>1, <2>2
    <3>3. u[n + 1] = u[n] + s[n + 1].rows
      <4>1. u[n + 1] = u[(n + 1) - 1] + s[n + 1].rows
        BY <1>3, <3>1
      <4>2. (n + 1) - 1 = n
        OBVIOUS
      <4>. QED
        BY <4>1, <4>2
    <3>4. s[n + 2].first = s[n + 1].first + s[n + 1].rows
      <4>1. s[(n + 1) + 1].first = s[n + 1].first + s[n + 1].rows
        BY <1>4, <3>1
      <4>2. (n + 1) + 1 = n + 2
        OBVIOUS
      <4>. QED
        BY <4>1, <4>2
    <3>5. PICK f \in Nat, r \in Nat, a \in Nat : f = s[n + 1].first /\ r = s[n + 1].rows /\ a = u[n]
      <4>1. n \in 0..Len(s)
        BY <1>1
      <4>. QED
        BY <1>2, <1>3, <3>1, <4>1
    <3>6. from + a = f /\ u[n + 1] = a + r /\ s[n + 2].first = f + r
      BY <3>2, <3>3, <3>4, <3>5
    <3>. QED
      BY <3>6
  <2>3. Nat \subseteq S
    <3>. HIDE DEF S
    <3>. QED
      BY <2>1, <2>2, SetInduction
  <2>4. ASSUME NEW k \in 1..Len(s) PROVE from + u[k - 1] = s[k].first
    <3>1. k - 1 \in Nat /\ (k - 1) + 1 = k /\ k <= Len(s)
      BY <1>1
    <3>2. k - 1 \in S
      BY <2>3, <3>1
    <3>3. from + u[k - 1] = s[(k - 1) + 1].first
      BY <3>1, <3>2
    <3>. QED
      BY <3>1, <3>3
  <2>. QED
    BY <2>4
<1>6. ASSUME NEW k \in 1..Len(s) PROVE from + u[k] = s[k].first + s[k].rows
  <2>1. PICK r \in Nat, a \in Nat : r = s[k].rows /\ a = u[k - 1]
    <3>1. k - 1 \in 0..Len(s)
      BY <1>1
    <3>. QED
      BY <1>2, <1>3, <3>1
  <2>2. u[k] = a + r /\ from + a = s[k].first
    BY <1>3, <1>5, <2>1
  <2>. QED
    BY <2>1, <2>2
<1>7. from + u[Len(s)] = to
  <2>1. CASE s = <<>>
    BY <1>3, <2>1 DEF Run
  <2>2. CASE s # <<>>
    <3>1. Len(s) \in 1..Len(s)
      BY <1>1, <2>2
    <3>2. s[Len(s)].first + s[Len(s)].rows = to
      BY <2>2 DEF Run
    <3>. QED
      BY <1>2, <1>6, <3>1, <3>2
  <2>. QED
    BY <2>1, <2>2
<1>8. ASSUME NEW k \in 0..Len(s) PROVE from + u[k] <= to
  <2>1. u[k] <= u[Len(s)]
    BY <1>1, <1>2, <1>3, PrefixIsLess
  <2>2. Len(s) \in 0..Len(s)
    BY <1>1
  <2>3. PICK a \in Nat, b \in Nat : a = u[k] /\ b = u[Len(s)]
    BY <1>3, <2>2
  <2>. QED
    BY <1>7, <2>1, <2>3
<1>. QED
  BY <1>2, <1>3, <1>5, <1>6, <1>7, <1>8 DEF RowCount

\* A run is its rows, in ascending order.
LEMMA RunRows ==
  ASSUME NEW s \in Seq(RowRuns), NEW from \in Nat, NEW to \in Nat, Run(s, from, to)
  PROVE  RowsIn(s) = from..(to - 1) /\ Ascending(s) /\ from <= to
<1>1. Len(s) \in Nat /\ DOMAIN s = 1..Len(s)
  OBVIOUS
<1>2. PICK u \in [0..Len(s) -> Nat] :
        /\ u[0] = 0
        /\ \A k \in 1..Len(s) :
             /\ s[k].first \in Nat /\ s[k].rows \in Nat /\ s[k].rows > 0
             /\ from + u[k - 1] = s[k].first
             /\ from + u[k] = s[k].first + s[k].rows
        /\ \A k \in 0..Len(s) : from + u[k] <= to
        /\ from + u[Len(s)] = to
  BY RunSums DEF RowCount
<1>3. from <= to
  <2>1. from + u[0] <= to
    BY <1>1, <1>2
  <2>. QED
    BY <1>2, <2>1
<1>a. \A k \in 0..Len(s) : u[k] \in Nat
  BY <1>2
<1>4. \A k \in DOMAIN s : RowsOf(s[k]) = (from + u[k - 1])..(from + u[k] - 1)
  <2>. SUFFICES ASSUME NEW k \in 1..Len(s)
                PROVE  RowsOf(s[k]) = (from + u[k - 1])..(from + u[k] - 1)
    BY <1>1
  <2>1. k - 1 \in 0..Len(s) /\ k \in 0..Len(s)
    BY <1>1
  <2>2. PICK a \in Nat, b \in Nat : a = u[k - 1] /\ b = u[k]
    BY <1>a, <2>1
  <2>3. PICK f \in Nat, r \in Nat : f = s[k].first /\ r = s[k].rows
    BY <1>2
  <2>4. from + a = f /\ from + b = f + r
    BY <1>2, <2>2, <2>3
  <2>5. f..(f + r - 1) = (from + a)..(from + b - 1)
    BY <2>4
  <2>. QED
    BY <2>2, <2>3, <2>5 DEF RowsOf
<1>5. \A m, n \in 0..Len(s) : m <= n => u[m] <= u[n]
  <2>. DEFINE S == {n \in Nat : n <= Len(s) => \A m \in 0..n : u[m] <= u[n]}
  <2>1. 0 \in S
    <3>1. \A m \in 0..0 : m = 0
      OBVIOUS
    <3>. QED
      BY <1>2, <3>1
  <2>2. ASSUME NEW n \in Nat, n \in S PROVE n + 1 \in S
    <3>. SUFFICES ASSUME n + 1 <= Len(s), NEW m \in 0..(n + 1) PROVE u[m] <= u[n + 1]
      OBVIOUS
    <3>1. n + 1 \in 1..Len(s) /\ (n + 1) - 1 = n /\ n \in 0..Len(s) /\ n + 1 \in 0..Len(s)
      BY <1>1
    <3>2. u[n] <= u[n + 1]
      <4>1. PICK a \in Nat, b \in Nat, f \in Nat, r \in Nat :
              a = u[n] /\ b = u[n + 1] /\ f = s[n + 1].first /\ r = s[n + 1].rows
        BY <1>2, <1>a, <3>1
      <4>2. from + a = f /\ from + b = f + r
        BY <1>2, <3>1, <4>1
      <4>. QED
        BY <4>1, <4>2, SMTT(30)
    <3>3. CASE m = n + 1
      BY <1>2, <3>1, <3>3
    <3>4. CASE m \in 0..n
      <4>1. u[m] <= u[n] /\ m \in 0..Len(s)
        BY <1>1, <2>2, <3>4
      <4>2. u[m] \in Nat /\ u[n] \in Nat /\ u[n + 1] \in Nat
        BY <1>a, <3>1, <4>1
      <4>. QED
        BY <3>2, <4>1, <4>2
    <3>. QED
      BY <3>3, <3>4
  <2>3. Nat \subseteq S
    <3>. HIDE DEF S
    <3>. QED
      BY <2>1, <2>2, SetInduction
  <2>4. ASSUME NEW m \in 0..Len(s), NEW n \in 0..Len(s), m <= n PROVE u[m] <= u[n]
    <3>1. n \in S /\ n <= Len(s) /\ m \in 0..n
      BY <1>1, <2>3, <2>4
    <3>. QED
      BY <3>1
  <2>. QED
    BY <2>4
<1>6. Ascending(s)
  <2>. SUFFICES ASSUME NEW m \in DOMAIN s, NEW n \in DOMAIN s, m < n,
                       NEW x \in RowsOf(s[m]), NEW y \in RowsOf(s[n])
                PROVE  x < y
    BY DEF Ascending
  <2>1. m \in 0..Len(s) /\ n - 1 \in 0..Len(s) /\ m <= n - 1
    BY <1>1
  <2>2. u[m] <= u[n - 1] /\ u[m] \in Nat /\ u[n - 1] \in Nat
    BY <1>2, <1>5, <2>1
  <2>3. x \in (from + u[m - 1])..(from + u[m] - 1) /\ y \in (from + u[n - 1])..(from + u[n] - 1)
    BY <1>4
  <2>4. x < from + u[m] /\ from + u[n - 1] <= y /\ x \in Int /\ y \in Int
    <3>1. u[m - 1] \in Nat /\ u[n] \in Nat
      <4>1. m - 1 \in 0..Len(s) /\ n \in 0..Len(s)
        BY <1>1
      <4>. QED
        BY <1>a, <4>1
    <3>. QED
      BY <2>2, <2>3, <3>1, SMTT(30)
  <2>. QED
    BY <2>2, <2>4, SMTT(30)
<1>7. ASSUME NEW k \in DOMAIN s, NEW x \in RowsOf(s[k]) PROVE x \in from..(to - 1)
  <2>1. /\ k - 1 \in 0..Len(s) /\ k \in 0..Len(s)
        /\ x \in (from + u[k - 1])..(from + u[k] - 1)
    BY <1>1, <1>4
  <2>2. u[k - 1] \in Nat /\ u[k] \in Nat /\ from + u[k] <= to
    BY <1>2, <2>1
  <2>. QED
    BY <2>1, <2>2, SMTT(30)
<1>8. ASSUME NEW x \in from..(to - 1) PROVE \E k \in DOMAIN s : x \in RowsOf(s[k])
  <2>. DEFINE S == {k \in 1..Len(s) : x < from + u[k]}
  <2>1. Len(s) \in S
    <3>1. Len(s) # 0
      BY <1>2, <1>8
    <3>. QED
      BY <1>1, <1>2, <3>1
  <2>2. S \subseteq Nat /\ S # {}
    BY <2>1
  <2>3. PICK k \in S : \A j \in S : k <= j
    <3>. HIDE DEF S
    <3>. QED
      BY <2>2, LeastElement
  <2>4. k \in 1..Len(s) /\ x < from + u[k]
    OBVIOUS
  <2>5. from + u[k - 1] <= x
    <3>1. CASE k = 1
      BY <1>2, <3>1
    <3>2. CASE k # 1
      <4>1. k - 1 \in 1..Len(s) /\ ~(k <= k - 1)
        BY <1>1, <2>4, <3>2
      <4>2. ~(x < from + u[k - 1])
        BY <2>3, <4>1
      <4>3. u[k - 1] \in Nat
        <5>1. k - 1 \in 0..Len(s)
          BY <1>1, <4>1
        <5>. QED
          BY <1>a, <5>1
      <4>. QED
        BY <4>2, <4>3
    <3>. QED
      BY <3>1, <3>2
  <2>6. u[k] \in Nat /\ u[k - 1] \in Nat
    <3>1. k \in 0..Len(s) /\ k - 1 \in 0..Len(s)
      BY <1>1, <2>4
    <3>. QED
      BY <1>a, <3>1
  <2>7. x \in (from + u[k - 1])..(from + u[k] - 1)
    BY <2>4, <2>5, <2>6
  <2>. QED
    BY <1>1, <1>4, <2>4, <2>7
<1>9. RowsIn(s) = from..(to - 1)
  BY <1>7, <1>8 DEF RowsIn
<1>. QED
  BY <1>3, <1>6, <1>9

LEMMA RunAppend ==
  ASSUME NEW s \in Seq(RowRuns), NEW from \in Nat, NEW to \in Nat, Run(s, from, to),
         NEW b \in RowRuns, b.first = to, b.rows > 0
  PROVE  Append(s, b) \in Seq(RowRuns) /\ Run(Append(s, b), from, to + b.rows)
<1>. DEFINE t == Append(s, b)
<1>1. /\ t \in Seq(RowRuns) /\ Len(t) = Len(s) + 1 /\ Len(s) \in Nat
      /\ \A k \in 1..Len(s) : t[k] = s[k]
      /\ t[Len(s) + 1] = b
  OBVIOUS
<1>. HIDE DEF t
<1>2. \A k \in 1..Len(t) : t[k].rows > 0
  BY <1>1 DEF Run
<1>3. ASSUME NEW k \in 1..(Len(t) - 1) PROVE t[k + 1].first = t[k].first + t[k].rows
  <2>1. k \in 1..Len(s) /\ t[k] = s[k]
    BY <1>1
  <2>2. CASE k = Len(s)
    <3>1. s # <<>>
      BY <2>1, <2>2
    <3>. QED
      BY <1>1, <2>1, <2>2, <3>1 DEF Run
  <2>3. CASE k # Len(s)
    <3>1. k \in 1..(Len(s) - 1) /\ k + 1 \in 1..Len(s)
      BY <1>1, <2>1, <2>3
    <3>2. s[k + 1].first = s[k].first + s[k].rows
      BY <3>1 DEF Run
    <3>. QED
      BY <1>1, <2>1, <3>1, <3>2
  <2>. QED
    BY <2>2, <2>3
<1>4. t # <<>>
  BY <1>1
<1>5. t[1].first = from
  <2>1. CASE s = <<>>
    BY <1>1, <2>1 DEF Run
  <2>2. CASE s # <<>>
    <3>1. 1 \in 1..Len(s)
      BY <2>2
    <3>. QED
      BY <1>1, <2>2, <3>1 DEF Run
  <2>. QED
    BY <2>1, <2>2
<1>6. t[Len(t)].first + t[Len(t)].rows = to + b.rows
  BY <1>1
<1>7. Run(t, from, to + b.rows)
  BY <1>2, <1>3, <1>4, <1>5, <1>6 DEF Run
<1>. QED
  BY <1>1, <1>7 DEF t

-----------------------------------------------------------------------------
(* take: a run is split in two.                                             *)

LEMMA PoppedStops ==
  ASSUME NEW s, Len(s) \in Nat, RowsUpTo(s) \in [0..Len(s) -> Nat], NEW n \in Nat
  PROVE  /\ Popped(s, n) \in 0..Len(s)
         /\ \A j \in 1..Popped(s, n) : RowsUpTo(s)[j - 1] < n
         /\ Popped(s, n) < Len(s) => n <= RowsUpTo(s)[Popped(s, n)]
<1>. DEFINE Stops(k) == /\ \A j \in 1..k : RowsUpTo(s)[j - 1] < n
                        /\ k < Len(s) => n <= RowsUpTo(s)[k]
<1>. DEFINE S == {k \in 0..Len(s) : k < Len(s) => n <= RowsUpTo(s)[k]}
<1>1. Len(s) \in S /\ S \subseteq Nat
  OBVIOUS
<1>2. PICK k \in S : \A j \in S : k <= j
  <2>. HIDE DEF S
  <2>1. S # {}
    BY <1>1
  <2>. QED
    BY <1>1, <2>1, LeastElement
<1>3. ASSUME NEW j \in 1..k PROVE RowsUpTo(s)[j - 1] < n
  <2>1. j - 1 \in 0..Len(s) /\ j - 1 < Len(s) /\ ~(k <= j - 1)
    BY <1>1, <1>2
  <2>2. ~(n <= RowsUpTo(s)[j - 1])
    BY <1>2, <2>1
  <2>3. RowsUpTo(s)[j - 1] \in Nat
    BY <2>1
  <2>. QED
    BY <2>2, <2>3
<1>4. k \in 0..Len(s) /\ Stops(k)
  BY <1>2, <1>3
<1>5. Popped(s, n) = CHOOSE j \in 0..Len(s) : Stops(j)
  BY DEF Popped
<1>. HIDE DEF Stops
<1>6. Popped(s, n) \in 0..Len(s) /\ Stops(Popped(s, n))
  BY <1>4, <1>5
<1>. QED
  BY <1>6 DEF Stops

LEMMA MinOfNats ==
  ASSUME NEW a \in Nat, NEW b \in Nat
  PROVE  /\ Min2(a, b) \in Nat /\ Min2(a, b) <= a /\ Min2(a, b) <= b
         /\ Min2(a, b) = a \/ Min2(a, b) = b
  BY DEF Min2

\* What is taken are the first rows, as many as are wanted and there.
LEMMA FirstRowsRun ==
  ASSUME NEW s \in Seq(RowRuns), NEW from \in Nat, NEW to \in Nat, Run(s, from, to),
         NEW n \in Nat
  PROVE  /\ FirstRows(s, n) \in Seq(RowRuns)
         /\ Run(FirstRows(s, n), from, from + Min2(n, to - from))
<1>1. Len(s) \in Nat
  OBVIOUS
<1>2. PICK u \in [0..Len(s) -> Nat] :
        /\ u = RowsUpTo(s) /\ u[0] = 0
        /\ \A k \in 1..Len(s) :
             /\ s[k].first \in Nat /\ s[k].rows \in Nat /\ s[k].rows > 0
             /\ from + u[k - 1] = s[k].first
             /\ from + u[k] = s[k].first + s[k].rows
        /\ \A k \in 0..Len(s) : from + u[k] <= to
        /\ from + u[Len(s)] = to
  BY RunSums DEF RowCount
<1>3. PICK p \in 0..Len(s) :
        /\ p = Popped(s, n)
        /\ \A j \in 1..p : u[j - 1] < n
        /\ p < Len(s) => n <= u[p]
  BY <1>1, <1>2, PoppedStops
<1>4. p \in Nat /\ p <= Len(s)
  BY <1>1
<1>. DEFINE t == FirstRows(s, n)
<1>5. t = [k \in 1..p |-> [first |-> s[k].first + 0, rows |-> Min2(s[k].rows, n - u[k - 1])]]
  BY <1>2, <1>3 DEF FirstRows, Slice
<1>6. ASSUME NEW k \in 1..p
      PROVE  \E a \in Nat, b \in Nat, m \in Nat :
               /\ a = u[k - 1] /\ b = u[k] /\ a < n /\ a < b
               /\ t[k] = [first |-> from + a, rows |-> m] /\ m > 0
               /\ m = IF b <= n THEN b - a ELSE n - a
  <2>1. k \in 1..Len(s) /\ k \in 0..Len(s) /\ k - 1 \in 0..Len(s)
    BY <1>1, <1>4
  <2>2. PICK a \in Nat, b \in Nat, f \in Nat, r \in Nat :
          a = u[k - 1] /\ b = u[k] /\ f = s[k].first /\ r = s[k].rows
    BY <1>2, <2>1
  <2>3. from + a = f /\ from + b = f + r /\ r > 0 /\ a < n
    BY <1>2, <1>3, <2>1, <2>2
  <2>4. t[k] = [first |-> f + 0, rows |-> Min2(r, n - a)]
    BY <1>5, <2>2
  <2>5. f + 0 = from + a /\ Min2(r, n - a) = IF b <= n THEN b - a ELSE n - a
    BY <2>3 DEF Min2
  <2>6. Min2(r, n - a) \in Nat /\ Min2(r, n - a) > 0 /\ a < b
    BY <2>3 DEF Min2
  <2>. QED
    BY <2>2, <2>3, <2>4, <2>5, <2>6
<1>. HIDE DEF t
<1>7. t \in Seq(RowRuns) /\ Len(t) = p
  <2>1. \A k \in 1..p : t[k] \in RowRuns
    <3>. SUFFICES ASSUME NEW k \in 1..p PROVE t[k] \in RowRuns
      OBVIOUS
    <3>1. PICK a \in Nat, m \in Nat : t[k] = [first |-> from + a, rows |-> m]
      BY <1>6
    <3>. QED
      BY <3>1, SMTT(30) DEF RowRuns
  <2>. QED
    BY <1>4, <1>5, <2>1
<1>8. \A k \in 1..Len(t) : t[k].rows > 0
  <2>. SUFFICES ASSUME NEW k \in 1..p PROVE t[k].rows > 0
    BY <1>7
  <2>1. PICK a \in Nat, m \in Nat : t[k] = [first |-> from + a, rows |-> m] /\ m > 0
    BY <1>6
  <2>. QED
    BY <2>1
<1>9. \A k \in 1..(Len(t) - 1) : t[k + 1].first = t[k].first + t[k].rows
  <2>. SUFFICES ASSUME NEW k \in 1..(p - 1) PROVE t[k + 1].first = t[k].first + t[k].rows
    BY <1>7
  <2>1. k \in 1..p /\ k + 1 \in 1..p /\ (k + 1) - 1 = k
    BY <1>4
  <2>2. PICK a \in Nat, b \in Nat, m \in Nat :
          /\ a = u[k - 1] /\ b = u[k] /\ a < n /\ a < b
          /\ t[k] = [first |-> from + a, rows |-> m] /\ m > 0
          /\ m = IF b <= n THEN b - a ELSE n - a
    BY <1>6, <2>1
  <2>3. PICK c \in Nat, l \in Nat :
          c = u[(k + 1) - 1] /\ t[k + 1] = [first |-> from + c, rows |-> l] /\ c < n
    BY <1>6, <2>1
  <2>4. c = b /\ b < n
    BY <2>1, <2>2, <2>3
  <2>5. a < b /\ b < n /\ m = IF b <= n THEN b - a ELSE n - a
    BY <2>2, <2>4
  <2>6. from + b = (from + a) + m
    BY <2>5
  <2>. QED
    BY <2>2, <2>3, <2>4, <2>6
<1>10. t = <<>> => from = from + Min2(n, to - from)
  <2>. SUFFICES ASSUME t = <<>> PROVE from = from + Min2(n, to - from)
    OBVIOUS
  <2>1. p = 0
    BY <1>7
  <2>2. CASE Len(s) = 0
    <3>1. to = from
      BY <1>2, <2>2
    <3>. QED
      BY <3>1 DEF Min2
  <2>3. CASE Len(s) # 0
    <3>1. n <= u[0]
      BY <1>1, <1>3, <2>1, <2>3
    <3>2. n = 0
      BY <1>2, <3>1
    <3>3. from <= to
      <4>1. from + u[0] <= to
        BY <1>1, <1>2
      <4>. QED
        BY <1>2, <4>1
    <3>. QED
      BY <3>2, <3>3 DEF Min2
  <2>. QED
    BY <2>2, <2>3
<1>11. t # <<>> => /\ t[1].first = from
                  /\ t[Len(t)].first + t[Len(t)].rows = from + Min2(n, to - from)
  <2>. SUFFICES ASSUME p # 0
                PROVE  /\ t[1].first = from
                       /\ t[p].first + t[p].rows = from + Min2(n, to - from)
    BY <1>7
  <2>1. 1 \in 1..p /\ p \in 1..p /\ 1 - 1 = 0
    BY <1>4
  <2>2. t[1].first = from
    <3>1. PICK a \in Nat, m \in Nat : a = u[1 - 1] /\ t[1] = [first |-> from + a, rows |-> m]
      BY <1>6, <2>1
    <3>2. a = 0
      BY <1>2, <2>1, <3>1
    <3>. QED
      BY <3>1, <3>2
  <2>3. PICK a \in Nat, b \in Nat, m \in Nat :
          /\ a = u[p - 1] /\ b = u[p] /\ a < n /\ a < b
          /\ t[p] = [first |-> from + a, rows |-> m] /\ m > 0
          /\ m = IF b <= n THEN b - a ELSE n - a
    BY <1>6, <2>1
  <2>a. a < n /\ a < b /\ m = IF b <= n THEN b - a ELSE n - a
    BY <2>3
  <2>4. from + b <= to
    BY <1>2, <2>3
  <2>5. CASE p = Len(s)
    <3>1. from + b = to
      BY <1>2, <2>3, <2>5
    <3>a. to - from = b
      BY <3>1
    <3>2. (from + a) + m = from + Min2(n, to - from)
      BY <2>a, <3>a DEF Min2
    <3>. QED
      BY <2>2, <2>3, <3>2
  <2>6. CASE p < Len(s)
    <3>1. n <= b
      BY <1>3, <2>3, <2>6
    <3>2. (from + a) + m = from + Min2(n, to - from)
      BY <2>a, <2>4, <3>1 DEF Min2
    <3>. QED
      BY <2>2, <2>3, <3>2
  <2>. QED
    BY <1>1, <1>4, <2>5, <2>6
<1>12. Run(t, from, from + Min2(n, to - from))
  BY <1>8, <1>9, <1>10, <1>11 DEF Run
<1>. QED
  BY <1>7, <1>12 DEF t

LEMMA RunCons ==
  ASSUME NEW s \in Seq(RowRuns), NEW from \in Nat, NEW to \in Nat, Run(s, from, to),
         NEW first \in Nat, NEW rows \in Nat, rows > 0, first + rows = from
  PROVE  LET t == <<[first |-> first, rows |-> rows]>> \o s
         IN  t \in Seq(RowRuns) /\ Run(t, first, to)
<1>. DEFINE b == [first |-> first, rows |-> rows]
<1>. DEFINE t == <<b>> \o s
<1>1. b \in RowRuns /\ b.first = first /\ b.rows = rows
  BY DEF RowRuns
<1>. HIDE DEF b
<1>2. /\ t \in Seq(RowRuns) /\ Len(t) = Len(s) + 1 /\ Len(s) \in Nat
      /\ t[1] = b
      /\ \A k \in 1..Len(s) : t[k + 1] = s[k]
  BY <1>1
<1>. HIDE DEF t
<1>3. ASSUME NEW k \in 1..Len(t), k # 1
      PROVE  k - 1 \in 1..Len(s) /\ t[k] = s[k - 1]
  <2>1. k - 1 \in 1..Len(s) /\ (k - 1) + 1 = k
    BY <1>2, <1>3
  <2>2. t[(k - 1) + 1] = s[k - 1]
    BY <1>2, <2>1
  <2>. QED
    BY <2>1, <2>2
<1>4. \A k \in 1..Len(t) : t[k].rows > 0
  <2>. SUFFICES ASSUME NEW k \in 1..Len(t) PROVE t[k].rows > 0
    OBVIOUS
  <2>1. CASE k = 1
    BY <1>1, <1>2, <2>1
  <2>2. CASE k # 1
    BY <1>3, <2>2 DEF Run
  <2>. QED
    BY <2>1, <2>2
<1>5. \A k \in 1..(Len(t) - 1) : t[k + 1].first = t[k].first + t[k].rows
  <2>. SUFFICES ASSUME NEW k \in 1..(Len(t) - 1) PROVE t[k + 1].first = t[k].first + t[k].rows
    OBVIOUS
  <2>1. k \in 1..Len(s) /\ t[k + 1] = s[k] /\ k \in 1..Len(t)
    BY <1>2
  <2>2. CASE k = 1
    <3>1. s # <<>>
      BY <1>2, <2>1
    <3>2. s[1].first = from
      BY <3>1 DEF Run
    <3>. QED
      BY <1>1, <1>2, <2>1, <2>2, <3>2
  <2>3. CASE k # 1
    <3>1. k - 1 \in 1..(Len(s) - 1) /\ (k - 1) + 1 = k /\ t[k] = s[k - 1]
      BY <1>2, <1>3, <2>1, <2>3
    <3>2. s[(k - 1) + 1].first = s[k - 1].first + s[k - 1].rows
      BY <3>1 DEF Run
    <3>. QED
      BY <2>1, <3>1, <3>2
  <2>. QED
    BY <2>2, <2>3
<1>6. t # <<>> /\ t[1].first = first
  BY <1>1, <1>2
<1>7. t[Len(t)].first + t[Len(t)].rows = to
  <2>1. CASE s = <<>>
    <3>1. from = to /\ Len(t) = 1
      BY <1>2, <2>1 DEF Run
    <3>. QED
      BY <1>1, <1>2, <3>1
  <2>2. CASE s # <<>>
    <3>1. Len(s) \in 1..Len(s)
      BY <1>2, <2>2
    <3>2. t[Len(t)] = s[Len(s)]
      BY <1>2, <3>1
    <3>. QED
      BY <2>2, <3>2 DEF Run
  <2>. QED
    BY <2>1, <2>2
<1>8. Run(t, first, to)
  BY <1>4, <1>5, <1>6, <1>7 DEF Run
<1>. QED
  BY <1>2, <1>8 DEF t, b

\* What stays in the buffer begins where what is taken ends.
LEMMA RestOfRowsRun ==
  ASSUME NEW s \in Seq(RowRuns), NEW from \in Nat, NEW to \in Nat, Run(s, from, to),
         NEW n \in Nat
  PROVE  /\ RestOfRows(s, n) \in Seq(RowRuns)
         /\ Run(RestOfRows(s, n), from + Min2(n, to - from), to)
<1>1. Len(s) \in Nat
  OBVIOUS
<1>2. PICK u \in [0..Len(s) -> Nat] :
        /\ u = RowsUpTo(s) /\ u[0] = 0
        /\ \A k \in 1..Len(s) :
             /\ s[k].first \in Nat /\ s[k].rows \in Nat /\ s[k].rows > 0
             /\ from + u[k - 1] = s[k].first
             /\ from + u[k] = s[k].first + s[k].rows
        /\ \A k \in 0..Len(s) : from + u[k] <= to
        /\ from + u[Len(s)] = to
  BY RunSums DEF RowCount
<1>3. PICK p \in 0..Len(s) :
        /\ p = Popped(s, n)
        /\ \A j \in 1..p : u[j - 1] < n
        /\ p < Len(s) => n <= u[p]
  BY <1>1, <1>2, PoppedStops
<1>4. p \in Nat /\ p <= Len(s)
  BY <1>1
<1>5. PICK b \in Nat : b = u[p] /\ from + b <= to /\ (p = Len(s) => from + b = to) /\ (p = 0 => b = 0)
  BY <1>2
<1>. DEFINE rest == SubSeq(s, p + 1, Len(s))
<1>6. /\ rest \in Seq(RowRuns) /\ Len(rest) = Len(s) - p
      /\ \A k \in 1..Len(rest) : rest[k] = s[p + k]
  <2>1. \A i \in (p + 1)..Len(s) : s[i] \in RowRuns
    BY <1>1, <1>4
  <2>2. /\ rest \in Seq(RowRuns)
        /\ Len(rest) = IF p + 1 <= Len(s) THEN Len(s) - (p + 1) + 1 ELSE 0
        /\ \A i \in 1..(Len(s) - (p + 1) + 1) : rest[i] = s[(p + 1) + i - 1]
    BY <1>1, <1>4, <2>1, SubSeqProperties
  <2>3. Len(rest) = Len(s) - p
    BY <1>1, <1>4, <2>2
  <2>4. \A k \in 1..Len(rest) : k \in 1..(Len(s) - (p + 1) + 1) /\ (p + 1) + k - 1 = p + k
    BY <1>1, <1>4, <2>3
  <2>. QED
    BY <2>2, <2>3, <2>4
<1>. HIDE DEF rest
<1>7. Run(rest, from + b, to)
  <2>1. \A k \in 1..Len(rest) : rest[k].rows > 0
    <3>. SUFFICES ASSUME NEW k \in 1..Len(rest) PROVE rest[k].rows > 0
      OBVIOUS
    <3>1. p + k \in 1..Len(s)
      BY <1>1, <1>4, <1>6
    <3>. QED
      BY <1>6, <3>1 DEF Run
  <2>2. \A k \in 1..(Len(rest) - 1) : rest[k + 1].first = rest[k].first + rest[k].rows
    <3>. SUFFICES ASSUME NEW k \in 1..(Len(rest) - 1)
                  PROVE  rest[k + 1].first = rest[k].first + rest[k].rows
      OBVIOUS
    <3>1. /\ p + k \in 1..(Len(s) - 1) /\ k \in 1..Len(rest) /\ k + 1 \in 1..Len(rest)
          /\ p + (k + 1) = (p + k) + 1
      BY <1>1, <1>4, <1>6
    <3>2. s[(p + k) + 1].first = s[p + k].first + s[p + k].rows
      BY <3>1 DEF Run
    <3>. QED
      BY <1>6, <3>1, <3>2
  <2>3. rest = <<>> => from + b = to
    BY <1>1, <1>4, <1>5, <1>6
  <2>4. rest # <<>> => rest[1].first = from + b /\ rest[Len(rest)].first + rest[Len(rest)].rows = to
    <3>. SUFFICES ASSUME rest # <<>>
                  PROVE  rest[1].first = from + b /\ rest[Len(rest)].first + rest[Len(rest)].rows = to
      OBVIOUS
    <3>1. /\ 1 \in 1..Len(rest) /\ Len(rest) \in 1..Len(rest)
          /\ p + 1 \in 1..Len(s) /\ p + Len(rest) = Len(s) /\ (p + 1) - 1 = p
          /\ s # <<>>
      BY <1>1, <1>4, <1>6
    <3>2. from + u[(p + 1) - 1] = s[p + 1].first
      BY <1>2, <3>1
    <3>3. s[Len(s)].first + s[Len(s)].rows = to
      BY <3>1 DEF Run
    <3>4. rest[1] = s[p + 1] /\ rest[Len(rest)] = s[Len(s)]
      BY <1>6, <3>1
    <3>. QED
      BY <1>5, <3>1, <3>2, <3>3, <3>4
  <2>. QED
    BY <2>1, <2>2, <2>3, <2>4 DEF Run
<1>8. CASE p > 0 /\ b - n > 0
  <2>1. p \in 1..Len(s) /\ p - 1 \in 0..Len(s) /\ p \in 1..p
    BY <1>1, <1>4, <1>8
  <2>2. PICK a \in Nat, f \in Nat, r \in Nat : a = u[p - 1] /\ f = s[p].first /\ r = s[p].rows
    BY <1>2, <2>1
  <2>3. from + a = f /\ from + b = f + r /\ a < n
    BY <1>2, <1>3, <1>5, <2>1, <2>2
  <2>4. RestOfRows(s, n) = <<[first |-> f + (r - (b - n)), rows |-> b - n]>> \o rest
    BY <1>2, <1>3, <1>5, <1>8, <2>2 DEF RestOfRows, Slice, rest
  <2>5. f + (r - (b - n)) = from + n /\ b - n \in Nat /\ (from + n) + (b - n) = from + b
    BY <1>8, <2>3
  <2>6. Min2(n, to - from) = n
    BY <1>5, <1>8 DEF Min2
  <2>. DEFINE over == b - n
  <2>. DEFINE t == <<[first |-> from + n, rows |-> over]>> \o rest
  <2>7. over \in Nat /\ over > 0 /\ from + n \in Nat /\ (from + n) + over = from + b /\ from + b \in Nat
    BY <1>8, <2>5
  <2>. HIDE DEF over
  <2>8. t \in Seq(RowRuns) /\ Run(t, from + n, to)
    BY <1>6, <1>7, <2>7, RunCons
  <2>9. RestOfRows(s, n) = t
    BY <2>4, <2>5 DEF over
  <2>. QED
    BY <2>6, <2>8, <2>9
<1>9. CASE ~(p > 0 /\ b - n > 0)
  <2>1. RestOfRows(s, n) = rest
    BY <1>2, <1>3, <1>5, <1>9 DEF RestOfRows, rest
  <2>2. from + b = from + Min2(n, to - from)
    <3>1. CASE p < Len(s)
      <4>1. n <= b
        BY <1>3, <1>5, <3>1
      <4>2. b = n
        BY <1>4, <1>5, <1>9, <4>1
      <4>3. n <= to - from
        BY <1>5, <4>2
      <4>. QED
        BY <4>2, <4>3 DEF Min2
    <3>2. CASE p = Len(s)
      <4>1. to - from = b
        BY <1>5, <3>2
      <4>2. b <= n
        BY <1>4, <1>5, <1>9
      <4>. QED
        BY <4>1, <4>2 DEF Min2
    <3>. QED
      BY <1>1, <1>4, <3>1, <3>2
  <2>. QED
    BY <1>6, <1>7, <2>1, <2>2
<1>. QED
  BY <1>8, <1>9

-----------------------------------------------------------------------------
(* The result and the initial state.                                        *)

LEMMA ChunkSums ==
  ASSUME chunks \in Results
  PROVE  /\ chunks \in Seq([rows : Nat, estimate : Nat]) /\ Len(chunks) \in Nat
         /\ \A i \in 1..Len(chunks) : chunks[i].rows \in Nat /\ chunks[i].estimate \in Nat
         /\ RowsBefore(0) = 0
         /\ \A i \in 0..Len(chunks) : RowsBefore(i) \in Nat /\ RowsBefore(i) <= TotalRows
         /\ \A i \in 1..Len(chunks) : RowsBefore(i) = RowsBefore(i - 1) + chunks[i].rows
         /\ TotalRows = RowsBefore(Len(chunks))
         /\ TotalRows \in Nat /\ TotalRows < Everything /\ Everything \in Nat
<1>1. chunks \in Seq([rows : Nat, estimate : Nat]) /\ Len(chunks) \in Nat
  BY ResultsAssumption
<1>2. \A i \in 1..Len(chunks) : chunks[i].rows \in Nat /\ chunks[i].estimate \in Nat
  <2>. SUFFICES ASSUME NEW i \in 1..Len(chunks)
                PROVE  chunks[i].rows \in Nat /\ chunks[i].estimate \in Nat
    OBVIOUS
  <2>1. chunks[i] \in [rows : Nat, estimate : Nat]
    BY <1>1, ElementOfSeq
  <2>. QED
    BY <2>1
<1>3. PICK u : u = RowsUpTo(chunks)
  OBVIOUS
<1>4. /\ u \in [0..Len(chunks) -> Nat]
      /\ u[0] = 0
      /\ \A i \in 1..Len(chunks) : u[i] = u[i - 1] + chunks[i].rows
  BY <1>1, <1>2, <1>3, RowsUpToSums
<1>5. \A i \in 0..Len(chunks) : u[i] <= u[Len(chunks)]
  BY <1>1, <1>2, <1>3, PrefixIsLess
<1>6. TotalRows = u[Len(chunks)] /\ \A i : RowsBefore(i) = u[i]
  BY <1>3 DEF TotalRows, RowCount, RowsBefore
<1>7. TotalRows < Everything /\ Everything \in Nat
  BY EverythingAssumption DEF TotalRows
<1>8. \A i \in 0..Len(chunks) : RowsBefore(i) \in Nat /\ RowsBefore(i) <= TotalRows
  BY <1>4, <1>5, <1>6
<1>9. TotalRows \in Nat
  <2>1. Len(chunks) \in 0..Len(chunks)
    BY <1>1
  <2>. QED
    BY <1>4, <1>6, <2>1
<1>. QED
  BY <1>1, <1>2, <1>4, <1>6, <1>7, <1>8, <1>9

LEMMA RunOfNone ==
  ASSUME NEW n \in Nat
  PROVE  Run(<<>>, n, n) /\ RowsIn(<<>>) = {} /\ <<>> \in Seq(RowRuns)
  BY DEF Run, RowsIn

LEMMA InitStream == Init => StreamInv
<1>. SUFFICES ASSUME Init PROVE StreamInv
  OBVIOUS
<1>. USE DEF Init
<1>1. Typed
  <2>1. <<>> \in Seq(RowRuns) /\ <<>> \in Seq(ChunkBlobs) /\ <<>> \in Seq(DOMAIN chunks)
    OBVIOUS
  <2>. QED
    BY <2>1 DEF Typed, Source!Init, Fetching, Over, Schemas
<1>2. pulled = <<>> /\ source = "reading" /\ handles = <<>>
  BY DEF Source!Init
<1>3. SourceInv
  BY <1>1, <1>2, ChunkSums DEF SourceInv, Typed, Decoded
<1>4. LockInv
  BY <1>2 DEF LockInv, LockFree, Fetching
<1>5. ReportInv
  BY DEF ReportInv, Outcomes
<1>6. BufferInv
  <2>1. 0 \in 0..TotalRows /\ RowsBefore(0) = 0 /\ TotalRows \in Nat
    BY ChunkSums
  <2>2. Run(<<>>, 0, 0) /\ RowsIn(<<>>) = {}
    BY RunOfNone
  <2>3. \A c \in Calls : RowsIn(result[c]) = {}
    BY <2>2
  <2>4. UNION {RowsIn(result[c]) : c \in Calls} = 0..(0 - 1)
    BY <2>3
  <2>5. Decoded = 0
    BY <1>2 DEF Decoded
  <2>6. BufferFrom(0)
    BY <2>1, <2>2, <2>4, <2>5 DEF BufferFrom
  <2>. QED
    BY <2>1, <2>2, <2>3, <2>6 DEF BufferInv
<1>7. ShortInv
  BY DEF ShortInv, Completed
<1>. QED
  BY <1>1, <1>3, <1>4, <1>5, <1>6, <1>7 DEF StreamInv

-----------------------------------------------------------------------------
(* What a step leaves as it was.                                            *)

LEMMA BufferStays ==
  ASSUME BufferInv, UNCHANGED <<chunks, pending, pendingRows, result>>,
         \A d \in Calls : Completed(d) => Completed(d)',
         ~poisoned' => ~poisoned /\ Decoded' = Decoded
  PROVE  BufferInv'
<1>1. TotalRows' = TotalRows /\ RowsBefore(Decoded)' = RowsUpTo(chunks)[Decoded']
  BY DEF TotalRows, RowsBefore
<1>2. ASSUME NEW front \in 0..TotalRows, BufferFrom(front) PROVE BufferFrom(front)'
  BY <1>1, <1>2 DEF BufferFrom, RowsBefore
<1>3. ASSUME NEW d \in Calls, NEW from, NEW to, Run(result[d], from, to)
      PROVE  Run(result[d], from, to)'
  BY <1>3
<1>. QED
  BY <1>1, <1>2, <1>3 DEF BufferInv

LEMMA ShortStays ==
  ASSUME ShortInv, UNCHANGED result,
         \A d \in Calls : Completed(d)' => Completed(d) /\ want'[d] = want[d],
         exhausted /\ ~poisoned /\ handles = <<>> /\ pendingRows = 0 /\ schema \in {"known", "none"}
           => (exhausted /\ ~poisoned /\ handles = <<>> /\ pendingRows = 0 /\ schema \in {"known", "none"})'
  PROVE  ShortInv'
<1>1. \A d \in Calls : RowCount(result[d])' = RowCount(result[d])
  OBVIOUS
<1>. QED
  BY <1>1 DEF ShortInv

LEMMA LockStays ==
  ASSUME LockInv, UNCHANGED <<poisoned, handles>>,
         \A d \in Calls : (call[d] \in Fetching)' <=> call[d] \in Fetching
  PROVE  LockInv'
  BY DEF LockInv, LockFree

\* A step that moves no chunk, row or outcome keeps the invariant if it keeps
\* the lock.
LEMMA CallStepStream ==
  ASSUME StreamInv, Typed', LockInv',
         UNCHANGED <<sourceVars, bufferVars, exhausted, poisoned, handles, result, reports>>,
         \A d \in Calls : Completed(d)' <=> Completed(d),
         \A d \in Calls : Completed(d) => want'[d] = want[d]
  PROVE  StreamInv'
<1>. USE DEF StreamInv, sourceVars, bufferVars
<1>1. SourceInv'
  BY DEF SourceInv, Decoded
<1>2. ReportInv'
  BY DEF ReportInv
<1>3. BufferInv'
  BY BufferStays DEF Decoded
<1>4. ShortInv'
  BY ShortStays
<1>. QED
  BY <1>1, <1>2, <1>3, <1>4

LEMMA StartStream == ASSUME StreamInv, NEW c \in Calls, Start(c) PROVE StreamInv'
<1>. USE DEF Start, Become, Fetching, sourceVars, bufferVars, fetchVars, statsVars
<1>1. Typed'
  BY DEF StreamInv, Typed, ChunkBlobs, Over, Calls
<1>2. LockInv'
  BY LockStays DEF StreamInv, Typed
<1>3. \A d \in Calls : (Completed(d)' <=> Completed(d)) /\ (Completed(d) => want'[d] = want[d])
  BY DEF StreamInv, Typed, Completed
<1>. QED
  BY <1>1, <1>2, <1>3, CallStepStream

LEMMA EnterStream == ASSUME StreamInv, NEW c \in Calls, Enter(c) PROVE StreamInv'
<1>. USE DEF Enter, Become, Fetching, sourceVars, bufferVars, fetchVars, statsVars
<1>1. Typed'
  BY DEF StreamInv, Typed, ChunkBlobs, Over
<1>2. LockInv'
  BY DEF StreamInv, Typed, LockInv, LockFree
<1>3. \A d \in Calls : Completed(d)' <=> Completed(d)
  BY DEF StreamInv, Typed, Completed
<1>. QED
  BY <1>1, <1>2, <1>3, CallStepStream

LEMMA StartDecodingStream == ASSUME StreamInv, NEW c \in Calls, StartDecoding(c) PROVE StreamInv'
<1>. USE DEF StartDecoding, Become, Fetching, sourceVars, bufferVars, fetchVars, statsVars
<1>1. Typed'
  BY DEF StreamInv, Typed, ChunkBlobs, Over
<1>2. LockInv'
  BY LockStays DEF StreamInv, Typed
<1>3. \A d \in Calls : Completed(d)' <=> Completed(d)
  BY DEF StreamInv, Typed, Completed
<1>. QED
  BY <1>1, <1>2, <1>3, CallStepStream

LEMMA PullAgainStream == ASSUME StreamInv, NEW c \in Calls, PullAgain(c) PROVE StreamInv'
<1>. USE DEF PullAgain, BatchDecoded, Become, Fetching, sourceVars, bufferVars, statsVars
<1>1. Typed'
  BY DEF StreamInv, Typed, ChunkBlobs, Over
<1>2. LockInv'
  BY LockStays DEF StreamInv, Typed
<1>3. \A d \in Calls : Completed(d)' <=> Completed(d)
  BY DEF StreamInv, Typed, Completed
<1>. QED
  BY <1>1, <1>2, <1>3, CallStepStream

\* The ticks, and what ends a wait.
LEMMA WaitStepStream ==
  ASSUME StreamInv, NEW c \in Streamed,
         TickResult(c) \/ TickOverrun(c) \/ OverrunRaised(c) \/ DropWait(c)
  PROVE  StreamInv'
<1>. USE DEF TickResult, TickOverrun, OverrunRaised, DropWait, WaitBecomes, StoreHint, SetsWaitOnly,
             Become, Fetching, sourceVars, bufferVars, fetchVars
<1>. c \in Calls
  BY DEF Calls
<1>1. Typed'
  BY DEF StreamInv, Typed, ChunkBlobs, Over
<1>2. LockInv'
  BY LockStays DEF StreamInv, Typed
<1>3. \A d \in Calls : Completed(d)' <=> Completed(d)
  BY DEF StreamInv, Typed, Completed
<1>. QED
  BY <1>1, <1>2, <1>3, CallStepStream

-----------------------------------------------------------------------------
(* Failures.                                                                *)

\* A call that holds the lock finds the stream whole.
LEMMA HolderFindsItWhole ==
  ASSUME StreamInv, NEW c \in Calls, call[c] \in Fetching
  PROVE  /\ ~poisoned /\ source # "failed" /\ reports \in {<<>>, <<"success">>}
         /\ \A d \in Calls : call[d] \in Fetching => d = c
<1>1. ~poisoned /\ \A d \in Calls : call[d] \in Fetching => d = c
  BY DEF StreamInv, LockInv, LockFree
<1>2. source # "failed"
  BY <1>1 DEF StreamInv, SourceInv
<1>3. reports \in {<<>>, <<"success">>}
  BY <1>1 DEF StreamInv, ReportInv
<1>. QED
  BY <1>1, <1>2, <1>3

\* The end of a fetch that was not complete.
LEMMA FetchLostStream ==
  ASSUME StreamInv, NEW c \in Calls, call[c] \in Fetching,
         ~exhausted \/ handles # <<>> \/ schema = "untypable",
         DropFetch,
         NEW outcome \in Outcomes \ {"success"}, Finish(outcome),
         NEW state \in Over \ {"ready", "answered"}, Become(c, state),
         UNCHANGED <<chunks, pulled, bufferVars, exhausted, want, result, wait, hint>>,
         source' = source \/ (source = "reading" /\ source' = "failed")
  PROVE  StreamInv'
<1>. USE DEF StreamInv, DropFetch, LeavePoison, Become, bufferVars
<1>1. ~poisoned /\ reports = <<>> /\ \A d \in Calls : call[d] \in Fetching => d = c
  BY HolderFindsItWhole DEF ReportInv
<1>2. reports' = <<outcome>>
  BY <1>1 DEF Finish
<1>3. Typed'
  <2>1. <<>> \in Seq(DOMAIN chunks)
    OBVIOUS
  <2>. QED
    BY <2>1 DEF Typed, ChunkBlobs
<1>4. SourceInv'
  BY DEF SourceInv, Decoded, Typed
<1>5. LockInv'
  BY <1>1 DEF LockInv, LockFree, Typed, Over, Fetching
<1>6. ReportInv'
  BY <1>2 DEF ReportInv, Outcomes
<1>7. \A d \in Calls : Completed(d)' <=> Completed(d)
  BY DEF Typed, Completed, Fetching
<1>8. BufferInv'
  BY <1>7, BufferStays
<1>9. ShortInv'
  <2>1. ~(exhausted /\ handles = <<>> /\ schema \in {"known", "none"})
    OBVIOUS
  <2>. QED
    BY <1>7, <2>1, ShortStays
<1>. QED
  BY <1>3, <1>4, <1>5, <1>6, <1>8, <1>9

LEMMA PullErrorStream == ASSUME StreamInv, NEW c \in Calls, Pulling(c), PullError(c) PROVE StreamInv'
<1>. DEFINE state == IF c \in Streamed THEN "error" ELSE "failed"
<1>1. call[c] \in Fetching /\ ~exhausted
  BY DEF Pulling, PullsMore, Fetching
<1>2. /\ DropFetch /\ Finish("error") /\ Become(c, state)
      /\ UNCHANGED <<chunks, pulled, bufferVars, exhausted, want, result, wait, hint>>
      /\ source = "reading" /\ source' = "failed"
  BY DEF PullError, Fail, Source!Fail
<1>3. "error" \in Outcomes \ {"success"} /\ state \in Over \ {"ready", "answered"}
  BY DEF Outcomes, Over
<1>. HIDE DEF state
<1>. QED
  BY <1>1, <1>2, <1>3, FetchLostStream

LEMMA DecodeErrorStream == ASSUME StreamInv, NEW c \in Calls, Decoding(c), DecodeError(c) PROVE StreamInv'
<1>. DEFINE state == IF c \in Streamed THEN "error" ELSE "failed"
<1>1. call[c] \in Fetching /\ handles # <<>>
  BY DEF Decoding, Fetching
<1>2. /\ DropFetch /\ Finish("error") /\ Become(c, state)
      /\ UNCHANGED <<chunks, pulled, bufferVars, exhausted, want, result, wait, hint>>
      /\ source' = source
  BY DEF DecodeError, Fail, sourceVars
<1>3. "error" \in Outcomes \ {"success"} /\ state \in Over \ {"ready", "answered"}
  BY DEF Outcomes, Over
<1>. HIDE DEF state
<1>. QED
  BY <1>1, <1>2, <1>3, FetchLostStream

LEMMA SchemaErrorStream == ASSUME StreamInv, NEW c \in Calls, SchemaError(c) PROVE StreamInv'
<1>. DEFINE state == IF c \in Streamed THEN "error" ELSE "failed"
<1>1. call[c] \in Fetching /\ schema = "untypable"
  BY DEF SchemaError, BatchDecoded, Fetching
<1>2. /\ DropFetch /\ Finish("error") /\ Become(c, state)
      /\ UNCHANGED <<chunks, pulled, bufferVars, exhausted, want, result, wait, hint>>
      /\ source' = source
  BY DEF SchemaError, Fail, sourceVars
<1>3. "error" \in Outcomes \ {"success"} /\ state \in Over \ {"ready", "answered"}
  BY DEF Outcomes, Over
<1>. HIDE DEF state
<1>. QED
  BY <1>1, <1>2, <1>3, FetchLostStream

LEMMA DropFutureStream == ASSUME StreamInv, NEW c \in Calls, DropFuture(c) PROVE StreamInv'
<1>1. CASE call[c] \in Fetching
  <2>. DEFINE outcome == IF hint = "unset" THEN "cancelled" ELSE hint
  <2>1. ~exhausted \/ handles # <<>>
    BY <1>1 DEF DropFuture, AtAwait, Pulling, PullsMore, Decoding, Fetching
  <2>2. /\ DropFetch /\ Finish(outcome) /\ Become(c, "abandoned")
        /\ UNCHANGED <<chunks, pulled, bufferVars, exhausted, want, result, wait, hint>>
        /\ source' = source
    BY <1>1 DEF DropFuture, sourceVars
  <2>3. outcome \in Outcomes \ {"success"} /\ "abandoned" \in Over \ {"ready", "answered"}
    BY DEF Outcomes, Over, StreamInv, Typed
  <2>. HIDE DEF outcome
  <2>. QED
    BY <1>1, <2>1, <2>2, <2>3, FetchLostStream
<1>2. CASE call[c] \notin Fetching
  <2>. USE DEF DropFuture, Become, Fetching, fetchVars
  <2>1. call[c] = "waiting"
    BY <1>2 DEF AtAwait, Pulling, Decoding
  <2>2. Typed'
    BY <1>2 DEF StreamInv, Typed, ChunkBlobs, Over, bufferVars, sourceVars
  <2>3. LockInv'
    BY <1>2, <2>1, LockStays DEF StreamInv, Typed
  <2>4. \A d \in Calls : Completed(d)' <=> Completed(d)
    BY <2>1 DEF StreamInv, Typed, Completed
  <2>. QED
    BY <1>2, <2>2, <2>3, <2>4, CallStepStream
<1>. QED
  BY <1>1, <1>2

-----------------------------------------------------------------------------
(* The source.                                                              *)

\* What has been pulled is the first chunks of the result.
LEMMA PulledFirst ==
  ASSUME StreamInv
  PROVE  /\ Len(pulled) \in Nat /\ Len(handles) \in Nat /\ Len(chunks) \in Nat
         /\ Decoded \in Nat /\ Len(pulled) <= Len(chunks)
         /\ \A n \in 1..Len(pulled) : [index |-> n, link |-> 1] \in Source!Given
         /\ \A b \in Source!Given : b.index \in 1..Len(pulled)
         /\ \A n \in 1..Len(chunks) : [index |-> n, link |-> 1] \in ChunkBlobs
         /\ \A b \in ChunkBlobs : b.index \in 1..Len(chunks) /\ b = [index |-> b.index, link |-> 1]
<1>1. /\ Len(pulled) \in Nat /\ Len(handles) \in Nat /\ DOMAIN pulled = 1..Len(pulled)
      /\ Len(chunks) \in Nat /\ DOMAIN chunks = 1..Len(chunks)
  BY ChunkSums DEF StreamInv, Typed
<1>2. Decoded \in Nat /\ Len(pulled) <= Len(chunks)
  BY DEF StreamInv, SourceInv
<1>3. \A n \in 1..Len(pulled) : pulled[n] = [index |-> n, link |-> 1]
  <2>1. pulled = [n \in 1..Len(pulled) |-> [index |-> n, link |-> 1]]
    BY DEF StreamInv, SourceInv
  <2>. QED
    BY <2>1
<1>4. \A n \in 1..Len(pulled) : [index |-> n, link |-> 1] \in Source!Given
  BY <1>1, <1>3 DEF Source!Given
<1>5. \A b \in Source!Given : b.index \in 1..Len(pulled)
  BY <1>1, <1>3 DEF Source!Given
<1>6. \A n \in 1..Len(chunks) : [index |-> n, link |-> 1] \in ChunkBlobs
  BY <1>1 DEF ChunkBlobs
<1>7. \A b \in ChunkBlobs : b.index \in 1..Len(chunks) /\ b = [index |-> b.index, link |-> 1]
  BY <1>1 DEF ChunkBlobs
<1>. QED
  BY <1>1, <1>2, <1>4, <1>5, <1>6, <1>7

\* Only the next chunk can be delivered.
LEMMA DeliversNext ==
  ASSUME StreamInv, NEW blob \in ChunkBlobs, Source!Deliver(blob)
  PROVE  blob = [index |-> Len(pulled) + 1, link |-> 1] /\ Len(pulled) + 1 \in 1..Len(chunks)
<1>1. blob \notin Source!Given /\ \A a \in ChunkBlobs : a.index < blob.index => a \in Source!Given
  BY DEF Source!Deliver, Source!Precedes
<1>2. blob.index \in 1..Len(chunks) /\ blob = [index |-> blob.index, link |-> 1]
  BY PulledFirst
<1>3. ~(blob.index <= Len(pulled))
  <2>1. blob.index \in 1..Len(pulled) => blob \in Source!Given
    BY <1>2, PulledFirst
  <2>. QED
    BY <1>1, <1>2, <2>1, PulledFirst
<1>4. ~(Len(pulled) + 1 < blob.index)
  <2>. SUFFICES ASSUME Len(pulled) + 1 < blob.index PROVE FALSE
    OBVIOUS
  <2>. DEFINE a == [index |-> Len(pulled) + 1, link |-> 1]
  <2>1. a \in ChunkBlobs /\ a.index < blob.index
    BY <1>2, PulledFirst
  <2>2. a \in Source!Given
    BY <1>1, <2>1
  <2>3. Len(pulled) + 1 \in 1..Len(pulled)
    BY <2>2, PulledFirst
  <2>. QED
    BY <2>3, PulledFirst
<1>5. blob.index = Len(pulled) + 1
  BY <1>2, <1>3, <1>4, PulledFirst
<1>. QED
  BY <1>2, <1>5

LEMMA PullChunkStream == ASSUME StreamInv, NEW c \in Calls, Pulling(c), PullChunk(c) PROVE StreamInv'
<1>1. PICK blob \in ChunkBlobs :
        /\ Source!Deliver(blob)
        /\ handles' = Append(handles, blob.index)
        /\ estimated' = estimated + chunks[blob.index].estimate
  BY DEF PullChunk
<1>. DEFINE i == Len(pulled) + 1
<1>2. blob = [index |-> i, link |-> 1] /\ i \in 1..Len(chunks)
  BY <1>1, DeliversNext
<1>3. /\ pulled' = Append(pulled, blob) /\ handles' = Append(handles, i) /\ source = "reading"
      /\ UNCHANGED <<source, chunks, bufferVars, exhausted, poisoned, callVars, statsVars>>
  BY <1>1, <1>2 DEF PullChunk, Source!Deliver
<1>4. call[c] \in Fetching /\ ~exhausted
  BY DEF Pulling, PullsMore, Fetching
<1>5. ~poisoned /\ reports = <<>>
  BY <1>4, HolderFindsItWhole DEF StreamInv, ReportInv
<1>6. /\ Len(pulled) \in Nat /\ Len(handles) \in Nat /\ Decoded \in Nat /\ Len(chunks) \in Nat
      /\ pulled \in Seq(ChunkBlobs) /\ handles \in Seq(DOMAIN chunks) /\ i \in DOMAIN chunks
  BY <1>2, PulledFirst DEF StreamInv, Typed
<1>7. /\ Len(pulled') = Len(pulled) + 1 /\ Len(handles') = Len(handles) + 1 /\ Decoded' = Decoded
      /\ pulled' \in Seq(ChunkBlobs) /\ handles' \in Seq(DOMAIN chunks)
  BY <1>3, <1>6 DEF Decoded
<1>8. Typed'
  <2>1. estimated' \in Nat
    <3>1. chunks[i].estimate \in Nat /\ estimated' = estimated + chunks[i].estimate /\ estimated \in Nat
      BY <1>1, <1>2, ChunkSums DEF StreamInv, Typed
    <3>. QED
      BY <3>1
  <2>. QED
    BY <1>3, <1>7, <2>1 DEF StreamInv, Typed, ChunkBlobs, bufferVars, callVars, statsVars
<1>9. SourceInv'
  <2>1. pulled' = [n \in 1..Len(pulled') |-> [index |-> n, link |-> 1]]
    <3>1. pulled = [n \in 1..Len(pulled) |-> [index |-> n, link |-> 1]]
      BY DEF StreamInv, SourceInv
    <3>. QED
      BY <1>2, <1>3, <1>6, <1>7, <3>1
  <2>2. handles' = [n \in 1..Len(handles') |-> Decoded + n]
    <3>1. handles = [n \in 1..Len(handles) |-> Decoded + n]
      BY DEF StreamInv, SourceInv
    <3>2. i = Decoded + (Len(handles) + 1)
      BY <1>6 DEF Decoded
    <3>. HIDE DEF i
    <3>. QED
      BY <1>3, <1>6, <1>7, <3>1, <3>2
  <2>. QED
    BY <1>2, <1>3, <1>5, <1>6, <1>7, <2>1, <2>2, SMTT(30) DEF StreamInv, SourceInv
<1>10. LockInv'
  BY <1>3, <1>4, <1>5 DEF StreamInv, LockInv, LockFree, callVars
<1>11. ReportInv'
  BY <1>3, <1>5 DEF StreamInv, ReportInv, statsVars
<1>12. \A d \in Calls : Completed(d)' <=> Completed(d)
  BY <1>3 DEF Completed, callVars
<1>13. BufferInv'
  BY <1>3, <1>5, <1>7, <1>12, BufferStays DEF StreamInv, bufferVars, callVars
<1>14. ShortInv'
  BY <1>3, <1>4, <1>12, ShortStays DEF StreamInv, callVars
<1>. QED
  BY <1>8, <1>9, <1>10, <1>11, <1>13, <1>14 DEF StreamInv

LEMMA PullEndStream == ASSUME StreamInv, NEW c \in Calls, Pulling(c), PullEnd(c) PROVE StreamInv'
<1>1. /\ source' = "done" /\ exhausted' = TRUE /\ ChunkBlobs \subseteq Source!Given
      /\ UNCHANGED <<chunks, pulled, bufferVars, poisoned, fetchVars, callVars, statsVars>>
  BY DEF PullEnd, Source!End
<1>2. Len(pulled) = Len(chunks)
  <2>. SUFFICES ASSUME Len(pulled) # Len(chunks) PROVE FALSE
    OBVIOUS
  <2>1. Len(pulled) + 1 \in 1..Len(chunks)
    BY PulledFirst
  <2>. DEFINE a == [index |-> Len(pulled) + 1, link |-> 1]
  <2>2. a \in Source!Given
    BY <1>1, <2>1, PulledFirst
  <2>3. Len(pulled) + 1 \in 1..Len(pulled)
    BY <2>2, PulledFirst
  <2>. QED
    BY <2>3, PulledFirst
<1>. USE DEF StreamInv, bufferVars, fetchVars, callVars, statsVars
<1>3. Typed'
  BY <1>1 DEF Typed, ChunkBlobs
<1>4. SourceInv'
  BY <1>1, <1>2 DEF SourceInv, Decoded
<1>5. LockInv'
  BY <1>1 DEF LockInv, LockFree
<1>6. ReportInv'
  BY <1>1 DEF ReportInv
<1>7. \A d \in Calls : Completed(d)' <=> Completed(d)
  BY <1>1 DEF Completed
<1>8. BufferInv'
  BY <1>1, <1>7, BufferStays DEF Decoded
<1>9. ShortInv'
  BY <1>1, <1>7, ShortStays
<1>. QED
  BY <1>3, <1>4, <1>5, <1>6, <1>8, <1>9

-----------------------------------------------------------------------------
(* The buffer.                                                              *)

\* The chunk decoded next is the one after those that have been.
LEMMA NextDecoded ==
  ASSUME StreamInv, handles # <<>>
  PROVE  /\ Head(handles) = Decoded + 1 /\ Head(handles) \in 1..Len(chunks)
         /\ Tail(handles) \in Seq(DOMAIN chunks)
         /\ Len(Tail(handles)) = Len(handles) - 1
         /\ Tail(handles) = [n \in 1..(Len(handles) - 1) |-> (Decoded + 1) + n]
         /\ Len(pulled) - (Len(handles) - 1) = Decoded + 1
<1>1. handles = [n \in 1..Len(handles) |-> Decoded + n]
  BY DEF StreamInv, SourceInv
<1>2. /\ Len(handles) \in Nat /\ Decoded \in Nat /\ Len(pulled) \in Nat /\ Len(chunks) \in Nat
      /\ Len(pulled) <= Len(chunks) /\ handles \in Seq(DOMAIN chunks)
  BY PulledFirst DEF StreamInv, Typed
<1>3. Len(handles) # 0
  BY <1>2
<1>4. Head(handles) = Decoded + 1
  BY <1>1, <1>2, <1>3
<1>5. Len(pulled) - (Len(handles) - 1) = Decoded + 1 /\ Decoded + 1 \in 1..Len(chunks)
  BY <1>2, <1>3 DEF Decoded
<1>6. /\ Tail(handles) \in Seq(DOMAIN chunks) /\ Len(Tail(handles)) = Len(handles) - 1
      /\ \A n \in 1..(Len(handles) - 1) : Tail(handles)[n] = handles[n + 1]
      /\ Tail(handles) = [n \in 1..Len(Tail(handles)) |-> Tail(handles)[n]]
  <2>1. /\ Tail(handles) \in Seq(DOMAIN chunks) /\ Len(Tail(handles)) = Len(handles) - 1
        /\ \A n \in 1..Len(Tail(handles)) : Tail(handles)[n] = handles[n + 1]
    BY <1>2, <1>3, HeadTailProperties
  <2>2. Tail(handles) \in [1..Len(Tail(handles)) -> DOMAIN chunks]
    BY <2>1, LenProperties
  <2>3. Tail(handles) = [n \in 1..Len(Tail(handles)) |-> Tail(handles)[n]]
    BY <2>2
  <2>. QED
    BY <2>1, <2>3
<1>7. \A n \in 1..(Len(handles) - 1) : Tail(handles)[n] = (Decoded + 1) + n
  <2>. SUFFICES ASSUME NEW n \in 1..(Len(handles) - 1) PROVE handles[n + 1] = (Decoded + 1) + n
    BY <1>6
  <2>1. n + 1 \in 1..Len(handles)
    BY <1>2
  <2>2. handles[n + 1] = Decoded + (n + 1)
    BY <1>1, <2>1
  <2>. QED
    BY <1>2, <2>2
<1>8. Tail(handles) = [n \in 1..(Len(handles) - 1) |-> (Decoded + 1) + n]
  BY <1>6, <1>7
<1>. QED
  BY <1>4, <1>5, <1>6, <1>8

LEMMA DecodeOkStream == ASSUME StreamInv, NEW c \in Calls, Decoding(c), DecodeOk(c) PROVE StreamInv'
<1>. DEFINE i == Head(handles)
<1>1. call[c] \in Fetching /\ handles # <<>>
  BY DEF Decoding, Fetching
<1>2. /\ ~poisoned /\ reports = <<>>
  BY <1>1, HolderFindsItWhole DEF StreamInv, ReportInv
<1>3. /\ i = Decoded + 1 /\ i \in 1..Len(chunks) /\ Decoded \in Nat
      /\ handles' = Tail(handles) /\ handles' \in Seq(DOMAIN chunks)
      /\ Len(handles') = Len(handles) - 1 /\ Decoded' = i
      /\ handles' = [n \in 1..Len(handles') |-> i + n]
      /\ UNCHANGED <<sourceVars, exhausted, poisoned, estimated, callVars, statsVars>>
      /\ schema' = "known"
  BY <1>1, NextDecoded, PulledFirst DEF DecodeOk, Decoded, sourceVars
<1>4. PICK rows \in Nat, before \in Nat :
        /\ rows = chunks[i].rows /\ before = RowsBefore(i - 1)
        /\ RowsBefore(i) = before + rows /\ before + rows <= TotalRows
        /\ i - 1 = Decoded
  <2>1. chunks \in Results
    BY DEF StreamInv, Typed
  <2>. HIDE DEF i
  <2>2. i \in 0..Len(chunks) /\ i - 1 \in 0..Len(chunks) /\ i - 1 = Decoded
    BY <1>3, PulledFirst
  <2>3. /\ chunks[i].rows \in Nat /\ RowsBefore(i - 1) \in Nat
        /\ RowsBefore(i) = RowsBefore(i - 1) + chunks[i].rows /\ RowsBefore(i) <= TotalRows
    BY <1>3, <2>1, <2>2, ChunkSums
  <2>. QED
    BY <2>2, <2>3
<1>5. /\ pending' = IF rows = 0 THEN pending ELSE Append(pending, [first |-> before, rows |-> rows])
      /\ pendingRows' = pendingRows + rows
  BY <1>4 DEF DecodeOk, DecodedBatch
<1>6. PICK front \in 0..TotalRows : BufferFrom(front)
  BY DEF StreamInv, BufferInv
<1>7. /\ front \in Nat /\ pendingRows \in Nat /\ TotalRows \in Nat /\ pending \in Seq(RowRuns)
      /\ front + pendingRows = before
      /\ Run(pending, front, front + pendingRows)
      /\ UNION {RowsIn(result[d]) : d \in Calls} = 0..(front - 1)
  <2>1. /\ front + pendingRows = RowsBefore(Decoded)
        /\ Run(pending, front, front + pendingRows)
        /\ UNION {RowsIn(result[d]) : d \in Calls} = 0..(front - 1)
    BY <1>2, <1>6 DEF BufferFrom
  <2>2. pendingRows \in Nat /\ pending \in Seq(RowRuns) /\ TotalRows \in Nat
    BY ChunkSums DEF StreamInv, Typed
  <2>. QED
    BY <1>4, <2>1, <2>2
<1>8. pending' \in Seq(RowRuns) /\ Run(pending', front, front + pendingRows')
  <2>1. CASE rows = 0
    BY <1>5, <1>7, <2>1
  <2>2. CASE rows # 0
    <3>. DEFINE b == [first |-> before, rows |-> rows]
    <3>1. b \in RowRuns /\ b.first = front + pendingRows /\ b.rows > 0 /\ b.rows = rows
      BY <1>7, <2>2 DEF RowRuns
    <3>2. /\ Append(pending, b) \in Seq(RowRuns)
          /\ Run(Append(pending, b), front, (front + pendingRows) + b.rows)
      <4>. HIDE DEF b
      <4>1. front + pendingRows \in Nat
        BY <1>7
      <4>. QED
        BY <1>7, <3>1, <4>1, RunAppend
    <3>3. (front + pendingRows) + b.rows = front + pendingRows'
      BY <1>5, <1>7
    <3>. QED
      BY <1>5, <2>2, <3>2, <3>3
  <2>. QED
    BY <2>1, <2>2
<1>9. Typed'
  <2>1. pendingRows' \in Nat
    BY <1>5, <1>7
  <2>. QED
    BY <1>3, <1>8, <2>1 DEF StreamInv, Typed, ChunkBlobs, Schemas, sourceVars, callVars, statsVars
<1>10. SourceInv'
  BY <1>3 DEF StreamInv, SourceInv, sourceVars
<1>11. LockInv'
  BY <1>1, <1>2, <1>3 DEF StreamInv, LockInv, LockFree, callVars
<1>12. ReportInv'
  BY <1>2, <1>3 DEF StreamInv, ReportInv, statsVars
<1>13. /\ TotalRows' = TotalRows /\ RowsBefore(Decoded)' = before + rows
       /\ UNCHANGED <<call, want, result>>
       /\ \A d \in Calls : Completed(d)' <=> Completed(d)
  BY <1>3, <1>4 DEF TotalRows, RowsBefore, Completed, sourceVars, callVars
<1>14. BufferFrom(front)'
  <2>1. front + pendingRows' = before + rows
    BY <1>5, <1>7
  <2>. QED
    BY <1>4, <1>7, <1>8, <1>13, <2>1 DEF BufferFrom
<1>15. BufferInv'
  <2>1. ASSUME NEW d \in Calls
        PROVE /\ \E from, to \in 0..TotalRows : Run(result[d], from, to)'
              /\ (~Completed(d) => result[d] = <<>>)'
              /\ \A e \in Calls \ {d} : (RowsIn(result[d]) \cap RowsIn(result[e]) = {})'
    BY <1>13 DEF StreamInv, BufferInv
  <2>. QED
    BY <1>13, <1>14, <2>1 DEF BufferInv
<1>16. ShortInv'
  BY <1>1, <1>13, ShortStays DEF StreamInv
<1>. QED
  BY <1>9, <1>10, <1>11, <1>12, <1>15, <1>16 DEF StreamInv

LEMMA CompleteStream == ASSUME StreamInv, NEW c \in Calls, Complete(c) PROVE StreamInv'
<1>. DEFINE state == IF c \in Streamed THEN "ready" ELSE "answered"
<1>1. /\ call[c] \in Fetching /\ call[c] = "decoding" /\ handles = <<>>
      /\ pendingRows < want[c] => exhausted
      /\ exhausted => schema # "untypable"
      /\ schema' = ResolvedSchema
      /\ IF exhausted THEN Finish("success") ELSE UNCHANGED reports
      /\ estimated' = 0
      /\ call' = [call EXCEPT ![c] = state] /\ state \in {"ready", "answered"}
      /\ UNCHANGED <<sourceVars, exhausted, poisoned, handles, want, wait, hint>>
  BY DEF Complete, BatchDecoded, FetchesMore, Become, Fetching, StreamInv, Typed
<1>. HIDE DEF state
<1>2. /\ ~poisoned /\ reports \in {<<>>, <<"success">>}
      /\ ~exhausted => reports = <<>>
      /\ \A d \in Calls : call[d] \in Fetching => d = c
  BY <1>1, HolderFindsItWhole DEF StreamInv, ReportInv
<1>3. want[c] \in Nat
  BY CallsAssumption, EverythingAssumption DEF StreamInv, Typed
<1>4. PICK front \in 0..TotalRows : BufferFrom(front)
  BY DEF StreamInv, BufferInv
<1>5. /\ front \in Nat /\ pendingRows \in Nat /\ TotalRows \in Nat /\ pending \in Seq(RowRuns)
      /\ front + pendingRows = RowsBefore(Decoded) /\ front + pendingRows <= TotalRows
      /\ Run(pending, front, front + pendingRows)
      /\ UNION {RowsIn(result[d]) : d \in Calls} = 0..(front - 1)
  <2>1. /\ front + pendingRows = RowsBefore(Decoded) /\ front + pendingRows <= TotalRows
        /\ Run(pending, front, front + pendingRows)
        /\ UNION {RowsIn(result[d]) : d \in Calls} = 0..(front - 1)
    BY <1>2, <1>4 DEF BufferFrom
  <2>2. pendingRows \in Nat /\ pending \in Seq(RowRuns) /\ TotalRows \in Nat
    BY ChunkSums DEF StreamInv, Typed
  <2>. QED
    BY <2>1, <2>2
<1>6. PICK taken \in Nat : taken = Min2(want[c], pendingRows) /\ taken <= want[c] /\ taken <= pendingRows
  BY <1>3, <1>5, MinOfNats
<1>7. PICK given : given = FirstRows(pending, want[c])
  OBVIOUS
<1>8. PICK next \in Nat, to \in Nat :
        /\ next = front + taken /\ to = front + pendingRows /\ to - front = pendingRows
        /\ front <= next /\ next <= to /\ to <= TotalRows
  <2>1. front + taken \in Nat /\ front + pendingRows \in Nat /\ (front + pendingRows) - front = pendingRows
    BY <1>5
  <2>. QED
    BY <1>5, <1>6, <2>1
<1>9. /\ given \in Seq(RowRuns) /\ Run(given, front, next)
      /\ pending' \in Seq(RowRuns) /\ Run(pending', next, to)
  <2>1. Run(pending, front, to)
    BY <1>5, <1>8
  <2>2. pending' = RestOfRows(pending, want[c])
    BY DEF Complete, Take
  <2>3. Min2(want[c], to - front) = taken
    BY <1>6, <1>8
  <2>4. given \in Seq(RowRuns) /\ Run(given, front, front + taken)
    BY <1>3, <1>5, <1>7, <2>1, <2>3, FirstRowsRun
  <2>5. RestOfRows(pending, want[c]) \in Seq(RowRuns) /\ Run(RestOfRows(pending, want[c]), front + taken, to)
    BY <1>3, <1>5, <2>1, <2>3, RestOfRowsRun
  <2>. QED
    BY <1>8, <2>2, <2>4, <2>5
<1>10. /\ result' = [result EXCEPT ![c] = given] /\ result \in [Calls -> Seq(RowRuns)]
       /\ pendingRows' = pendingRows - taken /\ pendingRows' \in Nat
  BY <1>5, <1>6, <1>7 DEF Complete, Take, RowsTaken, StreamInv, Typed
<1>11. result'[c] = given /\ \A d \in Calls \ {c} : result'[d] = result[d]
  BY <1>10
<1>12. /\ Completed(c)' /\ ~Completed(c)
       /\ \A d \in Calls \ {c} : Completed(d)' <=> Completed(d)
  BY <1>1 DEF Completed, StreamInv, Typed
<1>13. Typed'
  <2>1. schema' \in Schemas
    BY <1>1 DEF ResolvedSchema, StreamInv, Typed, Schemas
  <2>2. result' \in [Calls -> Seq(RowRuns)]
    BY <1>9, <1>10
  <2>3. call' \in [Calls -> {"new", "waiting"} \cup Fetching \cup Over]
    BY <1>1 DEF StreamInv, Typed, Over
  <2>. QED
    BY <1>1, <1>9, <1>10, <2>1, <2>2, <2>3 DEF StreamInv, Typed, ChunkBlobs, sourceVars
<1>14. SourceInv'
  BY <1>1 DEF StreamInv, SourceInv, Decoded, sourceVars
<1>15. LockInv'
  <2>1. \A d \in Calls : call'[d] \notin Fetching
    BY <1>1, <1>2 DEF StreamInv, Typed, Fetching
  <2>. QED
    BY <1>1, <2>1 DEF LockInv, LockFree
<1>16. ReportInv'
  BY <1>1, <1>2 DEF StreamInv, ReportInv, Finish, ResolvedSchema, Outcomes
<1>17. TotalRows' = TotalRows /\ RowsBefore(Decoded)' = RowsBefore(Decoded)
  BY <1>1 DEF TotalRows, RowsBefore, Decoded, sourceVars
<1>18. RowsIn(given) = front..(next - 1) /\ result[c] = <<>>
  BY <1>8, <1>9, <1>12, RunRows DEF StreamInv, BufferInv
<1>19. BufferFrom(next)'
  <2>1. next + pendingRows' = to
    BY <1>6, <1>8, <1>10
  <2>2. UNION {RowsIn(result'[d]) : d \in Calls} = 0..(next - 1)
    <3>1. UNION {RowsIn(result'[d]) : d \in Calls} = 0..(front - 1) \cup RowsIn(given)
      <4>1. RowsIn(result[c]) = {}
        BY <1>18, RunOfNone
      <4>. QED
        BY <1>5, <1>11, <4>1
    <3>2. 0..(front - 1) \cup front..(next - 1) = 0..(next - 1)
      BY <1>5, <1>8
    <3>. QED
      BY <1>18, <3>1, <3>2
  <2>. QED
    BY <1>5, <1>8, <1>9, <1>17, <2>1, <2>2 DEF BufferFrom
<1>20. BufferInv'
  <2>1. next \in 0..TotalRows /\ front \in 0..TotalRows
    BY <1>5, <1>8
  <2>2. \A d \in Calls \ {c} : RowsIn(result[d]) \cap RowsIn(given) = {}
    <3>. SUFFICES ASSUME NEW d \in Calls \ {c}, NEW x \in RowsIn(result[d]) PROVE x \notin RowsIn(given)
      OBVIOUS
    <3>1. x \in 0..(front - 1)
      BY <1>5
    <3>. QED
      BY <1>5, <1>8, <1>18, <3>1
  <2>3. ASSUME NEW d \in Calls
        PROVE  /\ \E from, upto \in 0..TotalRows : Run(result[d], from, upto)'
               /\ (~Completed(d) => result[d] = <<>>)'
               /\ \A e \in Calls \ {d} : (RowsIn(result[d]) \cap RowsIn(result[e]) = {})'
    <3>1. CASE d = c
      BY <1>9, <1>11, <1>12, <2>1, <2>2, <3>1
    <3>2. CASE d # c
      <4>1. /\ \E from, upto \in 0..TotalRows : Run(result[d], from, upto)
            /\ ~Completed(d) => result[d] = <<>>
            /\ \A e \in Calls \ {d} : RowsIn(result[d]) \cap RowsIn(result[e]) = {}
        BY DEF StreamInv, BufferInv
      <4>. QED
        BY <1>11, <1>12, <2>2, <3>2, <4>1
    <3>. QED
      BY <3>1, <3>2
  <2>. QED
    BY <1>17, <1>19, <2>1, <2>3 DEF BufferInv
<1>21. ShortInv'
  <2>. SUFFICES ASSUME NEW d \in Calls, Completed(d)', RowCount(result'[d]) < want'[d]
                PROVE  /\ exhausted' /\ ~poisoned' /\ handles' = <<>> /\ pendingRows' = 0
                       /\ schema' \in {"known", "none"}
    BY DEF ShortInv
  <2>1. CASE d = c
    <3>1. front + RowCount(given) = next
      BY <1>9, RunSums
    <3>2. RowsUpTo(given) \in [0..Len(given) -> Nat] /\ Len(given) \in 0..Len(given)
      BY <1>9, RunSums
    <3>3. RowCount(given) = taken
      BY <1>8, <3>1, <3>2 DEF RowCount
    <3>4. taken < want[c]
      BY <1>1, <1>11, <2>1, <3>3
    <3>5. pendingRows < want[c] /\ taken = pendingRows
      BY <1>3, <1>5, <1>6, <3>4 DEF Min2
    <3>6. exhausted /\ exhausted' /\ ~poisoned' /\ handles' = <<>>
      BY <1>1, <1>2, <3>5
    <3>7. pendingRows' = 0
      BY <1>5, <1>10, <3>5
    <3>8. schema' \in {"known", "none"}
      <4>1. schema \in Schemas
        BY DEF StreamInv, Typed
      <4>. QED
        BY <1>1, <3>6, <4>1 DEF ResolvedSchema, Schemas
    <3>. QED
      BY <3>6, <3>7, <3>8
  <2>2. CASE d # c
    <3>1. /\ exhausted /\ ~poisoned /\ handles = <<>> /\ pendingRows = 0
          /\ schema \in {"known", "none"}
      BY <1>1, <1>11, <1>12, <2>2 DEF StreamInv, ShortInv
    <3>. QED
      BY <1>1, <1>6, <1>10, <3>1 DEF ResolvedSchema
  <2>. QED
    BY <2>1, <2>2
<1>. QED
  BY <1>13, <1>14, <1>15, <1>16, <1>20, <1>21 DEF StreamInv

-----------------------------------------------------------------------------
(* The invariant.                                                           *)

LEMMA StutterStream == ASSUME StreamInv, UNCHANGED vars PROVE StreamInv'
<1>. USE DEF vars, sourceVars, bufferVars, fetchVars, callVars, statsVars
<1>1. Typed'
  BY DEF StreamInv, Typed, ChunkBlobs
<1>2. LockInv'
  BY LockStays DEF StreamInv
<1>3. \A d \in Calls : Completed(d)' <=> Completed(d)
  BY DEF Completed
<1>. QED
  BY <1>1, <1>2, <1>3, CallStepStream

LEMMA NextStream == StreamInv /\ [Next]_vars => StreamInv'
<1>. SUFFICES ASSUME StreamInv, [Next]_vars PROVE StreamInv'
  OBVIOUS
<1>1. ASSUME NEW c \in Calls, Start(c) PROVE StreamInv'
  BY <1>1, StartStream
<1>2. ASSUME NEW c \in Calls, Proceed(c) PROVE StreamInv'
  <2>1. CASE Enter(c)
    BY <2>1, EnterStream
  <2>2. CASE StartDecoding(c)
    BY <2>2, StartDecodingStream
  <2>3. CASE PullAgain(c)
    BY <2>3, PullAgainStream
  <2>4. CASE Complete(c)
    BY <2>4, CompleteStream
  <2>5. CASE SchemaError(c)
    BY <2>5, SchemaErrorStream
  <2>. QED
    BY <1>2, <2>1, <2>2, <2>3, <2>4, <2>5 DEF Proceed
<1>3. ASSUME NEW c \in Calls, Pull(c) PROVE StreamInv'
  <2>1. Pulling(c)
    BY <1>3 DEF Pull
  <2>2. CASE PullChunk(c)
    BY <2>1, <2>2, PullChunkStream
  <2>3. CASE PullEnd(c)
    BY <2>1, <2>3, PullEndStream
  <2>4. CASE PullError(c)
    BY <2>1, <2>4, PullErrorStream
  <2>. QED
    BY <1>3, <2>2, <2>3, <2>4 DEF Pull
<1>4. ASSUME NEW c \in Calls, Decode(c) PROVE StreamInv'
  <2>1. Decoding(c)
    BY <1>4 DEF Decode
  <2>2. CASE DecodeOk(c)
    BY <2>1, <2>2, DecodeOkStream
  <2>3. CASE DecodeError(c)
    BY <2>1, <2>3, DecodeErrorStream
  <2>. QED
    BY <1>4, <2>2, <2>3 DEF Decode
<1>5. ASSUME NEW c \in Plain, CancelPlain(c) PROVE StreamInv'
  BY <1>5, DropFutureStream DEF CancelPlain, Calls
<1>6. ASSUME NEW c \in Streamed, WatchStep(c) PROVE StreamInv'
  <2>1. CASE AbortTask(c)
    BY <2>1, DropFutureStream DEF AbortTask, Calls
  <2>2. CASE TickResult(c) \/ TickOverrun(c) \/ OverrunRaised(c) \/ DropWait(c)
    BY <2>2, WaitStepStream
  <2>. QED
    BY <1>6, <2>1, <2>2 DEF WatchStep
<1>. QED
  BY <1>1, <1>2, <1>3, <1>4, <1>5, <1>6, StutterStream DEF Next

LEMMA StreamInvariance == Spec => []StreamInv
  BY InitStream, NextStream, PTL DEF Spec

-----------------------------------------------------------------------------
(* What follows.                                                            *)

\* The stream is poisoned exactly when its query has been reported as anything
\* but a success, and there is never a second report, whatever is cancelled,
\* times out or fails between the pulls and decodes of fetch_at_least.
THEOREM ReportsTellPoison == Spec => []ReportTellsPoison
<1>1. StreamInv => ReportTellsPoison
  <2>. SUFFICES ASSUME StreamInv PROVE ReportTellsPoison
    OBVIOUS
  <2>1. Len(reports) <= 1
    <3>1. reports \in {<<>>} \cup {<<outcome>> : outcome \in Outcomes}
      BY DEF StreamInv, ReportInv
    <3>2. CASE reports = <<>>
      BY <3>2
    <3>3. ASSUME NEW outcome, reports = <<outcome>> PROVE Len(reports) <= 1
      BY <3>3
    <3>. QED
      BY <3>1, <3>2, <3>3
  <2>2. reports = <<"success">> => source = "done" /\ handles = <<>>
    BY DEF StreamInv, ReportInv, SourceInv
  <2>. QED
    BY <2>1, <2>2 DEF StreamInv, ReportInv, ReportTellsPoison
<1>. QED
  BY <1>1, StreamInvariance, PTL

LEMMA RunIsInBounds ==
  ASSUME NEW s \in Seq(RowRuns), NEW from \in Nat, NEW to \in Nat, Run(s, from, to),
         NEW total \in Nat, to <= total
  PROVE  s \in Seq([first : 0..total, rows : 1..total])
<1>1. Len(s) \in Nat /\ s \in [1..Len(s) -> RowRuns]
  BY LenProperties
<1>2. ASSUME NEW k \in 1..Len(s) PROVE s[k] \in [first : 0..total, rows : 1..total]
  <2>1. PICK u \in [0..Len(s) -> Nat] :
          /\ s[k].first \in Nat /\ s[k].rows \in Nat /\ s[k].rows > 0
          /\ from + u[k] = s[k].first + s[k].rows
          /\ from + u[k] <= to
    <3>1. k \in 0..Len(s)
      BY <1>1
    <3>. QED
      BY <3>1, RunSums
  <2>2. s[k] \in RowRuns
    BY <1>1
  <2>3. PICK f \in Nat, r \in Nat : s[k] = [first |-> f, rows |-> r]
    BY <2>2 DEF RowRuns
  <2>4. r > 0 /\ f + r <= to
    BY <2>1, <2>3
  <2>5. f \in 0..total /\ r \in 1..total
    BY <2>4
  <2>. QED
    BY <2>3, <2>5
<1>3. s \in [1..Len(s) -> [first : 0..total, rows : 1..total]]
  BY <1>1, <1>2
<1>. DEFINE InBounds == [first : 0..total, rows : 1..total]
<1>4. s \in [1..Len(s) -> InBounds]
  BY <1>3
<1>. HIDE DEF InBounds
<1>5. s \in Seq(InBounds)
  BY <1>1, <1>4
<1>. QED
  BY <1>5 DEF InBounds

\* Every call is given consecutive rows of the result in their order, no row
\* goes to two calls, and what is still buffered follows all that was given,
\* for every mix of plain and streamed calls and every way to abandon them.
THEOREM AnswersAreAlwaysRuns == Spec => []AnswersAreRuns
<1>1. StreamInv => AnswersAreRuns
  <2>. SUFFICES ASSUME StreamInv PROVE AnswersAreRuns
    OBVIOUS
  <2>1. PICK front \in 0..TotalRows : BufferFrom(front)
    BY DEF StreamInv, BufferInv
  <2>2. /\ TotalRows \in Nat /\ front \in Nat /\ pendingRows \in Nat /\ pending \in Seq(RowRuns)
        /\ front + pendingRows \in Nat
    BY ChunkSums DEF StreamInv, Typed
  <2>3. /\ Run(pending, front, front + pendingRows) /\ front + pendingRows <= TotalRows
        /\ UNION {RowsIn(result[c]) : c \in Calls} = 0..(front - 1)
    BY <2>1 DEF BufferFrom
  <2>4. Ascending(pending) /\ RowsIn(pending) = front..(front + pendingRows - 1)
    BY <2>2, <2>3, RunRows
  <2>5. ASSUME NEW c \in Calls
        PROVE  /\ result[c] \in Seq(Batches) /\ Ascending(result[c])
               /\ \A x, y \in RowsIn(result[c]) : x..y \subseteq RowsIn(result[c])
               /\ \A d \in Calls \ {c} : RowsIn(result[c]) \cap RowsIn(result[d]) = {}
               /\ \A x \in RowsIn(result[c]), y \in RowsIn(pending) : x < y
    <3>1. PICK from \in 0..TotalRows, to \in 0..TotalRows : Run(result[c], from, to)
      BY DEF StreamInv, BufferInv
    <3>2. from \in Nat /\ to \in Nat /\ to <= TotalRows /\ result[c] \in Seq(RowRuns)
      BY <2>2 DEF StreamInv, Typed
    <3>3. Ascending(result[c]) /\ RowsIn(result[c]) = from..(to - 1)
      BY <3>1, <3>2, RunRows
    <3>4. \A x, y \in RowsIn(result[c]) : x..y \subseteq RowsIn(result[c])
      BY <3>2, <3>3
    <3>5. result[c] \in Seq(Batches)
      BY <2>2, <3>1, <3>2, RunIsInBounds DEF Batches
    <3>6. \A x \in RowsIn(result[c]), y \in RowsIn(pending) : x < y
      <4>. SUFFICES ASSUME NEW x \in RowsIn(result[c]), NEW y \in RowsIn(pending) PROVE x < y
        OBVIOUS
      <4>1. x \in 0..(front - 1) /\ y \in front..(front + pendingRows - 1)
        BY <2>3, <2>4
      <4>. QED
        BY <2>2, <4>1
    <3>. QED
      BY <3>3, <3>4, <3>5, <3>6 DEF StreamInv, BufferInv
  <2>6. TypeOK
    <3>1. pending \in Seq(Batches)
      BY <2>2, <2>3, RunIsInBounds DEF Batches
    <3>2. reports \in Seq(Outcomes)
      <4>1. ReportInv
        BY DEF StreamInv
      <4>2. CASE reports = <<>>
        BY <4>2
      <4>3. ASSUME NEW outcome \in Outcomes, reports = <<outcome>> PROVE reports \in Seq(Outcomes)
        BY <4>3
      <4>. QED
        BY <4>1, <4>2, <4>3 DEF ReportInv
    <3>3. result \in [Calls -> Seq(Batches)]
      BY <2>5 DEF StreamInv, Typed
    <3>. QED
      BY <3>1, <3>2, <3>3 DEF StreamInv, Typed, TypeOK
  <2>. QED
    BY <2>4, <2>5, <2>6 DEF AnswersAreRuns
<1>. QED
  BY <1>1, StreamInvariance, PTL

\* A call that is answered with fewer rows than it asked for has met the end of
\* the result, every row of which some call has taken, and knows its schema: a
\* fetch that was cancelled, timed out or failed never shortens an answer.
THEOREM ShortAnswersMeanEnd == Spec => []ShortAnswerMeansEnd
<1>1. StreamInv => ShortAnswerMeansEnd
  <2>. SUFFICES ASSUME StreamInv, NEW c \in Calls, AnsweredShort(c)
                PROVE  /\ UNION {RowsIn(result[d]) : d \in Calls} = 0..(TotalRows - 1)
                       /\ ~poisoned /\ schema \in {"known", "none"}
    BY DEF ShortAnswerMeansEnd
  <2>1. exhausted /\ ~poisoned /\ handles = <<>> /\ pendingRows = 0 /\ schema \in {"known", "none"}
    BY DEF StreamInv, ShortInv, AnsweredShort, Completed
  <2>2. Decoded = Len(chunks)
    <3>1. Len(pulled) = Len(chunks) /\ Len(handles) = 0
      BY <2>1 DEF StreamInv, SourceInv
    <3>. QED
      BY <3>1, PulledFirst DEF Decoded
  <2>3. PICK front \in 0..TotalRows : BufferFrom(front)
    BY DEF StreamInv, BufferInv
  <2>4. front + 0 = TotalRows
    BY <2>1, <2>2, <2>3, ChunkSums DEF BufferFrom, StreamInv, Typed
  <2>5. front = TotalRows
    BY <2>4, ChunkSums DEF StreamInv, Typed
  <2>. QED
    BY <2>1, <2>3, <2>5 DEF BufferFrom
<1>. QED
  BY <1>1, StreamInvariance, PTL

=============================================================================
