--------------------------- MODULE DownloadsProofs ---------------------------
(***************************************************************************)
(* Theorems about Downloads, for every set of batches, budget of requests,  *)
(* size of files and of parts; and about ThriftFetch, for every result, any  *)
(* number of workers and any conversation in which the two sides understand  *)
(* each other.                                                              *)
(***************************************************************************)
EXTENDS Downloads, ThriftFetch, SequenceTheorems, FiniteSetTheorems, WellFoundedInduction, TLAPS

-----------------------------------------------------------------------------
(* Arithmetic.                                                              *)

LEMMA DivFacts ==
  ASSUME NEW a \in Nat, NEW b \in Nat \ {0}
  PROVE  /\ a \div b \in Nat
         /\ a % b \in 0..b - 1
         /\ a = b * (a \div b) + (a % b)
  OBVIOUS

LEMMA CeilDivFacts ==
  ASSUME NEW a \in Nat, NEW b \in Nat \ {0}
  PROVE  /\ CeilDiv(a, b) \in Nat
         /\ a <= b * CeilDiv(a, b)
         /\ a > 0 => CeilDiv(a, b) > 0 /\ b * (CeilDiv(a, b) - 1) < a
<1>1. a + b - 1 \in Nat
  OBVIOUS
<1>2. DEFINE q == (a + b - 1) \div b
             r == (a + b - 1) % b
<1>3. q \in Nat /\ r \in 0..b - 1 /\ a + b - 1 = b * q + r
  BY <1>1, DivFacts
<1>4. CeilDiv(a, b) = q
  BY DEF CeilDiv
<1> HIDE DEF q, r
<1>5. b * q \in Int
  BY <1>3
<1>6. q = 0 => b * q = 0
  BY <1>3
<1> QED BY <1>3, <1>4, <1>5, <1>6

LEMMA Distributes ==
  ASSUME NEW a \in Nat, NEW b \in Nat, NEW c \in Nat, a < b
  PROVE  /\ a * c \in Nat
         /\ b * c \in Nat
         /\ a * c + c <= b * c
         /\ (a + 1) * c = a * c + c
  OBVIOUS

-----------------------------------------------------------------------------
(* The ranges of a split.                                                   *)

LEMMA PartFacts ==
  ASSUME NEW total \in Nat, NEW parallel \in Nat, parallel >= 2, total > PartSize
  PROVE  /\ PartCount(total, parallel) \in 1..parallel - 1
         /\ PartLength(total, parallel) \in Nat \ {0}
         /\ total - PartSize <= PartCount(total, parallel) * PartLength(total, parallel)
<1>1. PartSize \in Nat \ {0} /\ total - PartSize \in Nat \ {0}
  BY DownloadsAssumption
<1> DEFINE q == CeilDiv(total - PartSize, PartSize)
           k == PartCount(total, parallel)
<1>2. q \in Nat /\ q > 0
  BY <1>1, CeilDivFacts
<1>3. k = Least(q, parallel - 1)
  BY <1>1 DEF PartCount
<1>4. k \in 1..parallel - 1
  <2> HIDE DEF k, q
  <2> QED BY <1>2, <1>3 DEF Least
<1>5. PartLength(total, parallel) = CeilDiv(total - PartSize, k)
  BY DEF PartLength
<1> HIDE DEF k, q
<1>6. k \in Nat \ {0}
  BY <1>4
<1>7. /\ CeilDiv(total - PartSize, k) \in Nat /\ CeilDiv(total - PartSize, k) > 0
      /\ total - PartSize <= k * CeilDiv(total - PartSize, k)
  BY <1>1, <1>6, CeilDivFacts
<1> QED BY <1>4, <1>5, <1>7 DEF k

\* m parts, of which each starts where the one before it ends, and which cover what
\* the probe leaves of the file.
Covering(ranges, m, total) ==
  /\ DOMAIN ranges = 0..m - 1
  /\ m = 0 => total <= PartSize
  /\ m > 0 => total > PartSize /\ ranges[0][1] = PartSize /\ ranges[m - 1][2] = total - 1
  /\ \A n \in 0..m - 2 : ranges[n][2] + 1 = ranges[n + 1][1]
  /\ \A n \in 0..m - 1 : ranges[n][1] <= ranges[n][2]

LEMMA RangesFacts ==
  ASSUME NEW total \in Nat, NEW parallel \in Nat, parallel >= 2, total > 0
  PROVE  \E m \in 0..parallel - 1 : Covering(Ranges(total, parallel), m, total)
<1>0. PartSize \in Nat \ {0}
  BY DownloadsAssumption
<1> DEFINE ranges == Ranges(total, parallel)
           L == PartLength(total, parallel)
           k == PartCount(total, parallel)
           F(n) == PartSize + n * L
<1>1. /\ DOMAIN ranges = {n \in 0..k - 1 : F(n) < total}
      /\ \A n \in DOMAIN ranges : ranges[n][1] = F(n) /\ ranges[n][2] = Least(F(n) + L - 1, total - 1)
  BY DEF Ranges, FirstOf
<1>2. CASE total <= PartSize
  <2>1. k = 0
    BY <1>2 DEF PartCount
  <2>2. DOMAIN ranges = {} /\ 0..0 - 1 = {}
    BY <1>1, <2>1
  <2> HIDE DEF ranges, k
  <2>3. DOMAIN ranges = 0..0 - 1 /\ 0 \in 0..parallel - 1
    BY <2>2
  <2>4. Covering(ranges, 0, total)
    BY <1>2, <2>3 DEF Covering
  <2> QED BY <2>3, <2>4 DEF ranges
<1>3. CASE total > PartSize
  <2>1. k \in 1..parallel - 1 /\ L \in Nat \ {0} /\ total - PartSize <= k * L
    BY <1>3, PartFacts
  <2> DEFINE rest == total - PartSize
             q == CeilDiv(rest, L)
             m == Least(k, q)
  <2> HIDE DEF k, L, ranges
  <2>2. rest \in Nat \ {0}
    BY <1>0, <1>3
  <2>3. q \in Nat /\ q > 0 /\ rest <= L * q /\ L * (q - 1) < rest
    <3> HIDE DEF rest
    <3>1. rest > 0
      BY <2>2
    <3> QED BY <2>1, <2>2, <3>1, CeilDivFacts, Zenon
  <2> HIDE DEF q
  <2>4. m \in 1..parallel - 1 /\ m <= k /\ m <= q /\ (m = k \/ m = q)
    BY <2>1, <2>3 DEF Least
  <2> HIDE DEF m
  <2>5. \A n \in Nat : n * L \in Nat /\ (n + 1) * L = n * L + L
    BY <2>1, Distributes
  <2>6. ASSUME NEW n \in Nat, n < m PROVE F(n) < total
    <3>1. n <= q - 1 /\ q - 1 \in Nat
      BY <2>3, <2>4, <2>6
    <3>2. n * L <= (q - 1) * L
      BY <2>1, <2>5, <3>1, Distributes
    <3>3. (q - 1) * L < rest
      BY <2>1, <2>3, <3>1
    <3> QED BY <1>0, <2>5, <3>1, <3>2, <3>3
  <2>7. F(m) >= total
    <3>1. CASE m = k
      BY <1>0, <2>1, <2>4, <2>5, <3>1
    <3>2. CASE m = q
      BY <1>0, <2>1, <2>3, <2>4, <2>5, <3>2
    <3> QED BY <2>4, <3>1, <3>2
  <2>8. ASSUME NEW n \in Nat, n >= m PROVE F(n) >= total
    <3>1. m \in Nat /\ m * L <= n * L
      BY <2>1, <2>4, <2>5, <2>8, Distributes
    <3> QED BY <1>0, <2>5, <2>7, <3>1
  <2>9. DOMAIN ranges = 0..m - 1
    <3> HIDE DEF F
    <3>1. ASSUME NEW n \in DOMAIN ranges PROVE n \in 0..m - 1
      <4>1. n \in Nat /\ F(n) < total
        BY <1>1, <2>1
      <4>2. F(n) \in Int
        BY <1>0, <2>5, <4>1 DEF F
      <4> QED BY <2>4, <2>8, <4>1, <4>2
    <3>2. ASSUME NEW n \in 0..m - 1 PROVE n \in DOMAIN ranges
      BY <1>1, <2>1, <2>4, <2>6
    <3> QED BY <3>1, <3>2
  <2>10. F(0) = PartSize /\ 0 \in 0..m - 1 /\ m - 1 \in 0..m - 1
    BY <1>0, <2>1, <2>4
  <2>11. ASSUME NEW n \in 0..m - 1
         PROVE  /\ F(n) \in Nat /\ F(n) < total /\ F(n + 1) = F(n) + L
                /\ ranges[n][1] = F(n) /\ ranges[n][2] = Least(F(n) + L - 1, total - 1)
    <3>1. n \in Nat /\ n < m
      BY <2>4
    <3>2. n * L \in Nat /\ (n + 1) * L = n * L + L
      BY <2>5, <3>1
    <3>3. F(n) \in Nat /\ F(n + 1) = F(n) + L
      BY <1>0, <2>1, <3>2
    <3>4. F(n) < total
      BY <2>6, <3>1
    <3> HIDE DEF F
    <3> QED BY <1>1, <2>9, <3>3, <3>4
  <2> HIDE DEF F
  <2>12. ranges[0][1] = PartSize
    BY <2>10, <2>11
  <2>13. ranges[m - 1][2] = total - 1
    <3>1. F(m) = F(m - 1) + L
      BY <2>4, <2>10, <2>11
    <3> QED BY <2>1, <2>7, <2>10, <2>11, <3>1 DEF Least
  <2>14. ASSUME NEW n \in 0..m - 2 PROVE ranges[n][2] + 1 = ranges[n + 1][1]
    <3>1. n \in 0..m - 1 /\ n + 1 \in 0..m - 1
      BY <2>4
    <3>2. /\ F(n) \in Nat /\ F(n + 1) = F(n) + L /\ F(n + 1) < total
          /\ ranges[n + 1][1] = F(n + 1) /\ ranges[n][2] = Least(F(n) + L - 1, total - 1)
      BY <2>11, <3>1
    <3> QED BY <2>1, <3>2 DEF Least
  <2>15. ASSUME NEW n \in 0..m - 1 PROVE ranges[n][1] <= ranges[n][2]
    BY <2>1, <2>11 DEF Least
  <2>16. m \in 0..parallel - 1 /\ m > 0
    BY <2>4
  <2>17. Covering(ranges, m, total)
    BY <1>3, <2>9, <2>12, <2>13, <2>14, <2>15, <2>16 DEF Covering
  <2> QED BY <2>16, <2>17 DEF ranges
<1> QED BY <1>0, <1>2, <1>3

-----------------------------------------------------------------------------
(* Induction over the natural numbers, stated of a set of them              *)

LEMMA LeastElement ==
  ASSUME NEW S, S \subseteq Nat, S # {}
  PROVE  \E n \in S : \A m \in S : n <= m
  <1> DEFINE R == OpToRel(<, Nat)
  <1>1. IsWellFoundedOn(R, Nat)
    BY NatLessThanWellFounded
  <1>2. PICK n \in S : \A m \in S : ~(<<m, n>> \in R)
    <2> HIDE DEF R
    <2> QED BY <1>1, WFMin
  <1>3. \A m \in S : m \in Nat /\ n \in Nat /\ ~(m < n)
    BY <1>2 DEF OpToRel
  <1> QED BY <1>3

LEMMA SetInduction ==
  ASSUME NEW S, 0 \in S, \A n \in Nat : n \in S => n + 1 \in S
  PROVE  Nat \subseteq S
  <1> SUFFICES ASSUME ~(Nat \subseteq S) PROVE FALSE
    OBVIOUS
  <1> DEFINE T == Nat \ S
  <1>1. PICK n \in T : \A m \in T : n <= m
    <2>1. T \subseteq Nat /\ T # {}
      OBVIOUS
    <2> QED BY <2>1, LeastElement
  <1>2. n # 0 /\ n - 1 \in Nat
    OBVIOUS
  <1>3. n - 1 \in S
    BY <1>1, <1>2
  <1> QED BY <1>2, <1>3

-----------------------------------------------------------------------------
(* The parts in order.                                                      *)

\* There is only one way to put the numbers below m in ascending order.
LEMMA OnlyOneOrder ==
  ASSUME NEW m \in Nat, NEW s \in [1..m -> 0..m - 1], \A i, j \in 1..m : i < j => s[i] < s[j]
  PROVE  \A i \in 1..m : s[i] = i - 1
<1> DEFINE FromBelow == {n \in Nat : n + 1 <= m => s[n + 1] >= n}
           FromAbove == {n \in Nat : n < m => s[m - n] <= m - n - 1}
<1>1. 0 \in FromBelow
  OBVIOUS
<1>2. ASSUME NEW n \in Nat, n \in FromBelow PROVE n + 1 \in FromBelow
  <2>1. SUFFICES ASSUME n + 2 <= m PROVE s[n + 2] >= n + 1
    OBVIOUS
  <2>2. n + 1 \in 1..m /\ n + 2 \in 1..m
    BY <2>1
  <2>3. s[n + 1] >= n /\ s[n + 1] < s[n + 2] /\ s[n + 1] \in Nat /\ s[n + 2] \in Nat
    BY <1>2, <2>2
  <2> QED BY <2>3
<1>3. Nat \subseteq FromBelow
  <2> HIDE DEF FromBelow
  <2> QED BY <1>1, <1>2, SetInduction
<1>4. 0 \in FromAbove
  OBVIOUS
<1>5. ASSUME NEW n \in Nat, n \in FromAbove PROVE n + 1 \in FromAbove
  <2>1. SUFFICES ASSUME n + 1 < m PROVE s[m - (n + 1)] <= m - (n + 1) - 1
    OBVIOUS
  <2>2. m - n \in 1..m /\ m - (n + 1) \in 1..m /\ m - (n + 1) < m - n
    BY <2>1
  <2>3. s[m - n] <= m - n - 1 /\ s[m - (n + 1)] < s[m - n] /\ s[m - n] \in Nat /\ s[m - (n + 1)] \in Nat
    BY <1>5, <2>1, <2>2
  <2> QED BY <2>3
<1>6. Nat \subseteq FromAbove
  <2> HIDE DEF FromAbove
  <2> QED BY <1>4, <1>5, SetInduction
<1>7. ASSUME NEW i \in 1..m PROVE s[i] = i - 1
  <2>1. i - 1 \in FromBelow /\ m - i \in FromAbove
    <3>1. i - 1 \in Nat /\ m - i \in Nat
      OBVIOUS
    <3> HIDE DEF FromBelow, FromAbove
    <3> QED BY <1>3, <1>6, <3>1
  <2>2. i - 1 + 1 = i /\ m - (m - i) = i
    OBVIOUS
  <2>3. s[i] >= i - 1 /\ s[i] <= i - 1
    BY <2>1, <2>2
  <2> QED BY <2>3
<1> QED BY <1>7

LEMMA AssembledInOrder ==
  ASSUME NEW l \in Links, NEW m \in Nat, Range(joined[l]) = 0..m - 1
  PROVE  Assembled(l) \in [1..m -> 0..m - 1] /\ \A i \in 1..m : Assembled(l)[i] = i - 1
<1> DEFINE Ascending(s) == \A i, j \in DOMAIN s : i < j => s[i] < s[j]
<1>1. Cardinality(0..m - 1) = m
  BY FS_Interval
<1>2. Assembled(l) = CHOOSE s \in [1..m -> 0..m - 1] : Ascending(s)
  BY <1>1 DEF Assembled
<1>3. \E s \in [1..m -> 0..m - 1] : Ascending(s)
  <2> DEFINE s == [i \in 1..m |-> i - 1]
  <2>1. s \in [1..m -> 0..m - 1] /\ Ascending(s)
    OBVIOUS
  <2> QED BY <2>1
<1>4. Assembled(l) \in [1..m -> 0..m - 1] /\ Ascending(Assembled(l))
  <2> HIDE DEF Ascending
  <2> QED BY <1>2, <1>3
<1>5. \A i, j \in 1..m : i < j => Assembled(l)[i] < Assembled(l)[j]
  BY <1>4
<1> QED BY <1>4, <1>5, OnlyOneOrder

\* The probe and the parts in order cover the file.
LEMMA PartsCoverFile ==
  ASSUME NEW l \in Links, NEW total \in Nat, total > 0, NEW parallel \in Nat, parallel >= 2,
         Range(joined[l]) = DOMAIN Ranges(total, parallel)
  PROVE  LET ranges == Ranges(total, parallel)
             pieces == <<Head0(total)>> \o [i \in DOMAIN Assembled(l) |-> ranges[Assembled(l)[i]]]
         IN  /\ pieces[1][1] = 0 /\ pieces[Len(pieces)][2] = total - 1
             /\ \A i \in 1..Len(pieces) - 1 : pieces[i + 1][1] = pieces[i][2] + 1
             /\ \A i \in DOMAIN pieces : pieces[i][1] <= pieces[i][2]
<1>0. PartSize \in Nat \ {0}
  BY DownloadsAssumption
<1> DEFINE ranges == Ranges(total, parallel)
           rest == [i \in DOMAIN Assembled(l) |-> ranges[Assembled(l)[i]]]
           pieces == <<Head0(total)>> \o rest
<1>a. PICK m \in 0..parallel - 1 : Covering(ranges, m, total)
  BY RangesFacts
<1>1. /\ DOMAIN ranges = 0..m - 1
      /\ m = 0 => total <= PartSize
      /\ m > 0 => total > PartSize /\ ranges[0][1] = PartSize /\ ranges[m - 1][2] = total - 1
      /\ \A n \in 0..m - 2 : ranges[n][2] + 1 = ranges[n + 1][1]
      /\ \A n \in 0..m - 1 : ranges[n][1] <= ranges[n][2]
  BY <1>a DEF Covering
<1> HIDE DEF ranges
<1>2. m \in Nat /\ Range(joined[l]) = 0..m - 1
  BY <1>1 DEF ranges
<1>3. Assembled(l) \in [1..m -> 0..m - 1] /\ \A i \in 1..m : Assembled(l)[i] = i - 1
  BY <1>2, AssembledInOrder
<1>4. DOMAIN rest = 1..m /\ \A i \in 1..m : rest[i] = ranges[i - 1]
  BY <1>3
<1> HIDE DEF rest
<1>5. /\ Len(pieces) = m + 1 /\ DOMAIN pieces = 1..m + 1
      /\ pieces[1] = Head0(total)
      /\ \A i \in 1..m : pieces[i + 1] = ranges[i - 1]
  <2> DEFINE A == {Head0(total)} \cup {rest[i] : i \in 1..m}
  <2>1. rest = [i \in 1..m |-> rest[i]]
    BY <1>4 DEF rest
  <2>2. rest \in Seq(A) /\ Len(rest) = m
    BY <1>2, <1>4, <2>1
  <2>3. <<Head0(total)>> \in Seq(A) /\ Len(<<Head0(total)>>) = 1
    OBVIOUS
  <2> HIDE DEF A
  <2>4. /\ Len(pieces) = m + 1 /\ DOMAIN pieces = 1..m + 1
        /\ \A i \in 1..m + 1 : pieces[i] = IF i <= 1 THEN Head0(total) ELSE rest[i - 1]
    BY <1>2, <2>2, <2>3, ConcatProperties, LenProperties
  <2> QED BY <1>2, <1>4, <2>4
<1> HIDE DEF pieces
<1>6. Head0(total)[1] = 0 /\ Head0(total)[2] = Least(PartSize, total) - 1
  BY DEF Head0
<1>7. pieces[Len(pieces)][2] = total - 1
  <2>1. CASE m = 0
    BY <1>0, <1>1, <1>5, <1>6, <2>1 DEF Least
  <2>2. CASE m > 0
    BY <1>1, <1>2, <1>5, <2>2
  <2> QED BY <1>2, <2>1, <2>2
<1>8. ASSUME NEW i \in 1..m PROVE pieces[i + 1][1] = pieces[i][2] + 1
  <2>1. CASE i = 1
    <3>1. pieces[2] = ranges[0] /\ m > 0
      BY <1>5, <2>1
    <3> QED BY <1>0, <1>1, <1>5, <1>6, <2>1, <3>1 DEF Least
  <2>2. CASE i # 1
    <3>1. i - 1 \in 1..m /\ i - 2 \in 0..m - 2 /\ i - 1 + 1 = i /\ i - 1 - 1 = i - 2 /\ i - 2 + 1 = i - 1
      BY <1>2, <2>2
    <3>2. pieces[i + 1] = ranges[i - 1] /\ pieces[i - 1 + 1] = ranges[i - 1 - 1]
      BY <1>5, <3>1
    <3> QED BY <1>1, <3>1, <3>2
  <2> QED BY <2>1, <2>2
<1>9. ASSUME NEW i \in 1..m + 1 PROVE pieces[i][1] <= pieces[i][2]
  <2>1. CASE i = 1
    BY <1>0, <1>5, <1>6, <2>1 DEF Least
  <2>2. CASE i # 1
    <3>1. i - 1 \in 1..m /\ i - 2 \in 0..m - 1 /\ i - 1 + 1 = i /\ i - 1 - 1 = i - 2
      BY <1>2, <2>2
    <3>2. pieces[i - 1 + 1] = ranges[i - 1 - 1]
      BY <1>5, <3>1
    <3> QED BY <1>1, <3>1, <3>2
  <2> QED BY <2>1, <2>2
<1>10. 1..Len(pieces) - 1 = 1..m
  BY <1>2, <1>5
<1> QED BY <1>5, <1>6, <1>7, <1>8, <1>9, <1>10 DEF pieces, rest, ranges

-----------------------------------------------------------------------------
(* The shares of a batch.                                                   *)

LEMMA ConstantFacts ==
  /\ Slots \in Nat \ {0} /\ MaxSplitParts \in Nat \ {0} /\ PartSize \in Nat \ {0}
  /\ Sizes \subseteq Nat \ {0}
BY DownloadsAssumption

LEMMA BatchFacts ==
  ASSUME NEW l \in Links
  PROVE  /\ BatchOf(l) \in Seq(Links)
         /\ IsInjective(BatchOf(l))
         /\ Len(BatchOf(l)) \in Nat \ {0}
         /\ Position(l) \in 1..Len(BatchOf(l))
         /\ BatchOf(l)[Position(l)] = l
         /\ \A k \in Range(BatchOf(l)) : k \in Links /\ BatchOf(k) = BatchOf(l)
<1>1. ASSUME NEW batch \in Range(Batches) PROVE batch \in Seq(Links) /\ IsInjective(batch)
  <2>1. PICK n \in DOMAIN Batches : batch = Batches[n]
    BY DEF Range
  <2>2. Batches[n] \in Seq(Links)
    BY DownloadsAssumption, LenProperties, ElementOfSeq
  <2> QED BY <2>1, <2>2, DownloadsAssumption
<1>2. ASSUME NEW k \in Links PROVE BatchOf(k) \in Range(Batches) /\ k \in Range(BatchOf(k))
  <2>1. \E batch \in Range(Batches) : k \in Range(batch)
    BY DEF Links, Range
  <2> QED BY <2>1 DEF BatchOf
<1>3. BatchOf(l) \in Seq(Links) /\ IsInjective(BatchOf(l))
  BY <1>1, <1>2
<1>4. DOMAIN BatchOf(l) = 1..Len(BatchOf(l)) /\ Len(BatchOf(l)) \in Nat
  BY <1>3, LenProperties
<1>5. Position(l) \in DOMAIN BatchOf(l) /\ BatchOf(l)[Position(l)] = l
  <2>1. \E i \in DOMAIN BatchOf(l) : BatchOf(l)[i] = l
    BY <1>2 DEF Range
  <2> QED BY <2>1 DEF Position
<1>6. Len(BatchOf(l)) # 0
  BY <1>4, <1>5
<1>7. ASSUME NEW k \in Range(BatchOf(l)) PROVE k \in Links /\ BatchOf(k) = BatchOf(l)
  <2>1. k \in Links
    <3>1. PICK i \in 1..Len(BatchOf(l)) : k = BatchOf(l)[i]
      BY <1>4 DEF Range
    <3> QED BY <1>3, <3>1, ElementOfSeq
  <2>2. PICK m, n \in DOMAIN Batches : BatchOf(l) = Batches[m] /\ BatchOf(k) = Batches[n]
    BY <1>2, <2>1 DEF Range
  <2>3. k \in Range(BatchOf(l)) /\ k \in Range(BatchOf(k))
    BY <1>2, <2>1
  <2>4. m = n
    BY <2>2, <2>3, DownloadsAssumption
  <2> QED BY <2>1, <2>2, <2>4
<1> QED BY <1>3, <1>4, <1>5, <1>6, <1>7

LEMMA ShareFacts ==
  ASSUME NEW count \in Nat \ {0}, NEW position \in 1..count
  PROVE  /\ Share(Slots, position, count) \in Nat \ {0}
         /\ count <= Slots => \A i \in 1..Share(Slots, position, count) : (i - 1) * count + position \in 1..Slots
<1> DEFINE q == Slots \div count
           r == Slots % count
<1>1. q \in Nat /\ r \in 0..count - 1 /\ Slots = count * q + r /\ Slots \in Nat
  BY ConstantFacts, DivFacts
<1>2. Share(Slots, position, count) = Most(1, q + IF position - 1 < r THEN 1 ELSE 0)
  BY DEF Share
<1> HIDE DEF q, r
<1>3. Share(Slots, position, count) \in Nat \ {0}
  BY <1>1, <1>2 DEF Most
<1>4. ASSUME count <= Slots, NEW i \in 1..Share(Slots, position, count)
      PROVE  (i - 1) * count + position \in 1..Slots
  <2>1. q # 0
    <3>1. q = 0 => count * q = 0
      BY <1>1
    <3> QED BY <1>1, <1>4, <3>1
  <2>2. i \in Nat /\ i > 0 /\ i <= q + IF position - 1 < r THEN 1 ELSE 0
    BY <1>1, <1>2, <1>3, <2>1 DEF Most
  <2>3. (i - 1) * count \in Nat /\ q * count \in Nat /\ q * count = count * q
    BY <1>1, <2>2
  <2>4. CASE i - 1 < q
    <3>1. (i - 1) * count + count <= q * count
      BY <1>1, <2>2, <2>4, Distributes
    <3> QED BY <1>1, <2>3, <3>1
  <2>5. CASE ~(i - 1 < q)
    <3>1. i - 1 = q /\ position - 1 < r
      BY <1>1, <2>2, <2>5
    <3> QED BY <1>1, <2>3, <3>1
  <2> QED BY <2>4, <2>5
<1> QED BY <1>3, <1>4

LEMMA Coordinates ==
  ASSUME NEW c \in Nat, NEW i \in Nat, NEW j \in Nat, NEW p \in 1..c, NEW q \in 1..c, i * c + p = j * c + q
  PROVE  i = j /\ p = q
<1>1. i * c \in Nat /\ j * c \in Nat
  OBVIOUS
<1>2. ~(i < j)
  <2>1. i < j => i * c + c <= j * c
    BY Distributes
  <2> QED BY <1>1, <2>1
<1>3. ~(j < i)
  <2>1. j < i => j * c + c <= i * c
    BY Distributes
  <2> QED BY <1>1, <2>1
<1>4. i = j
  BY <1>2, <1>3
<1> QED BY <1>1, <1>4

LEMMA LimitFacts ==
  ASSUME NEW l \in Links
  PROVE  SplitLimit[l] \in Nat \ {0} /\ SplitLimit[l] = Share(Slots, Position(l), Len(BatchOf(l)))
BY BatchFacts, ShareFacts DEF SplitLimit

-----------------------------------------------------------------------------
(* The permits held.                                                        *)

LEMMA HeldMembers ==
  \A h : h \in PermitsHeld <=> \E l \in Links : phase[l] \notin Ended /\ \E i \in 1..held[l] : h = <<l, i>>
<1>1. ASSUME NEW h, h \in PermitsHeld
      PROVE  \E l \in Links : phase[l] \notin Ended /\ \E i \in 1..held[l] : h = <<l, i>>
  <2>1. PICK l \in Links : phase[l] \notin Ended /\ h \in {l} \X (1..held[l])
    BY <1>1 DEF PermitsHeld
  <2> QED BY <2>1
<1>2. ASSUME NEW h, NEW l \in Links, phase[l] \notin Ended, NEW i \in 1..held[l], h = <<l, i>>
      PROVE  h \in PermitsHeld
  <2>1. h \in {l} \X (1..held[l])
    BY <1>2
  <2> QED BY <1>2, <2>1 DEF PermitsHeld
<1> QED BY <1>1, <1>2

\* A batch whose links fit into the budget leaves one to each of them.
LEMMA NobodyStarves == DownloadsInv => BatchNeverWaitsForItself
<1> SUFFICES ASSUME DownloadsInv, NEW l \in Range(waiters), Len(BatchOf(l)) <= Slots,
                    \A k \in Links \ Range(BatchOf(l)) : phase[k] \in {"new"} \cup Ended
             PROVE  FALSE
  BY DEF BatchNeverWaitsForItself
<1> DEFINE c == Len(BatchOf(l))
           Room == (1..Slots) \ {Position(l)}
<1>1. l \in Links /\ phase[l] = "waiting" /\ held[l] = 0
  BY DEF DownloadsInv, QueueInv, DownloadInv
<1>2. c \in Nat \ {0} /\ Position(l) \in 1..c /\ Position(l) \in 1..Slots /\ Slots \in Nat
  BY <1>1, BatchFacts, ConstantFacts
<1>3. ASSUME NEW k \in Links, phase[k] \notin Ended, NEW i \in 1..held[k]
      PROVE  /\ k # l /\ BatchOf(k) = BatchOf(l)
             /\ i - 1 \in Nat /\ Position(k) \in 1..c /\ Position(k) # Position(l)
             /\ (i - 1) * c + Position(k) \in 1..Slots
  <2>1. held[k] # 0 /\ held[k] \in Nat /\ DownloadInv(k) /\ phase[k] \in Phases
    BY <1>3 DEF DownloadsInv, Typed
  <2>2. k # l /\ phase[k] # "new" /\ held[k] <= SplitLimit[k]
    BY <1>1, <1>3, <2>1, LimitFacts DEF DownloadInv, Phases
  <2>3. k \in Range(BatchOf(l))
    BY <1>3, <2>2
  <2>4. BatchOf(k) = BatchOf(l) /\ Position(k) \in 1..c /\ BatchOf(k)[Position(k)] = k /\ BatchOf(l)[Position(l)] = l
    <3>1. BatchOf(k) = BatchOf(l)
      BY <1>1, <2>3, BatchFacts
    <3> QED BY <1>1, <3>1, BatchFacts
  <2>5. i \in 1..Share(Slots, Position(k), c)
    <3>1. SplitLimit[k] = Share(Slots, Position(k), c) /\ SplitLimit[k] \in Nat
      BY <2>4, LimitFacts
    <3> QED BY <2>1, <2>2, <3>1
  <2>6. (i - 1) * c + Position(k) \in 1..Slots
    BY <1>2, <2>4, <2>5, ShareFacts
  <2> QED BY <2>1, <2>2, <2>4, <2>6
<1> DEFINE f == [h \in PermitsHeld |-> (h[2] - 1) * c + Position(h[1])]
<1> HIDE DEF c
<1>4. ASSUME NEW h \in PermitsHeld PROVE f[h] \in Room
  <2>1. PICK k \in Links : phase[k] \notin Ended /\ \E i \in 1..held[k] : h = <<k, i>>
    BY HeldMembers
  <2>2. PICK i \in 1..held[k] : h = <<k, i>>
    BY <2>1
  <2>3. f[h] = (i - 1) * c + Position(k)
    BY <2>2
  <2>4. i - 1 \in Nat /\ Position(k) \in 1..c /\ Position(k) # Position(l) /\ (i - 1) * c + Position(k) \in 1..Slots
    BY <1>3, <2>1
  <2>5. (i - 1) * c + Position(k) # Position(l)
    <3>1. 0 * c + Position(l) = Position(l)
      BY <1>2
    <3> QED BY <1>2, <2>4, <3>1, Coordinates
  <2> HIDE DEF f
  <2> QED BY <2>3, <2>4, <2>5
<1>5. ASSUME NEW g \in PermitsHeld, NEW h \in PermitsHeld, f[g] = f[h] PROVE g = h
  <2>1. PICK j \in Links, k \in Links :
          phase[j] \notin Ended /\ phase[k] \notin Ended
            /\ (\E i \in 1..held[j] : g = <<j, i>>) /\ (\E i \in 1..held[k] : h = <<k, i>>)
    BY HeldMembers
  <2>2. PICK m \in 1..held[j], n \in 1..held[k] : g = <<j, m>> /\ h = <<k, n>>
    BY <2>1
  <2>3. (m - 1) * c + Position(j) = (n - 1) * c + Position(k)
    BY <1>5, <2>2
  <2>4. m - 1 \in Nat /\ n - 1 \in Nat /\ Position(j) \in 1..c /\ Position(k) \in 1..c /\ BatchOf(j) = BatchOf(k)
    BY <1>3, <2>1
  <2>5. m - 1 = n - 1 /\ Position(j) = Position(k)
    <3> DEFINE a == m - 1
               b == n - 1
               p == Position(j)
               q == Position(k)
    <3>1. c \in Nat /\ a \in Nat /\ b \in Nat /\ p \in 1..c /\ q \in 1..c /\ a * c + p = b * c + q
      BY <1>2, <2>3, <2>4
    <3> HIDE DEF a, b, p, q
    <3>2. a = b /\ p = q
      BY <3>1, Coordinates
    <3> QED BY <3>2 DEF a, b, p, q
  <2>6. j = k
    BY <2>4, <2>5, BatchFacts
  <2> QED BY <2>2, <2>4, <2>5, <2>6
<1>6. f \in [PermitsHeld -> Room] /\ IsInjective(f)
  <2>1. DOMAIN f = PermitsHeld /\ f = [h \in PermitsHeld |-> f[h]]
    OBVIOUS
  <2> HIDE DEF f, Room
  <2> QED BY <1>4, <1>5, <2>1 DEF IsInjective
<1>7. IsFiniteSet(Room) /\ Cardinality(Room) = Slots - 1
  <2>1. IsFiniteSet(1..Slots) /\ Cardinality(1..Slots) = Slots
    BY <1>2, FS_Interval
  <2> DEFINE all == 1..Slots
  <2>2. Position(l) \in all /\ IsFiniteSet(all) /\ Cardinality(all) = Slots
    BY <1>2, <2>1
  <2>3. Room = all \ {Position(l)}
    OBVIOUS
  <2> HIDE DEF all, Room
  <2>4. IsFiniteSet(Room) /\ Cardinality(Room) = Cardinality(all) - 1
    BY <2>2, <2>3, FS_RemoveElement
  <2> QED BY <2>2, <2>4
<1>8. Cardinality(PermitsHeld) <= Cardinality(Room)
  <2> HIDE DEF f, Room
  <2>1. f \in Injection(PermitsHeld, Room)
    BY <1>6 DEF Injection
  <2> QED BY <1>7, <2>1, FS_Injection
<1>9. Cardinality(PermitsHeld) = Slots
  <2>1. waiters # <<>>
    BY DEF Range
  <2>2. Cardinality(PermitsHeld) \in Nat
    BY FS_CardinalityType DEF DownloadsInv
  <2> QED BY <2>1, <2>2, <1>2 DEF DownloadsInv, PermitsAddUp, Typed
<1> QED BY <1>2, <1>7, <1>8, <1>9

-----------------------------------------------------------------------------
(* Queues without repetition.                                               *)

LEMMA RestFacts ==
  ASSUME NEW s \in Seq(Links), NEW m \in 0..Len(s)
  PROVE  LET rest == SubSeq(s, m + 1, Len(s))
         IN  /\ rest \in Seq(Links) /\ Len(rest) = Len(s) - m
             /\ \A i \in 1..Len(s) - m : rest[i] = s[i + m]
<1> DEFINE n == Len(s)
           rest == SubSeq(s, m + 1, n)
<1>1. n \in Nat
  BY LenProperties
<1>2. \A i \in m + 1..n : s[i] \in Links
  BY <1>1, ElementOfSeq
<1> HIDE DEF n
<1>3. /\ rest \in Seq(Links)
      /\ Len(rest) = IF m + 1 <= n THEN n - (m + 1) + 1 ELSE 0
      /\ \A i \in 1..n - (m + 1) + 1 : rest[i] = s[m + 1 + i - 1]
  <2>1. m + 1 \in Int /\ n \in Int
    BY <1>1
  <2> QED BY <1>2, <2>1, SubSeqProperties
<1> HIDE DEF rest
<1>4. ASSUME NEW i \in 1..n - m PROVE rest[i] = s[i + m]
  <2>1. i \in 1..n - (m + 1) + 1 /\ m + 1 + i - 1 = i + m
    BY <1>1
  <2>2. rest[i] = s[m + 1 + i - 1]
    BY <1>3, <2>1
  <2> QED BY <2>1, <2>2
<1>5. m \in 0..n /\ Len(rest) = n - m
  BY <1>1, <1>3 DEF n
<1> QED BY <1>3, <1>4, <1>5 DEF n, rest

\* The queue loses the one that gives up, and nobody else.
LEMMA OthersFacts ==
  ASSUME waiters \in Seq(Links), QueueInv, NEW l \in Links
  PROVE  /\ Others(l) \in Seq(Links)
         /\ IsInjective(Others(l))
         /\ Range(Others(l)) = {k \in Links : phase[k] = "waiting"} \ {l}
<1>1. Len(waiters) \in Nat /\ DOMAIN waiters = 1..Len(waiters)
  BY LenProperties
<1>2. CASE phase[l] # "waiting"
  BY <1>2 DEF Others, QueueInv
<1>3. CASE phase[l] = "waiting"
  <2> DEFINE at == CHOOSE i \in DOMAIN waiters : waiters[i] = l
  <2>1. at \in 1..Len(waiters) /\ waiters[at] = l
    <3>1. \E i \in DOMAIN waiters : waiters[i] = l
      BY <1>3 DEF QueueInv, Range
    <3> QED BY <1>1, <3>1
  <2> DEFINE front == SubSeq(waiters, 1, at - 1)
             back == SubSeq(waiters, at + 1, Len(waiters))
  <2>2. Others(l) = front \o back
    BY <1>3 DEF Others, RemoveAt
  <2> HIDE DEF at
  <2>3. /\ front \in Seq(Links) /\ Len(front) = at - 1
        /\ \A i \in 1..at - 1 : front[i] = waiters[i]
    <3>1. \A i \in 1..at - 1 : waiters[i] \in Links
      BY <1>1, <2>1, ElementOfSeq
    <3> QED BY <2>1, <3>1, SubSeqProperties
  <2>4. /\ back \in Seq(Links) /\ Len(back) = Len(waiters) - at
        /\ \A i \in 1..Len(waiters) - at : back[i] = waiters[i + at]
    <3>1. at \in 0..Len(waiters)
      BY <1>1, <2>1
    <3> QED BY <3>1, RestFacts
  <2> HIDE DEF front, back
  <2>5. /\ Others(l) \in Seq(Links) /\ Len(Others(l)) = Len(waiters) - 1
        /\ \A i \in 1..Len(waiters) - 1 :
             Others(l)[i] = IF i < at THEN waiters[i] ELSE waiters[i + 1]
    <3>1. /\ Others(l) \in Seq(Links) /\ Len(Others(l)) = at - 1 + (Len(waiters) - at)
          /\ \A i \in 1..at - 1 + (Len(waiters) - at) :
               Others(l)[i] = IF i <= at - 1 THEN front[i] ELSE back[i - (at - 1)]
      <4>1. /\ front \o back \in Seq(Links) /\ Len(front \o back) = Len(front) + Len(back)
            /\ \A i \in 1..Len(front) + Len(back) :
                 (front \o back)[i] = IF i <= Len(front) THEN front[i] ELSE back[i - Len(front)]
        BY <2>3, <2>4, ConcatProperties
      <4>2. Len(front) = at - 1 /\ Len(back) = Len(waiters) - at
        BY <2>3, <2>4
      <4> QED BY <2>2, <4>1, <4>2
    <3>2. ASSUME NEW i \in 1..Len(waiters) - 1 PROVE Others(l)[i] = IF i < at THEN waiters[i] ELSE waiters[i + 1]
      <4>1. i \in 1..at - 1 + (Len(waiters) - at)
        BY <1>1, <2>1
      <4>2. CASE i < at
        BY <2>1, <2>3, <3>1, <4>1, <4>2
      <4>3. CASE ~(i < at)
        <5>1. i - (at - 1) \in 1..Len(waiters) - at /\ i - (at - 1) + at = i + 1 /\ ~(i <= at - 1)
          BY <1>1, <2>1, <4>3
        <5>2. back[i - (at - 1)] = waiters[i - (at - 1) + at]
          BY <2>4, <5>1
        <5> QED BY <3>1, <4>1, <4>3, <5>1, <5>2
      <4> QED BY <4>2, <4>3
    <3> QED BY <1>1, <2>1, <3>1, <3>2
  <2>6. DOMAIN Others(l) = 1..Len(waiters) - 1
    BY <2>5, LenProperties
  <2>7. IsInjective(Others(l))
    <3> SUFFICES ASSUME NEW i \in 1..Len(waiters) - 1, NEW j \in 1..Len(waiters) - 1, Others(l)[i] = Others(l)[j]
                 PROVE  i = j
      BY <2>6 DEF IsInjective
    <3>1. \A m, n \in 1..Len(waiters) : waiters[m] = waiters[n] => m = n
      BY <1>1 DEF QueueInv, IsInjective
    <3> DEFINE Of(m) == IF m < at THEN m ELSE m + 1
    <3>2. \A m \in 1..Len(waiters) - 1 : Of(m) \in 1..Len(waiters) /\ Others(l)[m] = waiters[Of(m)]
      BY <1>1, <2>1, <2>5
    <3>3. Of(i) = Of(j)
      <4> HIDE DEF Of
      <4> QED BY <3>1, <3>2
    <3> QED BY <1>1, <2>1, <3>3
  <2>8. ASSUME NEW k \in Range(Others(l)) PROVE k \in Range(waiters) \ {l}
    <3>1. PICK i \in 1..Len(waiters) - 1 : k = Others(l)[i]
      BY <2>6 DEF Range
    <3>2. \E j \in 1..Len(waiters) : k = waiters[j] /\ j # at
      <4>1. CASE i < at
        BY <1>1, <2>1, <2>5, <3>1, <4>1
      <4>2. CASE ~(i < at)
        <5>1. i + 1 \in 1..Len(waiters) /\ i + 1 # at /\ k = waiters[i + 1]
          BY <1>1, <2>1, <2>5, <3>1, <4>2
        <5> QED BY <5>1
      <4> QED BY <4>1, <4>2
    <3> QED BY <1>1, <2>1, <3>2 DEF QueueInv, IsInjective, Range
  <2>9. ASSUME NEW k \in Range(waiters) \ {l} PROVE k \in Range(Others(l))
    <3>1. PICK j \in 1..Len(waiters) : k = waiters[j] /\ j # at
      BY <1>1, <2>1 DEF Range
    <3>2. CASE j < at
      <4>1. j \in 1..Len(waiters) - 1 /\ Others(l)[j] = k
        BY <1>1, <2>1, <2>5, <3>1, <3>2
      <4> QED BY <2>6, <4>1 DEF Range
    <3>3. CASE j > at
      <4>1. j - 1 \in 1..Len(waiters) - 1 /\ ~(j - 1 < at) /\ j - 1 + 1 = j
        BY <1>1, <2>1, <3>1, <3>3
      <4>2. Others(l)[j - 1] = k
        BY <2>5, <3>1, <4>1
      <4> QED BY <2>6, <4>1, <4>2 DEF Range
    <3> QED BY <1>1, <2>1, <3>1, <3>2, <3>3
  <2> QED BY <2>5, <2>7, <2>8, <2>9 DEF QueueInv
<1> QED BY <1>2, <1>3

\* Of n permits that come back, as many as there are tasks in the queue are granted
\* to the first of them.
LEMMA GrantedFacts ==
  ASSUME NEW queue \in Seq(Links), IsInjective(queue), NEW n \in Nat
  PROVE  LET g == Least(n, Len(queue))
             rest == SubSeq(queue, g + 1, Len(queue))
         IN  /\ g \in Nat /\ g <= n
             /\ IsFiniteSet(Granted(n, queue)) /\ Cardinality(Granted(n, queue)) = g
             /\ Granted(n, queue) \subseteq Range(queue)
             /\ rest \in Seq(Links) /\ IsInjective(rest)
             /\ Range(rest) = Range(queue) \ Granted(n, queue)
             /\ rest # <<>> => g = n
<1> DEFINE g == Least(n, Len(queue))
           rest == SubSeq(queue, g + 1, Len(queue))
           G == Granted(n, queue)
<1>1. Len(queue) \in Nat /\ DOMAIN queue = 1..Len(queue)
  BY LenProperties
<1>2. g \in 0..Len(queue) /\ g <= n
  BY <1>1 DEF Least
<1>3. G = {queue[i] : i \in 1..g}
  BY DEF Granted
<1> HIDE DEF g
<1>4. \A i, j \in 1..Len(queue) : queue[i] = queue[j] => i = j
  BY <1>1 DEF IsInjective
<1>5. IsFiniteSet(G) /\ Cardinality(G) = g
  <2> DEFINE f == [i \in 1..g |-> queue[i]]
  <2>1. f \in [1..g -> G]
    BY <1>3
  <2>2. f \in Injection(1..g, G) /\ f \in Surjection(1..g, G)
    <3>1. \A i, j \in 1..g : f[i] = f[j] => i = j
      BY <1>1, <1>2, <1>4
    <3>2. \A k \in G : \E i \in 1..g : f[i] = k
      BY <1>3
    <3> QED BY <2>1, <3>1, <3>2 DEF Injection, Surjection, IsInjective
  <2> HIDE DEF f, G
  <2>3. IsFiniteSet(1..g) /\ Cardinality(1..g) = g
    BY <1>1, <1>2, FS_Interval
  <2> QED BY <2>2, <2>3, FS_Surjection
<1> HIDE DEF G
<1>6. G \subseteq Range(queue)
  BY <1>1, <1>2, <1>3 DEF Range
<1>7. /\ rest \in Seq(Links) /\ Len(rest) = Len(queue) - g
      /\ \A i \in 1..Len(queue) - g : rest[i] = queue[i + g]
  BY <1>2, RestFacts
<1> HIDE DEF rest
<1>8. DOMAIN rest = 1..Len(queue) - g
  BY <1>7, LenProperties
<1>9. IsInjective(rest)
  <2> SUFFICES ASSUME NEW i \in 1..Len(queue) - g, NEW j \in 1..Len(queue) - g, rest[i] = rest[j]
               PROVE  i = j
    BY <1>8 DEF IsInjective
  <2>1. i + g \in 1..Len(queue) /\ j + g \in 1..Len(queue) /\ queue[i + g] = queue[j + g]
    BY <1>1, <1>2, <1>7
  <2>2. i + g = j + g
    BY <1>4, <2>1
  <2> QED BY <1>2, <2>2
<1>10. ASSUME NEW k \in Range(rest) PROVE k \in Range(queue) \ G
  <2>1. PICK i \in 1..Len(queue) - g : k = rest[i]
    BY <1>8 DEF Range
  <2>2. i + g \in 1..Len(queue) /\ k = queue[i + g] /\ ~(i + g \in 1..g)
    BY <1>1, <1>2, <1>7, <2>1
  <2>3. k \notin G
    <3> SUFFICES ASSUME k \in G PROVE FALSE
      OBVIOUS
    <3>1. PICK j \in 1..g : k = queue[j]
      BY <1>3
    <3>2. j \in 1..Len(queue)
      BY <1>1, <1>2
    <3> QED BY <1>4, <2>2, <3>1, <3>2
  <2> QED BY <1>1, <2>2, <2>3 DEF Range
<1>11. ASSUME NEW k \in Range(queue) \ G PROVE k \in Range(rest)
  <2>1. PICK i \in 1..Len(queue) : k = queue[i]
    BY <1>1 DEF Range
  <2>2. ~(i \in 1..g)
    BY <1>3, <2>1
  <2>3. i - g \in 1..Len(queue) - g /\ i - g + g = i
    BY <1>1, <1>2, <2>2
  <2>4. rest[i - g] = k
    BY <1>7, <2>1, <2>3
  <2> QED BY <1>8, <2>3, <2>4 DEF Range
<1>12. rest # <<>> => g = n
  <2>1. rest # <<>> => Len(rest) # 0
    BY <1>7, EmptySeq
  <2>2. g = Len(queue) \/ g = n
    BY DEF g, Least
  <2> QED BY <1>1, <1>7, <2>1, <2>2
<1>13. g \in Nat
  BY <1>2
<1>14. Range(rest) = Range(queue) \ G
  BY <1>10, <1>11
<1> QED BY <1>2, <1>5, <1>6, <1>7, <1>9, <1>12, <1>13, <1>14 DEF g, rest, G

-----------------------------------------------------------------------------
(* Counting permits.                                                        *)

LEMMA Moved ==
  ASSUME NEW H, IsFiniteSet(H), NEW A \in SUBSET H, NEW B, IsFiniteSet(B), B \cap H = {}
  PROVE  /\ IsFiniteSet((H \ A) \cup B)
         /\ Cardinality((H \ A) \cup B) = Cardinality(H) - Cardinality(A) + Cardinality(B)
         /\ Cardinality(H) \in Nat /\ Cardinality(A) \in Nat /\ Cardinality(B) \in Nat
<1>1. Cardinality(H) \in Nat /\ IsFiniteSet(A) /\ Cardinality(A) \in Nat /\ Cardinality(B) \in Nat
  BY FS_Subset, FS_CardinalityType
<1>2. IsFiniteSet(H \ A) /\ Cardinality(H \ A) = Cardinality(H) - Cardinality(A)
  <2>1. H \cap A = A
    OBVIOUS
  <2> QED BY <2>1, FS_Difference
<1>3. /\ IsFiniteSet((H \ A) \cup B)
      /\ Cardinality((H \ A) \cup B) = Cardinality(H \ A) + Cardinality(B) - Cardinality((H \ A) \cap B)
  BY <1>2, FS_Union
<1>4. Cardinality((H \ A) \cap B) = 0
  <2>1. (H \ A) \cap B = {}
    OBVIOUS
  <2> QED BY <2>1, FS_EmptySet
<1> QED BY <1>1, <1>2, <1>3, <1>4

LEMMA PairsOf ==
  ASSUME NEW S, IsFiniteSet(S), NEW T, IsFiniteSet(T), Cardinality(S) = 1 \/ Cardinality(T) = 1
  PROVE  IsFiniteSet(S \X T) /\ Cardinality(S \X T) = IF Cardinality(S) = 1 THEN Cardinality(T) ELSE Cardinality(S)
<1>1. IsFiniteSet(S \X T) /\ Cardinality(S \X T) = Cardinality(S) * Cardinality(T)
  BY FS_Product
<1>2. Cardinality(S) \in Nat /\ Cardinality(T) \in Nat
  BY FS_CardinalityType
<1> QED BY <1>1, <1>2

\* A download that ends gives its permits back, each of them once: to the queue or
\* to the semaphore.
LEMMA ReleaseKeepsPermits ==
  ASSUME DownloadsInv, NEW l \in Links, phase[l] \notin Ended, NEW p \in Ended, Release(l, p)
  PROVE  /\ IsFiniteSet(PermitsHeld)' /\ PermitsAddUp'
         /\ permits' \in Nat /\ waiters' \in Seq(Links) /\ QueueInv'
         /\ Granted(held[l], Others(l)) \subseteq {k \in Links : phase[k] = "waiting"} \ {l}
<1> DEFINE n == held[l]
           queue == Others(l)
           G == Granted(n, queue)
           g == Least(n, Len(queue))
           H == PermitsHeld
           A == {l} \X (1..n)
           B == G \X {1}
<1>1. n \in Nat /\ permits \in Nat /\ waiters \in Seq(Links) /\ QueueInv
  BY DEF DownloadsInv, Typed
<1>2. queue \in Seq(Links) /\ IsInjective(queue) /\ Range(queue) = {k \in Links : phase[k] = "waiting"} \ {l}
  BY <1>1, OthersFacts
<1>3. /\ permits' = permits + n - g
      /\ waiters' = SubSeq(queue, g + 1, Len(queue))
      /\ held' = [k \in Links |-> CASE k = l -> n - n
                                    [] k \in G \ {l} -> 1
                                    [] OTHER -> held[k]]
      /\ phase' = [k \in Links |-> CASE k = l -> p
                                     [] k \in G \ {l} -> "granted"
                                     [] OTHER -> phase[k]]
  BY DEF Release, Finish, GiveBack
<1> HIDE DEF queue, n
<1>4. /\ g \in Nat /\ g <= n
      /\ IsFiniteSet(G) /\ Cardinality(G) = g /\ G \subseteq Range(queue)
      /\ waiters' \in Seq(Links) /\ IsInjective(waiters') /\ Range(waiters') = Range(queue) \ G
      /\ (waiters' # <<>> => g = n)
  BY <1>1, <1>2, <1>3, GrantedFacts
<1> HIDE DEF G, g
<1>5. ASSUME NEW k \in Links
      PROVE  /\ k = l => phase'[k] = p
             /\ k # l /\ k \in G => phase'[k] = "granted" /\ held'[k] = 1
             /\ k # l /\ k \notin G => phase'[k] = phase[k] /\ held'[k] = held[k]
  BY <1>3
<1>6. G \subseteq {k \in Links : phase[k] = "waiting"} \ {l} /\ l \notin G
  BY <1>2, <1>4
<1>7. PermitsHeld' = (H \ A) \cup B
  <2>1. ASSUME NEW h, h \in PermitsHeld' PROVE h \in (H \ A) \cup B
    <3>1. PICK k \in Links : phase'[k] \notin Ended /\ h \in {k} \X (1..held'[k])
      BY <2>1 DEF PermitsHeld
    <3>2. k # l
      BY <1>5, <3>1
    <3>3. CASE k \in G
      BY <1>5, <3>1, <3>2, <3>3
    <3>4. CASE k \notin G
      <4>1. phase[k] \notin Ended /\ h \in {k} \X (1..held[k]) /\ h \notin A
        BY <1>5, <3>1, <3>2, <3>4
      <4> QED BY <4>1 DEF PermitsHeld
    <3> QED BY <3>3, <3>4
  <2>2. ASSUME NEW h \in H \ A PROVE h \in PermitsHeld'
    <3>1. PICK k \in Links : phase[k] \notin Ended /\ h \in {k} \X (1..held[k])
      BY DEF PermitsHeld
    <3>2. k # l
      BY <3>1 DEF n
    <3>3. k \notin G
      <4>1. held[k] # 0 /\ DownloadInv(k)
        BY <3>1 DEF DownloadsInv
      <4> QED BY <1>6, <4>1 DEF DownloadInv
    <3>4. phase'[k] \notin Ended /\ h \in {k} \X (1..held'[k])
      BY <1>5, <3>1, <3>2, <3>3
    <3> QED BY <3>4 DEF PermitsHeld
  <2>3. ASSUME NEW h \in B PROVE h \in PermitsHeld'
    <3>1. PICK k \in G : h = <<k, 1>>
      OBVIOUS
    <3>2. k \in Links /\ phase'[k] \notin Ended /\ h \in {k} \X (1..held'[k])
      BY <1>5, <1>6, <3>1 DEF Ended
    <3> QED BY <3>2 DEF PermitsHeld
  <2> QED BY <2>1, <2>2, <2>3
<1>8. A \subseteq H /\ B \cap H = {}
  <2>1. A \subseteq H
    BY DEF PermitsHeld, n
  <2>2. ASSUME NEW h, h \in B, h \in H PROVE FALSE
    <3>1. PICK k \in Links : phase[k] \notin Ended /\ h \in {k} \X (1..held[k])
      BY <2>2 DEF PermitsHeld
    <3>2. k \in G /\ held[k] # 0 /\ DownloadInv(k)
      BY <2>2, <3>1 DEF DownloadsInv
    <3> QED BY <1>6, <3>2 DEF DownloadInv
  <2> QED BY <2>1, <2>2
<1>9. IsFiniteSet(A) /\ Cardinality(A) = n
  <2>1. IsFiniteSet({l}) /\ Cardinality({l}) = 1
    BY FS_Singleton
  <2>2. IsFiniteSet(1..n) /\ Cardinality(1..n) = n
    BY <1>1, FS_Interval
  <2> QED BY <2>1, <2>2, PairsOf
<1>10. IsFiniteSet(B) /\ Cardinality(B) = g
  <2>1. IsFiniteSet({1}) /\ Cardinality({1}) = 1
    BY FS_Singleton
  <2>2. IsFiniteSet(B) /\ Cardinality(B) = IF Cardinality(G) = 1 THEN Cardinality({1}) ELSE Cardinality(G)
    BY <1>4, <2>1, PairsOf
  <2> QED BY <1>4, <2>1, <2>2
<1>11. /\ IsFiniteSet(PermitsHeld') /\ Cardinality(PermitsHeld') = Cardinality(H) - n + g
       /\ Cardinality(H) \in Nat
  <2> HIDE DEF A, B, H
  <2>1. IsFiniteSet(H) /\ IsFiniteSet(B) /\ A \in SUBSET H /\ B \cap H = {}
    BY <1>8, <1>10 DEF DownloadsInv, H
  <2>2. /\ IsFiniteSet((H \ A) \cup B) /\ Cardinality(H) \in Nat
        /\ Cardinality((H \ A) \cup B) = Cardinality(H) - Cardinality(A) + Cardinality(B)
    BY <2>1, Moved
  <2> HIDE DEF PermitsHeld
  <2> QED BY <1>7, <1>9, <1>10, <2>2
<1>12. PermitsAddUp'
  <2>1. Slots = permits + Cardinality(H) /\ (waiters # <<>> => permits = 0)
    BY DEF DownloadsInv, PermitsAddUp
  <2>2. permits' + Cardinality(PermitsHeld') = Slots
    BY <1>1, <1>3, <1>4, <1>11, <2>1
  <2>3. waiters' # <<>> => permits' = 0
    <3> SUFFICES ASSUME waiters' # <<>> PROVE permits' = 0
      OBVIOUS
    <3>1. waiters # <<>>
      <4>1. PICK k : k \in Range(waiters')
        <5>1. Len(waiters') \in Nat \ {0} /\ DOMAIN waiters' = 1..Len(waiters')
          BY <1>4, EmptySeq, LenProperties
        <5>2. 1 \in DOMAIN waiters'
          BY <5>1
        <5> QED BY <5>2 DEF Range
      <4>2. k \in Range(waiters)
        BY <1>1, <1>2, <1>4, <4>1 DEF QueueInv
      <4> QED BY <4>2 DEF Range
    <3> QED BY <1>1, <1>3, <1>4, <2>1, <3>1
  <2> QED BY <2>2, <2>3 DEF PermitsAddUp
<1>13. permits' \in Nat
  BY <1>1, <1>3, <1>4
<1>14. QueueInv'
  <2>1. ASSUME NEW k \in Links PROVE phase'[k] = "waiting" <=> phase[k] = "waiting" /\ k # l /\ k \notin G
    BY <1>5, <1>6 DEF Ended
  <2>2. Range(waiters') = {k \in Links : phase'[k] = "waiting"}
    BY <1>2, <1>4, <2>1
  <2> QED BY <1>4, <2>2 DEF QueueInv
<1> QED BY <1>4, <1>6, <1>11, <1>12, <1>13, <1>14 DEF G, n, queue

-----------------------------------------------------------------------------
(* The invariant.                                                           *)

LEMMA PartNumbers ==
  ASSUME NEW total \in Nat, NEW parallel \in Nat, parallel >= 2, total > 0
  PROVE  \E m \in 0..parallel - 1 : DOMAIN Ranges(total, parallel) = 0..m - 1
<1>1. PICK m \in 0..parallel - 1 : Covering(Ranges(total, parallel), m, total)
  BY RangesFacts
<1>2. DOMAIN Ranges(total, parallel) = 0..m - 1
  BY <1>1 DEF Covering
<1> QED BY <1>2

LEMMA SplitFacts ==
  ASSUME NEW l \in Links, DownloadInv(l), phase[l] \in {"heading", "joining"}
  PROVE  /\ held[l] \in Nat /\ held[l] >= 2 /\ size[l] \in Nat /\ size[l] > 0
         /\ DOMAIN parts[l] = DOMAIN Ranges(size[l], held[l])
<1>1. SplitLimit[l] \in Nat
  BY LimitFacts
<1>2. held[l] \in 2..SplitLimit[l] /\ size[l] \in Sizes /\ DOMAIN parts[l] = DOMAIN Ranges(size[l], held[l])
  BY DEF DownloadInv
<1>3. size[l] \in Nat \ {0}
  BY <1>2, ConstantFacts
<1> QED BY <1>1, <1>2, <1>3

LEMMA RunningFacts ==
  ASSUME DownloadsInv, NEW l \in Links
  PROVE  /\ IsFiniteSet(Running(l)) /\ Cardinality(Running(l)) \in Nat
         /\ phase[l] \in {"heading", "joining"} => Cardinality(Running(l)) < held[l]
         /\ phase[l] \notin {"heading", "joining"} => Cardinality(Running(l)) = 0
<1>1. CASE phase[l] \in {"heading", "joining"}
  <2>1. /\ held[l] \in Nat /\ held[l] >= 2 /\ size[l] \in Nat /\ size[l] > 0
        /\ DOMAIN parts[l] = DOMAIN Ranges(size[l], held[l])
    BY <1>1, SplitFacts DEF DownloadsInv
  <2>2. PICK m \in 0..held[l] - 1 : DOMAIN parts[l] = 0..m - 1
    BY <2>1, PartNumbers, Zenon
  <2>3. IsFiniteSet(0..m - 1) /\ Cardinality(0..m - 1) = m /\ m < held[l] /\ m \in Nat
    <3>1. m \in Nat /\ m < held[l]
      BY <2>1
    <3> QED BY <3>1, FS_Interval
  <2>4. Running(l) \in SUBSET (0..m - 1)
    BY <2>2 DEF Running
  <2>5. IsFiniteSet(Running(l)) /\ Cardinality(Running(l)) <= m /\ Cardinality(Running(l)) \in Nat
    <3>1. IsFiniteSet(Running(l)) /\ Cardinality(Running(l)) <= Cardinality(0..m - 1)
      BY <2>3, <2>4, FS_Subset
    <3> QED BY <2>3, <3>1, FS_CardinalityType
  <2> QED BY <1>1, <2>1, <2>3, <2>5
<1>2. CASE phase[l] \notin {"heading", "joining"}
  <2>1. Running(l) = {}
    BY <1>2 DEF DownloadsInv, DownloadInv, Running
  <2> QED BY <1>2, <2>1, FS_EmptySet
<1> QED BY <1>1, <1>2

LEMMA InitInv == Init => DownloadsInv
<1> SUFFICES ASSUME Init PROVE DownloadsInv
  OBVIOUS
<1> USE DEF Init
<1>1. Typed
  BY ConstantFacts DEF Typed, Phases
<1>2. QueueInv
  BY DEF QueueInv, IsInjective, Range
<1>3. PermitsHeld = {}
  BY DEF PermitsHeld
<1>4. IsFiniteSet(PermitsHeld) /\ PermitsAddUp
  BY <1>3, FS_EmptySet, ConstantFacts DEF PermitsAddUp
<1>5. \A l \in Links : DownloadInv(l)
  BY DEF DownloadInv, Ended
<1> QED BY <1>1, <1>2, <1>4, <1>5 DEF DownloadsInv

\* What another download does leaves this one as it is.
Untouched(k) ==
  /\ phase'[k] = phase[k] /\ held'[k] = held[k] /\ want'[k] = want[k]
  /\ size'[k] = size[k] /\ parts'[k] = parts[k] /\ aborted'[k] = aborted[k]

LEMMA UntouchedInv ==
  ASSUME NEW k \in Links, DownloadInv(k), Untouched(k)
  PROVE  DownloadInv(k)'
BY DEF DownloadInv, Untouched

\* A step of one download that touches no permit.
LEMMA OwnStep ==
  ASSUME DownloadsInv, NEW l \in Links, UNCHANGED slotVars, Typed', DownloadInv(l)',
         \A k \in Links \ {l} : Untouched(k),
         \/ phase'[l] = phase[l]
         \/ {phase[l], phase'[l]} \cap ({"waiting"} \cup Ended) = {}
  PROVE  DownloadsInv'
<1>1. \A k \in Links : /\ (phase'[k] = "waiting") <=> (phase[k] = "waiting")
                       /\ (phase'[k] \in Ended) <=> (phase[k] \in Ended)
  BY DEF Untouched, Ended
<1>2. QueueInv'
  BY <1>1 DEF DownloadsInv, QueueInv, slotVars
<1>3. PermitsHeld' = PermitsHeld
  <2>1. {k \in Links : phase'[k] \notin Ended} = {k \in Links : phase[k] \notin Ended}
    BY <1>1
  <2>2. held' = held
    BY DEF slotVars
  <2> QED BY <2>1, <2>2 DEF PermitsHeld
<1>4. IsFiniteSet(PermitsHeld)' /\ PermitsAddUp'
  BY <1>3 DEF DownloadsInv, PermitsAddUp, slotVars
<1>5. \A k \in Links : DownloadInv(k)'
  BY UntouchedInv DEF DownloadsInv
<1> QED BY <1>2, <1>4, <1>5 DEF DownloadsInv

LEMMA ReleaseInv ==
  ASSUME DownloadsInv, NEW l \in Links, phase[l] \notin Ended, NEW p \in Ended, Release(l, p)
  PROVE  DownloadsInv'
<1> DEFINE n == held[l]
           G == Granted(n, Others(l))
<1>1. /\ IsFiniteSet(PermitsHeld)' /\ PermitsAddUp'
      /\ permits' \in Nat /\ waiters' \in Seq(Links) /\ QueueInv'
      /\ G \subseteq {k \in Links : phase[k] = "waiting"} \ {l}
  BY ReleaseKeepsPermits
<1> HIDE DEF G
<1>2. /\ Abort(l)
      /\ want' = [want EXCEPT ![l] = 0]
      /\ attempt' = [attempt EXCEPT ![l] = 1]
      /\ size' = [size EXCEPT ![l] = 0]
      /\ parts' = [parts EXCEPT ![l] = <<>>]
      /\ joined' = [joined EXCEPT ![l] = <<>>]
      /\ held' = [k \in Links |-> CASE k = l -> n - n
                                    [] k \in G \ {l} -> 1
                                    [] OTHER -> held[k]]
      /\ phase' = [k \in Links |-> CASE k = l -> p
                                     [] k \in G \ {l} -> "granted"
                                     [] OTHER -> phase[k]]
  BY DEF Release, Finish, G
<1>3. Typed
  BY DEF DownloadsInv
<1>4. aborted' = [aborted EXCEPT ![l] = @ + Cardinality(Running(l))] /\ Cardinality(Running(l)) \in Nat
  BY <1>2, RunningFacts DEF Abort
<1>5. ASSUME NEW k \in Links
      PROVE  /\ k = l => phase'[k] = p /\ held'[k] = n - n
             /\ k # l /\ k \in G => phase'[k] = "granted" /\ held'[k] = 1
             /\ k # l /\ k \notin G => phase'[k] = phase[k] /\ held'[k] = held[k]
  BY <1>2
<1>6. Typed'
  <2>1. n \in Nat
    BY <1>3 DEF Typed
  <2>2. DOMAIN phase' = Links /\ \A k \in Links : phase'[k] \in Phases
    BY <1>2, <1>3, <1>5 DEF Typed, Phases
  <2>3. DOMAIN held' = Links /\ \A k \in Links : held'[k] \in Nat
    BY <1>2, <1>3, <1>5, <2>1 DEF Typed
  <2>4. phase' \in [Links -> Phases] /\ held' \in [Links -> Nat]
    BY <1>2, <2>2, <2>3
  <2>5. aborted' \in [Links -> Nat]
    BY <1>3, <1>4 DEF Typed
  <2>6. want' \in [Links -> Nat] /\ attempt' \in [Links -> Nat] /\ size' \in [Links -> Nat]
    BY <1>2, <1>3 DEF Typed
  <2>7. DOMAIN parts' = Links /\ DOMAIN joined' = Links
    BY <1>2, <1>3 DEF Typed
  <2> QED BY <1>1, <2>4, <2>5, <2>6, <2>7 DEF Typed
<1>7. ASSUME NEW k \in Links PROVE DownloadInv(k)'
  <2>1. CASE k = l
    <3>1. phase'[k] \in Ended /\ DOMAIN parts'[k] = {}
      BY <1>2, <1>3, <1>5, <2>1 DEF Typed
    <3> QED BY <3>1 DEF DownloadInv, Ended
  <2>2. CASE k # l /\ k \in G
    <3>1. phase[k] = "waiting" /\ DownloadInv(k)
      BY <1>1, <2>2 DEF DownloadsInv
    <3>2. DOMAIN parts'[k] = {} /\ aborted'[k] = 0
      BY <1>2, <1>3, <1>4, <2>2, <3>1 DEF DownloadInv, Typed, Ended
    <3> QED BY <1>5, <2>2, <3>2 DEF DownloadInv, Ended
  <2>3. CASE k # l /\ k \notin G
    <3>1. Untouched(k)
      BY <1>2, <1>3, <1>4, <1>5, <2>3 DEF Untouched, Typed
    <3> QED BY <3>1, UntouchedInv DEF DownloadsInv
  <2> QED BY <2>1, <2>2, <2>3
<1> QED BY <1>1, <1>6, <1>7 DEF DownloadsInv

\* A download takes a permit, or joins the queue because there is none.
LEMMA AcquireInv ==
  ASSUME DownloadsInv, NEW l \in Links, Acquire(l)
  PROVE  DownloadsInv'
<1>1. Typed /\ QueueInv /\ phase[l] = "new" /\ held[l] = 0 /\ DownloadInv(l)
  BY DEF DownloadsInv, DownloadInv, Acquire
<1>2. UNCHANGED <<want, attempt, size, parts, joined, aborted>>
  BY DEF Acquire, fileVars
<1>3. CASE permits > 0
  <2>1. /\ permits' = permits - 1 /\ waiters' = waiters
        /\ held' = [held EXCEPT ![l] = 1] /\ phase' = [phase EXCEPT ![l] = "granted"]
    BY <1>3 DEF Acquire, MoveTo
  <2>2. Typed'
    BY <1>1, <1>2, <1>3, <2>1 DEF Typed, Phases
  <2>3. QueueInv'
    BY <1>1, <2>1 DEF QueueInv, Typed
  <2>4. PermitsHeld' = (PermitsHeld \ {}) \cup {<<l, 1>>} /\ {<<l, 1>>} \cap PermitsHeld = {}
    <3>1. ASSUME NEW h, h \in PermitsHeld' PROVE h \in PermitsHeld \cup {<<l, 1>>}
      <4>1. PICK k \in Links : phase'[k] \notin Ended /\ h \in {k} \X (1..held'[k])
        BY <3>1 DEF PermitsHeld
      <4>2. CASE k = l
        BY <1>1, <2>1, <4>1, <4>2 DEF Typed
      <4>3. CASE k # l
        <5>1. phase[k] \notin Ended /\ h \in {k} \X (1..held[k])
          BY <1>1, <2>1, <4>1, <4>3 DEF Typed
        <5> QED BY <5>1 DEF PermitsHeld
      <4> QED BY <4>2, <4>3
    <3>2. ASSUME NEW h \in PermitsHeld PROVE h \in PermitsHeld' /\ h # <<l, 1>>
      <4>1. PICK k \in Links : phase[k] \notin Ended /\ h \in {k} \X (1..held[k])
        BY DEF PermitsHeld
      <4>2. k # l
        BY <1>1, <4>1
      <4>3. phase'[k] \notin Ended /\ h \in {k} \X (1..held'[k]) /\ h # <<l, 1>>
        BY <1>1, <2>1, <4>1, <4>2 DEF Typed
      <4> QED BY <4>3 DEF PermitsHeld
    <3>3. <<l, 1>> \in PermitsHeld'
      <4>1. phase'[l] \notin Ended /\ <<l, 1>> \in {l} \X (1..held'[l])
        BY <1>1, <2>1 DEF Typed, Ended
      <4> QED BY <4>1 DEF PermitsHeld
    <3> QED BY <3>1, <3>2, <3>3
  <2>5. IsFiniteSet({<<l, 1>>}) /\ Cardinality({<<l, 1>>}) = 1
    BY FS_Singleton
  <2>6. IsFiniteSet(PermitsHeld)' /\ PermitsAddUp'
    <3>1. permits \in Nat /\ IsFiniteSet(PermitsHeld)
      BY <1>1 DEF DownloadsInv, Typed
    <3>2. /\ IsFiniteSet(PermitsHeld') /\ Cardinality(PermitsHeld') = Cardinality(PermitsHeld) - 0 + 1
          /\ Cardinality(PermitsHeld) \in Nat
      BY <2>4, <2>5, <3>1, FS_EmptySet, Moved
    <3> QED BY <1>3, <2>1, <3>1, <3>2 DEF DownloadsInv, PermitsAddUp
  <2>7. ASSUME NEW k \in Links PROVE DownloadInv(k)'
    <3>1. CASE k = l
      BY <1>1, <1>2, <2>1, <3>1 DEF DownloadInv, Typed, Ended
    <3>2. CASE k # l
      <4>1. Untouched(k)
        BY <1>1, <1>2, <2>1, <3>2 DEF Untouched, Typed
      <4> QED BY <4>1, UntouchedInv DEF DownloadsInv
    <3> QED BY <3>1, <3>2
  <2> QED BY <2>2, <2>3, <2>6, <2>7 DEF DownloadsInv
<1>4. CASE ~(permits > 0)
  <2>1. /\ permits' = permits /\ held' = held /\ waiters' = Append(waiters, l)
        /\ phase' = [phase EXCEPT ![l] = "waiting"]
    BY <1>4 DEF Acquire, MoveTo
  <2>2. permits' = 0 /\ waiters' \in Seq(Links)
    BY <1>1, <1>4, <2>1 DEF Typed
  <2>3. Typed'
    BY <1>1, <1>2, <2>1, <2>2 DEF Typed, Phases
  <2>4. QueueInv'
    <3>1. /\ Len(waiters) \in Nat /\ DOMAIN waiters = 1..Len(waiters)
          /\ DOMAIN waiters' = 1..Len(waiters) + 1 /\ waiters'[Len(waiters) + 1] = l
          /\ \A i \in 1..Len(waiters) : waiters'[i] = waiters[i]
      BY <1>1, <2>1 DEF Typed
    <3>2. l \notin Range(waiters)
      BY <1>1 DEF QueueInv
    <3>3. IsInjective(waiters')
      BY <1>1, <3>1, <3>2 DEF QueueInv, IsInjective, Range
    <3>4. Range(waiters') = Range(waiters) \cup {l}
      <4>1. ASSUME NEW k \in Range(waiters') PROVE k \in Range(waiters) \cup {l}
        BY <3>1 DEF Range
      <4>2. ASSUME NEW k \in Range(waiters) \cup {l} PROVE k \in Range(waiters')
        <5>1. CASE k = l
          <6>1. Len(waiters) + 1 \in DOMAIN waiters'
            BY <3>1
          <6> QED BY <3>1, <5>1, <6>1 DEF Range
        <5>2. CASE k # l
          <6>1. PICK i \in 1..Len(waiters) : k = waiters[i]
            BY <3>1, <5>2 DEF Range
          <6>2. i \in DOMAIN waiters' /\ k = waiters'[i]
            BY <3>1, <6>1
          <6> QED BY <6>2 DEF Range
        <5> QED BY <5>1, <5>2
      <4> QED BY <4>1, <4>2
    <3> QED BY <1>1, <2>1, <3>3, <3>4 DEF QueueInv, Typed
  <2>5. PermitsHeld' = PermitsHeld
    <3>1. {k \in Links : phase'[k] \notin Ended} = {k \in Links : phase[k] \notin Ended}
      BY <1>1, <2>1 DEF Typed, Ended
    <3> QED BY <2>1, <3>1 DEF PermitsHeld
  <2>6. IsFiniteSet(PermitsHeld)' /\ PermitsAddUp'
    BY <2>1, <2>2, <2>5 DEF DownloadsInv, PermitsAddUp
  <2>7. ASSUME NEW k \in Links PROVE DownloadInv(k)'
    <3>1. CASE k = l
      BY <1>1, <1>2, <2>1, <3>1 DEF DownloadInv, Typed, Ended
    <3>2. CASE k # l
      <4>1. Untouched(k)
        BY <1>1, <1>2, <2>1, <3>2 DEF Untouched, Typed
      <4> QED BY <4>1, UntouchedInv DEF DownloadsInv
    <3> QED BY <3>1, <3>2
  <2> QED BY <2>3, <2>4, <2>6, <2>7 DEF DownloadsInv
<1> QED BY <1>3, <1>4

\* It claims what it has seen to be spare, if that is still there.
LEMMA ClaimInv ==
  ASSUME DownloadsInv, NEW l \in Links, ClaimSpare(l)
  PROVE  DownloadsInv'
<1>1. Typed /\ phase[l] = "claiming" /\ held[l] = 1 /\ want[l] < SplitLimit[l] /\ DownloadInv(l)
  BY DEF DownloadsInv, DownloadInv, ClaimSpare
<1>2. want[l] \in Nat /\ permits \in Nat /\ SplitLimit[l] \in Nat
  BY <1>1, LimitFacts DEF Typed
<1>3. UNCHANGED <<waiters, want, attempt, size, parts, joined, aborted>>
  BY DEF ClaimSpare, fileVars
<1>4. CASE 0 < want[l] /\ want[l] <= permits
  <2> DEFINE w == want[l]
             B == {l} \X (2..1 + w)
  <2>1. /\ permits' = permits - w
        /\ held' = [held EXCEPT ![l] = 1 + w] /\ phase' = [phase EXCEPT ![l] = "probing"]
    BY <1>4 DEF ClaimSpare, MoveTo
  <2>2. Typed'
    <3>1. permits - w \in Nat /\ 1 + w \in Nat
      BY <1>2, <1>4
    <3> HIDE DEF w
    <3>2. phase' \in [Links -> Phases] /\ held' \in [Links -> Nat]
      BY <1>1, <2>1, <3>1 DEF Typed, Phases
    <3> QED BY <1>1, <1>3, <2>1, <3>1, <3>2 DEF Typed
  <2>3. QueueInv'
    BY <1>1, <1>3, <2>1 DEF DownloadsInv, QueueInv, Typed
  <2>4. PermitsHeld' = (PermitsHeld \ {}) \cup B /\ B \cap PermitsHeld = {}
    <3>1. ASSUME NEW h, h \in PermitsHeld' PROVE h \in PermitsHeld \cup B
      <4>1. PICK k \in Links : phase'[k] \notin Ended /\ h \in {k} \X (1..held'[k])
        BY <3>1 DEF PermitsHeld
      <4>2. CASE k = l
        <5>1. PICK i \in 1..1 + w : h = <<l, i>>
          BY <1>1, <2>1, <4>1, <4>2 DEF Typed
        <5>2. h \in B \/ h \in {l} \X (1..held[l])
          BY <1>1, <1>2, <5>1
        <5> QED BY <1>1, <5>2 DEF PermitsHeld, Ended
      <4>3. CASE k # l
        <5>1. phase[k] \notin Ended /\ h \in {k} \X (1..held[k])
          BY <1>1, <2>1, <4>1, <4>3 DEF Typed
        <5> QED BY <5>1 DEF PermitsHeld
      <4> QED BY <4>2, <4>3
    <3>2. ASSUME NEW h \in PermitsHeld PROVE h \in PermitsHeld' /\ h \notin B
      <4>1. PICK k \in Links : phase[k] \notin Ended /\ h \in {k} \X (1..held[k])
        BY DEF PermitsHeld
      <4>2. CASE k = l
        <5>1. h = <<l, 1>>
          BY <1>1, <4>1, <4>2
        <5>2. phase'[l] = "probing" /\ held'[l] = 1 + w
          BY <1>1, <2>1 DEF Typed
        <5>3. 1 \in 1..held'[l] /\ 1 \notin 2..1 + w
          BY <1>2, <5>2
        <5>4. h \in {l} \X (1..held'[l]) /\ h \notin B
          BY <5>1, <5>3
        <5> QED BY <5>2, <5>4 DEF PermitsHeld, Ended
      <4>3. CASE k # l
        <5>1. phase'[k] \notin Ended /\ h \in {k} \X (1..held'[k]) /\ h \notin B
          BY <1>1, <2>1, <4>1, <4>3 DEF Typed
        <5> QED BY <5>1 DEF PermitsHeld
      <4> QED BY <4>2, <4>3
    <3>3. ASSUME NEW h \in B PROVE h \in PermitsHeld'
      <4>1. phase'[l] \notin Ended /\ h \in {l} \X (1..held'[l])
        BY <1>1, <1>2, <2>1 DEF Typed, Ended
      <4> QED BY <4>1 DEF PermitsHeld
    <3> QED BY <3>1, <3>2, <3>3
  <2>5. IsFiniteSet(B) /\ Cardinality(B) = w
    <3>1. IsFiniteSet({l}) /\ Cardinality({l}) = 1
      BY FS_Singleton
    <3>2. IsFiniteSet(2..1 + w) /\ Cardinality(2..1 + w) = w
      <4> DEFINE top == 1 + w
      <4>1. top \in Int /\ ~(2 > top) /\ top - 2 + 1 = w
        BY <1>2, <1>4
      <4> HIDE DEF top, w
      <4>2. IsFiniteSet(2..top) /\ Cardinality(2..top) = top - 2 + 1
        BY <4>1, FS_Interval
      <4> QED BY <4>1, <4>2 DEF top
    <3> QED BY <3>1, <3>2, PairsOf
  <2>6. /\ IsFiniteSet(PermitsHeld') /\ Cardinality(PermitsHeld') = Cardinality(PermitsHeld) - 0 + w
        /\ Cardinality(PermitsHeld) \in Nat
    <3> HIDE DEF B, w
    <3> QED BY <2>4, <2>5, FS_EmptySet, Moved DEF DownloadsInv
  <2>7. PermitsAddUp'
    BY <1>2, <1>3, <1>4, <2>1, <2>6 DEF DownloadsInv, PermitsAddUp
  <2>8. ASSUME NEW k \in Links PROVE DownloadInv(k)'
    <3>1. CASE k = l
      BY <1>1, <1>2, <1>3, <1>4, <2>1, <3>1 DEF DownloadInv, Typed, Ended
    <3>2. CASE k # l
      <4>1. Untouched(k)
        BY <1>1, <1>3, <2>1, <3>2 DEF Untouched, Typed
      <4> QED BY <4>1, UntouchedInv DEF DownloadsInv
    <3> QED BY <3>1, <3>2
  <2> QED BY <2>2, <2>3, <2>6, <2>7, <2>8 DEF DownloadsInv
<1>5. CASE ~(0 < want[l] /\ want[l] <= permits)
  <2>1. UNCHANGED slotVars /\ phase' = [phase EXCEPT ![l] = "whole"]
    BY <1>3, <1>5 DEF ClaimSpare, MoveTo, slotVars
  <2>2. Typed'
    BY <1>1, <1>3, <2>1 DEF Typed, Phases, slotVars
  <2>3. DownloadInv(l)'
    BY <1>1, <1>3, <2>1 DEF DownloadInv, Typed, Ended, slotVars
  <2>4. \A k \in Links \ {l} : Untouched(k)
    BY <1>1, <1>3, <2>1 DEF Untouched, Typed, slotVars
  <2>5. phase'[l] = "whole"
    BY <1>1, <2>1 DEF Typed
  <2> QED BY <1>1, <2>1, <2>2, <2>3, <2>4, <2>5, OwnStep DEF Ended
<1> QED BY <1>4, <1>5

\* What is seen is a share of the budget at most.
LEMMA SpareFacts ==
  ASSUME NEW l \in Links, permits \in Nat
  PROVE  Spare(l) \in Nat /\ Spare(l) < SplitLimit[l]
BY ConstantFacts, LimitFacts DEF Spare, Least, Most

LEMMA OwnSteps ==
  ASSUME DownloadsInv, NEW l \in Links, UNCHANGED slotVars,
         \/ SeeSpare(l) \/ ProbeRanged(l) \/ HeadArrives(l) \/ HeadFails(l) \/ AbortedEnds(l)
         \/ phase[l] \in {"probing", "aborting"} /\ PartsStopped(l) /\ RetryProbe(l) /\ phase' = [phase EXCEPT ![l] = "probing"]
         \/ \E n \in DOMAIN parts[l] : PartEnds(l, n)
         \/ DOMAIN joined' = DOMAIN joined /\ UNCHANGED <<phase, want, attempt, size, parts, aborted>>
  PROVE  DownloadsInv'
<1>1. Typed /\ DownloadInv(l) /\ held' = held /\ permits' = permits /\ waiters' = waiters
  BY DEF DownloadsInv, slotVars
<1> USE DEF Typed, DownloadInv, Phases, Ended
<1>2. CASE SeeSpare(l)
  <2>1. /\ phase[l] = "granted" /\ want' = [want EXCEPT ![l] = Spare(l)]
        /\ phase' = [phase EXCEPT ![l] = "claiming"] /\ UNCHANGED fileVars
    BY <1>2 DEF SeeSpare, MoveTo
  <2>2. Spare(l) \in Nat /\ Spare(l) < SplitLimit[l]
    BY <1>1, SpareFacts
  <2>3. Typed' /\ DownloadInv(l)' /\ phase'[l] = "claiming"
    BY <1>1, <2>1, <2>2 DEF fileVars
  <2>4. \A k \in Links \ {l} : Untouched(k)
    BY <1>1, <2>1 DEF Untouched, fileVars
  <2> HIDE DEF Typed, DownloadInv
  <2> QED BY <2>1, <2>3, <2>4, OwnStep
<1>3. CASE ProbeRanged(l)
  <2>1. PICK total \in Sizes :
          /\ size' = [size EXCEPT ![l] = total]
          /\ parts' = [parts EXCEPT ![l] = [n \in DOMAIN Ranges(total, held[l]) |-> "running"]]
    BY <1>3 DEF ProbeRanged
  <2>2. /\ phase[l] = "probing" /\ phase' = [phase EXCEPT ![l] = "heading"]
        /\ UNCHANGED <<want, attempt, joined, aborted>>
    BY <1>3 DEF ProbeRanged, MoveTo
  <2>3. total \in Nat
    BY ConstantFacts
  <2>4. Typed'
    BY <1>1, <2>1, <2>2, <2>3
  <2>5. phase'[l] = "heading" /\ size'[l] = total /\ DOMAIN parts'[l] = DOMAIN Ranges(total, held[l])
    BY <1>1, <2>1, <2>2
  <2>6. DownloadInv(l)'
    BY <1>1, <2>2, <2>5
  <2>7. \A k \in Links \ {l} : Untouched(k)
    BY <1>1, <2>1, <2>2 DEF Untouched
  <2> HIDE DEF Typed, DownloadInv
  <2> QED BY <2>2, <2>4, <2>5, <2>6, <2>7, OwnStep
<1>4. CASE HeadArrives(l)
  <2>1. phase[l] = "heading" /\ phase' = [phase EXCEPT ![l] = "joining"] /\ UNCHANGED <<want, fileVars>>
    BY <1>4 DEF HeadArrives, MoveTo
  <2>2. Typed' /\ DownloadInv(l)' /\ phase'[l] = "joining"
    BY <1>1, <2>1 DEF fileVars
  <2>3. \A k \in Links \ {l} : Untouched(k)
    BY <1>1, <2>1 DEF Untouched, fileVars
  <2> HIDE DEF Typed, DownloadInv
  <2> QED BY <2>1, <2>2, <2>3, OwnStep
<1>5. CASE HeadFails(l)
  <2> DEFINE r == Cardinality(Running(l))
  <2>1. /\ phase[l] = "heading" /\ phase' = [phase EXCEPT ![l] = "aborting"]
        /\ aborted' = [aborted EXCEPT ![l] = @ + r] /\ parts' = [parts EXCEPT ![l] = <<>>]
        /\ UNCHANGED <<want, attempt, size, joined>>
    BY <1>5 DEF HeadFails, MoveTo, Abort
  <2>2. r \in Nat /\ r < held[l]
    BY <2>1, RunningFacts
  <2> HIDE DEF r
  <2>3. Typed'
    BY <1>1, <2>1, <2>2
  <2>4. phase'[l] = "aborting" /\ DOMAIN parts'[l] = {} /\ aborted'[l] = r
    BY <1>1, <2>1, <2>2
  <2>5. DownloadInv(l)'
    BY <1>1, <2>1, <2>2, <2>4
  <2>6. \A k \in Links \ {l} : Untouched(k)
    BY <1>1, <2>1 DEF Untouched
  <2>7. {phase[l], phase'[l]} \cap ({"waiting"} \cup Ended) = {}
    BY <2>1, <2>4
  <2> HIDE DEF Typed, DownloadInv
  <2> QED BY <2>3, <2>5, <2>6, <2>7, OwnStep
<1>6. CASE AbortedEnds(l)
  <2>1. /\ aborted[l] > 0 /\ aborted' = [aborted EXCEPT ![l] = @ - 1]
        /\ UNCHANGED <<phase, want, attempt, size, parts, joined>>
    BY <1>6 DEF AbortedEnds
  <2>a. aborted'[l] \in Nat /\ aborted'[l] < aborted[l] /\ aborted[l] \in Nat /\ held[l] \in Nat
    BY <1>1, <2>1
  <2>b. Typed' /\ phase' = phase
    BY <1>1, <2>1, <2>a
  <2>c. DownloadInv(l)'
    BY <1>1, <2>1, <2>a
  <2>2. Typed' /\ DownloadInv(l)' /\ phase'[l] = phase[l]
    BY <2>b, <2>c
  <2>3. \A k \in Links \ {l} : Untouched(k)
    BY <1>1, <2>1 DEF Untouched
  <2> HIDE DEF Typed, DownloadInv
  <2> QED BY <2>2, <2>3, OwnStep
<1>7. CASE phase[l] \in {"probing", "aborting"} /\ PartsStopped(l) /\ RetryProbe(l) /\ phase' = [phase EXCEPT ![l] = "probing"]
  <2>1. /\ attempt' = [attempt EXCEPT ![l] = @ + 1] /\ UNCHANGED <<want, size, parts, joined, aborted>>
        /\ aborted[l] = 0
    BY <1>7 DEF RetryProbe, PartsStopped
  <2>2. Typed' /\ DownloadInv(l)' /\ phase'[l] = "probing"
    BY <1>1, <1>7, <2>1
  <2>3. \A k \in Links \ {l} : Untouched(k)
    BY <1>1, <1>7, <2>1 DEF Untouched
  <2> HIDE DEF Typed, DownloadInv
  <2> QED BY <1>7, <2>2, <2>3, OwnStep
<1>8. CASE \E n \in DOMAIN parts[l] : PartEnds(l, n)
  <2>1. PICK n \in DOMAIN parts[l], to \in {"ok", "failed"} : parts' = [parts EXCEPT ![l][n] = to]
    BY <1>8 DEF PartEnds
  <2>2. UNCHANGED <<phase, want, attempt, size, joined, aborted>>
    BY <1>8 DEF PartEnds
  <2>3. DOMAIN parts' = Links /\ DOMAIN parts'[l] = DOMAIN parts[l] /\ \A k \in Links \ {l} : parts'[k] = parts[k]
    BY <1>1, <2>1
  <2>4. Typed' /\ DownloadInv(l)' /\ phase'[l] = phase[l]
    BY <1>1, <2>2, <2>3
  <2>5. \A k \in Links \ {l} : Untouched(k)
    BY <1>1, <2>2, <2>3 DEF Untouched
  <2> HIDE DEF Typed, DownloadInv
  <2> QED BY <2>4, <2>5, OwnStep
<1>9. CASE DOMAIN joined' = DOMAIN joined /\ UNCHANGED <<phase, want, attempt, size, parts, aborted>>
  <2>1. Typed' /\ DownloadInv(l)' /\ phase'[l] = phase[l]
    BY <1>1, <1>9
  <2>2. \A k \in Links \ {l} : Untouched(k)
    BY <1>1, <1>9 DEF Untouched
  <2> HIDE DEF Typed, DownloadInv
  <2> QED BY <2>1, <2>2, OwnStep
<1> QED BY <1>2, <1>3, <1>4, <1>5, <1>6, <1>7, <1>8, <1>9

LEMMA NextInv == DownloadsInv /\ [Next]_vars => DownloadsInv'
<1> SUFFICES ASSUME DownloadsInv, [Next]_vars PROVE DownloadsInv'
  OBVIOUS
<1>1. CASE UNCHANGED vars
  <2>1. \A k \in Links : DownloadInv(k)'
    BY <1>1 DEF DownloadsInv, DownloadInv, vars, slotVars, fileVars
  <2>2. PermitsHeld' = PermitsHeld
    BY <1>1 DEF PermitsHeld, vars, slotVars
  <2> QED BY <1>1, <2>1, <2>2 DEF DownloadsInv, Typed, QueueInv, PermitsAddUp, vars, slotVars, fileVars
<1>2. ASSUME NEW l \in Links, Step(l) \/ RequestEnds(l) \/ Cancel(l) PROVE DownloadsInv'
  <2>1. CASE Acquire(l)
    BY <2>1, AcquireInv
  <2>2. CASE ClaimSpare(l)
    BY <2>2, ClaimInv
  <2>3. CASE FetchWhole(l)
    <3>1. phase[l] = "whole" /\ (Release(l, "done") \/ Release(l, "failed"))
      BY <2>3 DEF FetchWhole
    <3> QED BY <3>1, ReleaseInv DEF Ended
  <2>4. CASE SeeSpare(l) \/ ProbeRanged(l) \/ HeadArrives(l) \/ HeadFails(l) \/ AbortedEnds(l)
    <3>1. UNCHANGED slotVars
      BY <2>4 DEF SeeSpare, ProbeRanged, HeadArrives, HeadFails, AbortedEnds
    <3> QED BY <2>4, <3>1, OwnSteps
  <2>5. CASE ProbeOtherwise(l)
    <3>1. phase[l] = "probing" /\ DownloadInv(l) /\ Typed
      BY <2>5 DEF DownloadsInv, ProbeOtherwise
    <3>2. CASE Release(l, "done") \/ Release(l, "failed")
      BY <3>1, <3>2, ReleaseInv DEF Ended
    <3>3. CASE RetryProbe(l) /\ UNCHANGED phase
      <4>1. PartsStopped(l) /\ phase' = [phase EXCEPT ![l] = "probing"]
        BY <3>1, <3>3 DEF DownloadInv, Typed, PartsStopped, Ended
      <4>2. UNCHANGED slotVars
        BY <3>3 DEF RetryProbe
      <4> QED BY <3>1, <3>3, <4>1, <4>2, OwnSteps
    <3> QED BY <2>5, <3>2, <3>3 DEF ProbeOtherwise
  <2>6. CASE AfterShutdown(l)
    <3>1. phase[l] = "aborting" /\ PartsStopped(l)
      BY <2>6 DEF AfterShutdown
    <3>2. CASE Release(l, "failed")
      BY <3>1, <3>2, ReleaseInv DEF Ended
    <3>3. CASE RetryProbe(l) /\ MoveTo(l, "probing")
      BY <3>1, <3>3, OwnSteps DEF RetryProbe, MoveTo
    <3> QED BY <2>6, <3>2, <3>3 DEF AfterShutdown
  <2>7. CASE \E n \in DOMAIN parts[l] : JoinPart(l, n)
    <3>1. PICK n \in DOMAIN parts[l] : JoinPart(l, n)
      BY <2>7
    <3>2. CASE Release(l, "failed")
      <4>1. phase[l] = "joining"
        BY <3>1 DEF JoinPart
      <4> QED BY <3>2, <4>1, ReleaseInv DEF Ended
    <3>3. CASE /\ joined' = [joined EXCEPT ![l] = Append(@, n)]
               /\ UNCHANGED <<slotVars, phase, want, attempt, size, parts, aborted>>
      <4>1. DOMAIN joined' = DOMAIN joined
        BY <3>3
      <4> QED BY <3>3, <4>1, OwnSteps
    <3> QED BY <3>1, <3>2, <3>3 DEF JoinPart
  <2>8. CASE AssembleParts(l)
    <3>1. phase[l] = "joining" /\ Release(l, "done")
      BY <2>8 DEF AssembleParts
    <3> QED BY <3>1, ReleaseInv DEF Ended
  <2>9. CASE \E n \in DOMAIN parts[l] : PartEnds(l, n)
    <3>1. UNCHANGED slotVars
      BY <2>9 DEF PartEnds
    <3> QED BY <2>9, <3>1, OwnSteps
  <2>10. CASE Cancel(l)
    BY <2>10, ReleaseInv DEF Cancel, Ended
  <2> QED BY <1>2, <2>1, <2>2, <2>3, <2>4, <2>5, <2>6, <2>7, <2>8, <2>9, <2>10 DEF Step, RequestEnds
<1> QED BY <1>1, <1>2 DEF Next

THEOREM InvariantHolds == Spec => []DownloadsInv
BY InitInv, NextInv, PTL DEF Spec

-----------------------------------------------------------------------------
(* What follows from it.                                                    *)

LEMMA WithinPermits == DownloadsInv => RequestsWithinPermits
<1> SUFFICES ASSUME DownloadsInv, NEW l \in Links, phase[l] \notin Ended PROVE Requests(l) <= held[l]
  BY DEF RequestsWithinPermits
<1>1. DownloadInv(l) /\ held[l] \in Nat /\ aborted[l] \in Nat /\ phase[l] \in Phases /\ SplitLimit[l] \in Nat
  BY LimitFacts DEF DownloadsInv, Typed
<1> DEFINE r == Cardinality(Running(l))
<1>2. /\ r \in Nat
      /\ phase[l] \in {"heading", "joining"} => r < held[l]
      /\ phase[l] \notin {"heading", "joining"} => r = 0
  BY RunningFacts
<1>3. Requests(l) = (IF phase[l] \in {"whole", "probing", "heading"} THEN 1 ELSE 0) + r + aborted[l]
  BY DEF Requests
<1> HIDE DEF r
<1>4. phase[l] # "aborting" => aborted[l] = 0
  BY <1>1 DEF DownloadInv
<1>5. phase[l] = "aborting" => aborted[l] < held[l]
  BY <1>1 DEF DownloadInv
<1>6. phase[l] \in {"whole", "probing"} => held[l] >= 1
  BY <1>1 DEF DownloadInv
<1> QED BY <1>1, <1>2, <1>3, <1>4, <1>5, <1>6 DEF Phases, Ended

\* The budget of requests is kept, whatever the batches, their sizes and the budget:
\* however downloads claim, retry, fail and are given up, every permit is either
\* free or held once, no download has more requests under way than permits, and
\* none starves the links of its own batch.
THEOREM TheBudgetIsKept == Spec => []BudgetIsKept
<1>1. DownloadsInv => BudgetIsKept
  BY WithinPermits, NobodyStarves DEF BudgetIsKept, DownloadsInv
<1> QED BY <1>1, InvariantHolds, PTL

\* For every size of a file and of its parts, every number of parallel requests and
\* every order in which they answer, what is put together is the file: each byte
\* once and in order.
THEOREM FilesAreWhole == Spec => []AssembledIsFile
<1>1. DownloadsInv => AssembledIsFile
  <2> SUFFICES ASSUME DownloadsInv, NEW l \in Links, phase[l] = "joining", Range(joined[l]) = DOMAIN parts[l]
               PROVE  LET ranges == Ranges(size[l], held[l])
                          pieces == <<Head0(size[l])>> \o [i \in DOMAIN Assembled(l) |-> ranges[Assembled(l)[i]]]
                      IN  /\ pieces[1][1] = 0 /\ pieces[Len(pieces)][2] = size[l] - 1
                          /\ \A i \in 1..Len(pieces) - 1 : pieces[i + 1][1] = pieces[i][2] + 1
                          /\ \A i \in DOMAIN pieces : pieces[i][1] <= pieces[i][2]
    BY DEF AssembledIsFile
  <2>1. /\ held[l] \in Nat /\ held[l] >= 2 /\ size[l] \in Nat /\ size[l] > 0
        /\ Range(joined[l]) = DOMAIN Ranges(size[l], held[l])
    BY SplitFacts DEF DownloadsInv
  <2> QED BY <2>1, PartsCoverFile
<1> QED BY <1>1, InvariantHolds, PTL

-----------------------------------------------------------------------------
(* ThriftFetch.  How many blobs the first responses have.                    *)

LEMMA BlobsInIsNat ==
  ASSUME NEW answers \in Seq(Response), NEW n \in 1..Len(answers)
  PROVE  /\ BlobsIn(answers[n]) \in Nat
         /\ answers[n].inline \in BOOLEAN /\ answers[n].links \in Nat
         /\ BlobsIn(answers[n]) = answers[n].links + IF answers[n].inline THEN 1 ELSE 0
<1>1. answers[n] \in Response
  OBVIOUS
<1> QED BY <1>1 DEF BlobsIn, Response

\* What BlobsUpTo computes exists.
LEMMA BlobSumsExist ==
  ASSUME NEW answers \in Seq(Response)
  PROVE  \E f \in [0..Len(answers) -> Nat] :
           f[0] = 0 /\ \A n \in 1..Len(answers) : f[n] = f[n - 1] + BlobsIn(answers[n])
<1> DEFINE UpTo(m) == \E f \in [0..m -> Nat] : f[0] = 0 /\ \A n \in 1..m : f[n] = f[n - 1] + BlobsIn(answers[n])
           S == {m \in Nat : m <= Len(answers) => UpTo(m)}
<1>1. 0 \in S
  <2>1. [n \in 0..0 |-> 0] \in [0..0 -> Nat] /\ [n \in 0..0 |-> 0][0] = 0
    OBVIOUS
  <2>2. \A n \in 1..0 : FALSE
    OBVIOUS
  <2> QED BY <2>1, <2>2
<1>2. ASSUME NEW m \in Nat, m \in S PROVE m + 1 \in S
  <2> HIDE DEF UpTo
  <2> SUFFICES ASSUME m + 1 <= Len(answers) PROVE UpTo(m + 1)
    OBVIOUS
  <2>1. UpTo(m)
    BY <1>2
  <2> USE DEF UpTo
  <2>2. PICK f \in [0..m -> Nat] : f[0] = 0 /\ \A n \in 1..m : f[n] = f[n - 1] + BlobsIn(answers[n])
    BY <2>1
  <2>3. BlobsIn(answers[m + 1]) \in Nat
    BY BlobsInIsNat
  <2> DEFINE g == [n \in 0..m + 1 |-> IF n = m + 1 THEN f[m] + BlobsIn(answers[m + 1]) ELSE f[n]]
  <2>4. g \in [0..m + 1 -> Nat] /\ g[0] = 0
    BY <2>2, <2>3
  <2>5. ASSUME NEW n \in 1..m + 1 PROVE g[n] = g[n - 1] + BlobsIn(answers[n])
    <3>1. CASE n = m + 1
      <4>1. n - 1 = m /\ m \in 0..m + 1 /\ m # m + 1 /\ n \in 0..m + 1
        BY <3>1
      <4> QED BY <3>1, <4>1
    <3>2. CASE n # m + 1
      <4>1. n \in 1..m /\ n - 1 \in 0..m /\ n \in 0..m + 1 /\ n - 1 \in 0..m + 1 /\ n - 1 # m + 1
        BY <3>2
      <4>2. g[n] = f[n] /\ g[n - 1] = f[n - 1]
        BY <3>2, <4>1
      <4> HIDE DEF g
      <4> QED BY <2>2, <4>1, <4>2
    <3> QED BY <3>1, <3>2
  <2> HIDE DEF g
  <2> QED BY <2>4, <2>5
<1>3. Nat \subseteq S
  <2> HIDE DEF S
  <2> QED BY <1>1, <1>2, SetInduction
<1>4. UpTo(Len(answers))
  <2> HIDE DEF UpTo
  <2>1. Len(answers) \in Nat /\ Len(answers) <= Len(answers)
    OBVIOUS
  <2> QED BY <1>3, <2>1
<1> QED BY <1>4

LEMMA BlobSums ==
  ASSUME NEW answers \in Seq(Response)
  PROVE  /\ BlobsUpTo(answers) \in [0..Len(answers) -> Nat]
         /\ BlobsUpTo(answers)[0] = 0
         /\ \A n \in 1..Len(answers) : BlobsUpTo(answers)[n] = BlobsUpTo(answers)[n - 1] + BlobsIn(answers[n])
<1> DEFINE Fits(f) == f = [n \in 0..Len(answers) |-> IF n = 0 THEN 0 ELSE f[n - 1] + BlobsIn(answers[n])]
<1>1. PICK f \in [0..Len(answers) -> Nat] :
        f[0] = 0 /\ \A n \in 1..Len(answers) : f[n] = f[n - 1] + BlobsIn(answers[n])
  BY BlobSumsExist
<1>2. Fits(f)
  BY <1>1
<1>3. BlobsUpTo(answers) = CHOOSE g : Fits(g)
  BY DEF BlobsUpTo
<1>4. PICK g : g = BlobsUpTo(answers) /\ Fits(g)
  BY <1>2, <1>3
<1>5. DOMAIN g = 0..Len(answers) /\ g[0] = 0
  BY <1>4
<1>6. ASSUME NEW n \in 1..Len(answers) PROVE g[n] = g[n - 1] + BlobsIn(answers[n])
  <2>1. n \in 0..Len(answers) /\ n # 0
    OBVIOUS
  <2>2. g = [i \in 0..Len(answers) |-> IF i = 0 THEN 0 ELSE g[i - 1] + BlobsIn(answers[i])]
    BY <1>4
  <2> HIDE DEF Fits
  <2> QED BY <2>1, <2>2
<1> DEFINE S == {m \in Nat : m <= Len(answers) => g[m] = f[m]}
<1> HIDE DEF Fits
<1>7. Nat \subseteq S
  <2>1. 0 \in S
    BY <1>1, <1>5
  <2>2. ASSUME NEW m \in Nat, m \in S PROVE m + 1 \in S
    <3> SUFFICES ASSUME m + 1 <= Len(answers) PROVE g[m + 1] = f[m + 1]
      OBVIOUS
    <3>1. g[m] = f[m] /\ m + 1 \in 1..Len(answers) /\ (m + 1) - 1 = m
      BY <2>2
    <3>2. g[m + 1] = g[(m + 1) - 1] + BlobsIn(answers[m + 1]) /\ f[m + 1] = f[(m + 1) - 1] + BlobsIn(answers[m + 1])
      BY <1>1, <1>6, <3>1
    <3> QED BY <3>1, <3>2
  <2> HIDE DEF S
  <2> QED BY <2>1, <2>2, SetInduction
<1>8. \A m \in 0..Len(answers) : g[m] = f[m]
  BY <1>7
<1>9. g = [m \in 0..Len(answers) |-> g[m]]
  BY <1>4 DEF Fits
<1> QED BY <1>1, <1>4, <1>5, <1>8, <1>9

\* A prefix has no more blobs than the whole.
LEMMA PrefixCounts ==
  ASSUME NEW answers \in Seq(Response)
  PROVE  /\ BlobCount(answers) \in Nat
         /\ \A n \in 0..Len(answers) : BlobsUpTo(answers)[n] \in Nat /\ BlobsUpTo(answers)[n] <= BlobCount(answers)
<1> DEFINE m == Len(answers)
           f == BlobsUpTo(answers)
           S == {k \in Nat : k <= m => f[m - k] <= f[m]}
<1>1. m \in Nat /\ f \in [0..m -> Nat] /\ \A n \in 1..m : f[n] = f[n - 1] + BlobsIn(answers[n])
  BY BlobSums
<1>2. \A n \in 1..m : BlobsIn(answers[n]) \in Nat
  BY BlobsInIsNat
<1> HIDE DEF m, f
<1>3. 0 \in S
  BY <1>1
<1>4. ASSUME NEW k \in Nat, k \in S PROVE k + 1 \in S
  <2> SUFFICES ASSUME k + 1 <= m PROVE f[m - (k + 1)] <= f[m]
    OBVIOUS
  <2>1. m - k \in 1..m /\ (m - k) - 1 = m - (k + 1) /\ m - (k + 1) \in 0..m /\ m \in 0..m /\ m - k \in 0..m
    BY <1>1
  <2>2. f[m - k] <= f[m]
    BY <1>1, <1>4
  <2>3. f[m - k] = f[(m - k) - 1] + BlobsIn(answers[m - k]) /\ BlobsIn(answers[m - k]) \in Nat
    BY <1>1, <1>2, <2>1
  <2>4. f[m] \in Nat /\ f[m - k] \in Nat /\ f[m - (k + 1)] \in Nat
    BY <1>1, <2>1
  <2> QED BY <2>1, <2>2, <2>3, <2>4
<1>5. Nat \subseteq S
  <2> HIDE DEF S
  <2> QED BY <1>3, <1>4, SetInduction
<1>6. ASSUME NEW n \in 0..m PROVE f[n] <= f[m]
  <2>1. m - n \in Nat /\ m - n <= m /\ m - (m - n) = n
    BY <1>1
  <2>2. m - n \in S
    BY <1>5, <2>1
  <2> QED BY <2>1, <2>2
<1>7. m \in 0..m
  BY <1>1
<1> QED BY <1>1, <1>6, <1>7 DEF m, f, BlobCount

-----------------------------------------------------------------------------
(* Sequences seen as the set of their elements.                              *)

LEMMA ElementsAppend ==
  ASSUME NEW S, NEW s \in Seq(S), NEW x \in S
  PROVE  Elements(Append(s, x)) = Elements(s) \cup {x}
<1>1. /\ DOMAIN Append(s, x) = 1..Len(s) + 1 /\ DOMAIN s = 1..Len(s)
      /\ Append(s, x)[Len(s) + 1] = x
      /\ \A n \in DOMAIN s : Append(s, x)[n] = s[n]
      /\ Len(s) \in Nat
  OBVIOUS
<1>2. \A n \in DOMAIN Append(s, x) : n = Len(s) + 1 \/ n \in DOMAIN s
  BY <1>1
<1>3. Len(s) + 1 \in DOMAIN Append(s, x) /\ DOMAIN s \subseteq DOMAIN Append(s, x)
  BY <1>1
<1>4. ASSUME NEW y \in Elements(Append(s, x)) PROVE y \in Elements(s) \cup {x}
  BY <1>1, <1>2, <1>4 DEF Elements
<1>5. ASSUME NEW y \in Elements(s) \cup {x} PROVE y \in Elements(Append(s, x))
  BY <1>1, <1>3, <1>5 DEF Elements
<1> QED BY <1>4, <1>5

LEMMA ElementsTail ==
  ASSUME NEW S, NEW s \in Seq(S), s # <<>>
  PROVE  Elements(s) = Elements(Tail(s)) \cup {Head(s)}
<1>1. /\ DOMAIN s = 1..Len(s) /\ Len(s) \in Nat /\ Len(s) > 0
      /\ DOMAIN Tail(s) = 1..Len(s) - 1
      /\ Head(s) = s[1]
      /\ \A n \in 1..Len(s) - 1 : Tail(s)[n] = s[n + 1]
  OBVIOUS
<1>2. \A n \in DOMAIN s : n = 1 \/ (n - 1 \in DOMAIN Tail(s) /\ Tail(s)[n - 1] = s[n])
  BY <1>1
<1>3. 1 \in DOMAIN s /\ \A n \in DOMAIN Tail(s) : n + 1 \in DOMAIN s
  BY <1>1
<1>4. ASSUME NEW y \in Elements(s) PROVE y \in Elements(Tail(s)) \cup {Head(s)}
  BY <1>1, <1>2, <1>4 DEF Elements
<1>5. ASSUME NEW y \in Elements(Tail(s)) \cup {Head(s)} PROVE y \in Elements(s)
  BY <1>1, <1>3, <1>5 DEF Elements
<1> QED BY <1>4, <1>5

LEMMA ElementsEmpty == Elements(<<>>) = {}
  BY DEF Elements

\* No two positions of s have the same element, but for `except'.
Once(s, except) == \A m, n \in DOMAIN s : s[m] = s[n] /\ s[m] # except => m = n

LEMMA OnceAppend ==
  ASSUME NEW S, NEW s \in Seq(S), NEW x \in S, NEW except, Once(s, except), x = except \/ x \notin Elements(s)
  PROVE  Once(Append(s, x), except)
<1>1. /\ DOMAIN s = 1..Len(s) /\ DOMAIN Append(s, x) = 1..Len(s) + 1 /\ Len(s) \in Nat
      /\ Append(s, x)[Len(s) + 1] = x
      /\ \A n \in DOMAIN s : Append(s, x)[n] = s[n]
  OBVIOUS
<1>2. ASSUME NEW n \in DOMAIN s, x # except PROVE s[n] # x
  BY <1>2 DEF Elements
<1>3. ASSUME NEW m \in DOMAIN Append(s, x), NEW n \in DOMAIN Append(s, x),
             Append(s, x)[m] = Append(s, x)[n], Append(s, x)[m] # except
      PROVE  m = n
  <2>1. CASE m \in DOMAIN s /\ n \in DOMAIN s
    BY <1>1, <1>3, <2>1 DEF Once
  <2>2. CASE m = Len(s) + 1 \/ n = Len(s) + 1
    BY <1>1, <1>2, <1>3, <2>2
  <2> QED BY <1>1, <2>1, <2>2
<1> QED BY <1>3 DEF Once

LEMMA OnceTail ==
  ASSUME NEW S, NEW s \in Seq(S), s # <<>>, NEW except, Once(s, except)
  PROVE  /\ Once(Tail(s), except)
         /\ Head(s) # except => Head(s) \notin Elements(Tail(s))
<1>1. /\ DOMAIN s = 1..Len(s) /\ Len(s) \in Nat /\ Len(s) > 0
      /\ DOMAIN Tail(s) = 1..Len(s) - 1
      /\ Head(s) = s[1]
      /\ \A n \in 1..Len(s) - 1 : Tail(s)[n] = s[n + 1]
  OBVIOUS
<1>2. \A n \in DOMAIN Tail(s) : n \in Nat /\ n > 0 /\ n + 1 \in DOMAIN s /\ Tail(s)[n] = s[n + 1]
  BY <1>1
<1>3. 1 \in DOMAIN s
  BY <1>1
<1>4. Once(Tail(s), except)
  <2> SUFFICES ASSUME NEW m \in DOMAIN Tail(s), NEW n \in DOMAIN Tail(s),
                      Tail(s)[m] = Tail(s)[n], Tail(s)[m] # except
               PROVE  m = n
    BY DEF Once
  <2>1. m + 1 = n + 1
    BY <1>2 DEF Once
  <2> QED BY <1>2, <2>1
<1>5. ASSUME Head(s) # except, NEW n \in DOMAIN Tail(s), Tail(s)[n] = Head(s) PROVE FALSE
  <2>1. 1 = n + 1
    BY <1>1, <1>2, <1>3, <1>5 DEF Once
  <2> QED BY <1>2, <2>1
<1> QED BY <1>4, <1>5 DEF Elements

LEMMA OnceNone == ASSUME NEW except PROVE Once(<<>>, except)
  BY DEF Once


-----------------------------------------------------------------------------
(* What the loop knows of the responses: how far it has got in them is how    *)
(* far chunkIndex has got.                                                   *)

\* The workers with a blob, and the blobs of the present response to come.
Carriers == {w \in Workers : worker[w] \in {"fetching", "sending"}}

Undiscovered ==
  IF producer = "decoding" THEN links + 1
  ELSE IF producer \in {"sending", "linking"} THEN links ELSE 0

LoopTyped ==
  /\ TypeOK
  /\ \A w \in Carriers : work[w] \in Indexes
  /\ producer = "sending" => chunkIndex # 0

Discovered ==
  /\ producer = "submitting" => chunkIndex = 0 /\ answered = 0 /\ initial = <<>>
  /\ producer # "submitting" => \E ready \in Submissions(responses) : operation = ready.operation
  /\ initial # <<>> => initial = <<Said(responses, 1)>> /\ answered = 0
  /\ producer \in Discovering =>
       /\ chunkIndex + Undiscovered = BlobsUpTo(responses)[answered]
       /\ answered # 0 => hasMore = (answered < Len(responses))
       /\ IF producer = "fetching" THEN answered = 0 \/ hasMore ELSE answered # 0

LEMMA ResponsesFacts ==
  ASSUME TypeOK
  PROVE  /\ responses \in Seq(Response) /\ Len(responses) \in Nat /\ Len(responses) # 0
         /\ BlobCount(responses) \in Nat
         /\ 0..BlobCount(responses) - 1 \subseteq Indexes
         /\ \A n \in 0..Len(responses) :
              BlobsUpTo(responses)[n] \in Nat /\ BlobsUpTo(responses)[n] <= BlobCount(responses)
<1>1. responses \in Results
  BY DEF TypeOK
<1>2. responses \in Seq(Response) /\ responses # <<>> /\ 0..BlobCount(responses) - 1 \subseteq Indexes
  BY <1>1, ThriftAssumption
<1> QED BY <1>2, PrefixCounts

LEMMA AnItem ==
  ASSUME NEW i \in Indexes
  PROVE  Item(i, 1) \in Blobs /\ Item(i, 1) \in Messages /\ Item(i, 1).index = i /\ Item(i, 1) # Failure
<1>1. 1 \in 1..LinkCount[i]
  BY ThriftAssumption
<1> QED BY <1>1 DEF Blobs, Messages, Item, Failure

\* A blob is the only one of its index.
LEMMA ABlob ==
  ASSUME NEW b \in Blobs
  PROVE  b.index \in Indexes /\ b = Item(b.index, 1) /\ b # Failure
<1>1. PICK i \in Indexes : b \in {Item(i, k) : k \in 1..LinkCount[i]}
  BY DEF Blobs
<1>2. LinkCount[i] = 1
  BY ThriftAssumption
<1>3. b = Item(i, 1)
  BY <1>1, <1>2
<1> QED BY <1>3 DEF Item, Failure

-----------------------------------------------------------------------------
(* The steps that depend on the conversation.                                *)

LEMMA SubmitStep ==
  ASSUME RepliesAreUnderstood, TypeOK, Submit
  PROVE  /\ producer = "submitting" /\ producer' = "fetching"
         /\ \E ready \in Submissions(responses) : operation' = ready.operation
         /\ initial' \in {<<>>, <<Said(responses, 1)>>}
         /\ confirmed' \in BOOLEAN
         /\ UNCHANGED <<channel, senders, pending, nextIdx, exhausted, reader, delivered,
                        responses, answered, links, hasMore, chunkIndex,
                        unconfirmed, linkQueue, queueOpen, worker, work, guessing, fault>>
<1>1. responses \in Results
  BY DEF TypeOK
<1>2. PICK ready \in Submissions(responses) : IF ready.ok THEN Ready(ready) ELSE SubmitFails
  BY DEF Submit
<1>3. ready.ok /\ ready.confirmed \in BOOLEAN /\ ready.initial \in {<<>>, <<Said(responses, 1)>>}
  BY <1>1 DEF RepliesAreUnderstood, Understands
<1>4. Ready(ready)
  BY <1>2, <1>3
<1> QED BY <1>3, <1>4 DEF Submit, Ready, ProducerAt, channelVars, queueVars, workerVars

\* A response is begun.
NextBegun ==
  /\ producer = "fetching"
  /\ answered + 1 \in 1..Len(responses)
  /\ answered' = answered + 1
  /\ chunkIndex' = chunkIndex
  /\ links' = responses[answered + 1].links
  /\ hasMore' = (answered + 1 < Len(responses))
  /\ producer' = IF responses[answered + 1].inline THEN "decoding" ELSE "linking"
  /\ initial' = <<>>
  /\ confirmed' \in BOOLEAN /\ (confirmed => confirmed')
  /\ fault' \in BOOLEAN /\ (fault => fault')
  /\ UNCHANGED <<channel, senders, pending, nextIdx, exhausted, reader, delivered, responses, operation,
                 unconfirmed, linkQueue, queueOpen, worker, work, guessing>>

\* Discovery ends with an error.
DiscoveryFailed ==
  /\ producer \in {"fetching", "decoding"}
  /\ producer' = "failing"
  /\ fault' = TRUE
  /\ UNCHANGED <<channel, senders, pending, nextIdx, exhausted, reader, delivered,
                 responses, operation, initial, answered, links, hasMore, chunkIndex, confirmed,
                 unconfirmed, linkQueue, queueOpen, worker, work, guessing>>

LEMMA BeginStep ==
  ASSUME TypeOK, producer = "fetching", answered + 1 \in 1..Len(responses), Begin(Said(responses, answered + 1))
  PROVE  /\ answered' = answered + 1
         /\ chunkIndex' = chunkIndex
         /\ links' = responses[answered + 1].links
         /\ hasMore' = (answered + 1 < Len(responses))
         /\ producer' = IF responses[answered + 1].inline THEN "decoding" ELSE "linking"
  BY DEF Begin, NextResponse, Said, ProducerAt

LEMMA FetchStep ==
  ASSUME RepliesAreUnderstood, TypeOK, Discovered, TakeInitial \/ FetchResults \/ FetchFails
  PROVE  NextBegun \/ DiscoveryFailed
<1>1. responses \in Results /\ responses \in Seq(Response) /\ Len(responses) \in Nat /\ Len(responses) # 0
  BY ResponsesFacts DEF TypeOK
<1>2. producer = "fetching"
  BY DEF TakeInitial, FetchResults, FetchFails, MayFetch
<1>3. answered + 1 \in 1..Len(responses)
  BY <1>1, <1>2 DEF TypeOK, Discovered, Discovering
<1>4. CASE TakeInitial
  <2>1. initial = <<Said(responses, 1)>> /\ answered = 0
    BY <1>4 DEF TakeInitial, Discovered
  <2>2. Begin(Said(responses, answered + 1))
    BY <1>4, <2>1 DEF TakeInitial
  <2> QED BY <1>2, <1>3, <1>4, <2>2, BeginStep
         DEF TakeInitial, NextBegun, TypeOK, reorderVars, channelVars, bufferVars, readerVars, queueVars, workerVars
<1>5. ASSUME MayFetch, NEW outcome, outcome.ok, outcome.contents = Said(responses, answered + 1),
             outcome.metadata \in BOOLEAN, Answered(outcome), fault' \in {fault, TRUE},
             UNCHANGED <<reorderVars, queueVars, worker, work, guessing>>
      PROVE  NextBegun
  <2>1. Begin(Said(responses, answered + 1))
    BY <1>5 DEF Answered
  <2>2. confirmed' = (confirmed \/ outcome.metadata) /\ UNCHANGED <<responses, operation, initial>>
    BY <1>5 DEF Answered
  <2>3. confirmed \in BOOLEAN /\ fault \in BOOLEAN /\ initial = <<>>
    BY <1>5 DEF TypeOK, MayFetch
  <2>4. confirmed' \in BOOLEAN /\ (confirmed => confirmed')
    BY <1>5, <2>2, <2>3
  <2> QED BY <1>2, <1>3, <1>5, <2>1, <2>2, <2>3, <2>4, BeginStep
         DEF NextBegun, reorderVars, channelVars, bufferVars, readerVars, queueVars
<1>6. PICK ready \in Submissions(responses) : operation = ready.operation
  BY <1>2 DEF Discovered
<1>7. answered + 1 \in DOMAIN responses
  BY <1>1, <1>3
<1>8. \A outcome \in Fetches(operation, responses, answered + 1) : outcome.ok
  BY <1>1, <1>6, <1>7 DEF RepliesAreUnderstood, Understands
<1>9. \A outcome \in Fetches(operation, responses, answered + 1) \cup Damages(operation, responses, answered + 1) :
        outcome.ok => outcome.contents = Said(responses, answered + 1) /\ outcome.metadata \in BOOLEAN
  BY <1>1, <1>6, <1>7 DEF RepliesAreUnderstood, Understands
<1>10. CASE FetchResults
  <2>1. PICK outcome \in Fetches(operation, responses, answered + 1) : Answered(outcome)
    BY <1>10 DEF FetchResults
  <2>2. outcome.ok /\ outcome.contents = Said(responses, answered + 1) /\ outcome.metadata \in BOOLEAN
    BY <1>8, <1>9
  <2>3. MayFetch /\ fault' = fault /\ UNCHANGED <<reorderVars, queueVars, worker, work, guessing>>
    BY <1>10 DEF FetchResults, workerVars
  <2> QED BY <1>5, <2>1, <2>2, <2>3
<1>11. CASE FetchFails
  <2>1. MayFetch /\ fault' = TRUE /\ UNCHANGED <<reorderVars, queueVars, worker, work, guessing>>
    BY <1>11 DEF FetchFails
  <2>2. CASE ProducerAt("failing") /\ UNCHANGED responseVars
    BY <1>2, <2>1, <2>2
       DEF DiscoveryFailed, ProducerAt, responseVars, reorderVars, channelVars, bufferVars, readerVars, queueVars
  <2>3. CASE \E outcome \in Damages(operation, responses, answered + 1) : Answered(outcome)
    <3>1. PICK outcome \in Damages(operation, responses, answered + 1) : Answered(outcome)
      BY <2>3
    <3>2. CASE outcome.ok
      <4>1. outcome.contents = Said(responses, answered + 1) /\ outcome.metadata \in BOOLEAN
        BY <1>9, <3>2
      <4> QED BY <1>5, <2>1, <3>1, <3>2, <4>1
    <3>3. CASE ~outcome.ok
      <4>1. ProducerAt("failing") /\ UNCHANGED responseVars
        BY <3>1, <3>3 DEF Answered
      <4> QED BY <2>2, <4>1
    <3> QED BY <3>2, <3>3
  <2> QED BY <1>11, <2>2, <2>3 DEF FetchFails
<1> QED BY <1>4, <1>10, <1>11


-----------------------------------------------------------------------------
(* Typing.                                                                   *)

LEMMA InitTyped == ThriftInit => LoopTyped /\ Discovered
<1> SUFFICES ASSUME ThriftInit PROVE LoopTyped /\ Discovered
  OBVIOUS
<1>1. responses \in Results /\ responses \in Seq(Response) /\ Len(responses) \in Nat /\ BlobCount(responses) \in Nat
  BY ThriftAssumption, PrefixCounts DEF ThriftInit
<1>2. ReorderTypeOK
  <2>1. <<>> \in Seq(Messages) /\ <<>> \in Seq(Blobs)
    OBVIOUS
  <2>2. pending \in [Indexes -> Seq(Blobs)]
    BY <2>1 DEF ThriftInit, ReorderInit
  <2> QED BY <2>1, <2>2 DEF ThriftInit, ReorderInit, ReorderTypeOK, ReaderStates
<1>3. producer = "submitting" /\ chunkIndex = 0 /\ answered = 0 /\ initial = <<>>
  BY DEF ThriftInit, FirstIndex
<1>4. TypeOK
  <2>1. <<>> \in Seq(Indexes) /\ <<>> \in Seq([inline : BOOLEAN, links : Nat, hasMore : BOOLEAN])
    OBVIOUS
  <2>2. /\ worker \in [Workers -> Busy \cup {"panicked", "ended"}]
        /\ work \in [Workers -> Indexes \cup {-1}]
        /\ guessing \in [Workers -> BOOLEAN]
    BY DEF ThriftInit, Busy
  <2>3. {hasMore, confirmed, queueOpen, fault} \subseteq BOOLEAN
    BY DEF ThriftInit
  <2>4. 0 \in 0..Len(responses) /\ 0 \in 0..BlobCount(responses) /\ links \in Nat
    BY <1>1 DEF ThriftInit
  <2> QED BY <1>1, <1>2, <1>3, <2>1, <2>2, <2>3, <2>4 DEF ThriftInit, TypeOK
<1>5. LoopTyped
  BY <1>3, <1>4 DEF LoopTyped, Carriers, ThriftInit
<1> QED BY <1>3, <1>5 DEF Discovered, Discovering

LEMMA PopTyped ==
  ASSUME ReorderTypeOK, NEW i \in Indexes, HasPending(i), Pop(i)
  PROVE  delivered' \in Seq(Blobs) /\ pending' \in [Indexes -> Seq(Blobs)]
<1>1. pending[i] \in Seq(Blobs) /\ pending[i] # <<>>
  BY DEF ReorderTypeOK, HasPending
<1>2. Head(pending[i]) \in Blobs /\ Tail(pending[i]) \in Seq(Blobs)
  BY <1>1
<1> QED BY <1>2 DEF Pop, ReorderTypeOK

LEMMA ReaderTyped ==
  ASSUME ReorderTypeOK, ReaderStep \/ DropReceiver
  PROVE  ReorderTypeOK'
<1> USE DEF ReorderTypeOK, ReaderStates, channelVars, bufferVars, readerVars
<1>1. CASE PopNext
  <2>1. nextIdx \in Indexes /\ HasPending(nextIdx) /\ Pop(nextIdx)
    BY <1>1 DEF PopNext, HasPending
  <2>2. delivered' \in Seq(Blobs) /\ pending' \in [Indexes -> Seq(Blobs)]
    BY <2>1, PopTyped
  <2> QED BY <1>1, <2>2 DEF PopNext
<1>2. CASE DrainLowest
  <2>1. PICK i \in Indexes : HasPending(i) /\ Pop(i)
    BY <1>2 DEF DrainLowest
  <2>2. delivered' \in Seq(Blobs) /\ pending' \in [Indexes -> Seq(Blobs)]
    BY <2>1, PopTyped
  <2> QED BY <1>2, <2>2 DEF DrainLowest
<1>3. CASE ReachEnd
  BY <1>3 DEF ReachEnd
<1>4. CASE ReceiveItem
  <2>1. Head(channel) \in Blobs /\ Tail(channel) \in Seq(Messages)
    BY <1>4 DEF ReceiveItem, Messages
  <2>2. Head(channel).index \in Indexes
    BY <2>1, ABlob
  <2>3. Append(pending[Head(channel).index], Head(channel)) \in Seq(Blobs)
    BY <2>1, <2>2
  <2> QED BY <1>4, <2>1, <2>2, <2>3 DEF ReceiveItem, Store
<1>5. CASE ReceiveError
  BY <1>5 DEF ReceiveError
<1>6. CASE ReceiveClosed
  BY <1>6 DEF ReceiveClosed
<1>7. CASE DropReceiver
  BY <1>7 DEF DropReceiver
<1> QED BY <1>1, <1>2, <1>3, <1>4, <1>5, <1>6, <1>7 DEF ReaderStep

\* While discovery goes on, the next index is one of the result.
LEMMA NextIndex ==
  ASSUME TypeOK, Discovered, producer \in Discovering
  PROVE  /\ chunkIndex \in Nat /\ links \in Nat /\ chunkIndex + Undiscovered <= BlobCount(responses)
         /\ Undiscovered > 0 => chunkIndex \in Indexes /\ chunkIndex + 1 \in 0..BlobCount(responses)
<1>1. /\ chunkIndex \in 0..BlobCount(responses) /\ links \in Nat /\ answered \in 0..Len(responses)
      /\ chunkIndex + Undiscovered = BlobsUpTo(responses)[answered]
  BY DEF TypeOK, Discovered
<1>2. /\ BlobCount(responses) \in Nat /\ 0..BlobCount(responses) - 1 \subseteq Indexes
      /\ BlobsUpTo(responses)[answered] <= BlobCount(responses)
  BY <1>1, ResponsesFacts
<1>3. Undiscovered \in Nat
  BY <1>1 DEF Undiscovered
<1>4. Undiscovered > 0 => chunkIndex \in 0..BlobCount(responses) - 1
  BY <1>1, <1>2, <1>3
<1> QED BY <1>1, <1>2, <1>3, <1>4

LEMMA SubmitTyped ==
  ASSUME RepliesAreUnderstood, LoopTyped, Discovered, Submit
  PROVE  LoopTyped' /\ Discovered'
<1>1. /\ producer = "submitting" /\ producer' = "fetching"
      /\ \E ready \in Submissions(responses) : operation' = ready.operation
      /\ initial' \in {<<>>, <<Said(responses, 1)>>}
      /\ confirmed' \in BOOLEAN
      /\ UNCHANGED <<channel, senders, pending, nextIdx, exhausted, reader, delivered,
                     responses, answered, links, hasMore, chunkIndex,
                     unconfirmed, linkQueue, queueOpen, worker, work, guessing, fault>>
  BY SubmitStep DEF LoopTyped
<1>2. /\ responses \in Seq(Response) /\ Len(responses) \in Nat /\ Len(responses) # 0
      /\ BlobsUpTo(responses)[0] = 0
  BY ResponsesFacts, BlobSums DEF LoopTyped
<1>3. initial' \in Seq([inline : BOOLEAN, links : Nat, hasMore : BOOLEAN])
  <2>1. responses[1].inline \in BOOLEAN /\ responses[1].links \in Nat
    BY <1>2, BlobsInIsNat
  <2>2. Said(responses, 1) \in [inline : BOOLEAN, links : Nat, hasMore : BOOLEAN]
    BY <1>2, <2>1 DEF Said
  <2> DEFINE First == Said(responses, 1)
             Contents == [inline : BOOLEAN, links : Nat, hasMore : BOOLEAN]
  <2>3. initial' = <<>> \/ initial' = <<First>>
    BY <1>1
  <2> HIDE DEF First, Contents
  <2>4. First \in Contents
    BY <2>2 DEF First, Contents
  <2>5. <<>> \in Seq(Contents) /\ <<First>> \in Seq(Contents)
    BY <2>4
  <2>6. initial' \in Seq(Contents)
    BY <2>3, <2>5
  <2> QED BY <2>6 DEF Contents
<1>4. LoopTyped'
  BY <1>1, <1>3 DEF LoopTyped, TypeOK, ReorderTypeOK, Producing, Discovering, Carriers
<1>5. chunkIndex = 0 /\ answered = 0
  BY <1>1 DEF Discovered
<1>6. Undiscovered' = 0
  BY <1>1 DEF Undiscovered
<1> QED BY <1>1, <1>2, <1>4, <1>5, <1>6 DEF Discovered, Discovering

LEMMA FetchTyped ==
  ASSUME RepliesAreUnderstood, LoopTyped, Discovered, TakeInitial \/ FetchResults \/ FetchFails
  PROVE  LoopTyped' /\ Discovered'
<1>1. NextBegun \/ DiscoveryFailed
  BY FetchStep DEF LoopTyped
<1>2. CASE NextBegun
  <2> DEFINE n == answered + 1
  <2>1. responses \in Seq(Response) /\ n \in 1..Len(responses) /\ answered \in Nat
    BY <1>2, ResponsesFacts DEF NextBegun, LoopTyped, TypeOK
  <2>2. /\ responses[n].inline \in BOOLEAN /\ responses[n].links \in Nat
        /\ BlobsIn(responses[n]) = responses[n].links + IF responses[n].inline THEN 1 ELSE 0
        /\ BlobsUpTo(responses)[n] = BlobsUpTo(responses)[answered] + BlobsIn(responses[n])
    BY <2>1, BlobsInIsNat, BlobSums
  <2>3. LoopTyped'
    BY <1>2, <2>1, <2>2 DEF NextBegun, LoopTyped, TypeOK, ReorderTypeOK, Producing, Discovering, Carriers
  <2>4. Undiscovered' = BlobsIn(responses[n])
    BY <1>2, <2>2 DEF NextBegun, Undiscovered
  <2>5. chunkIndex \in Nat /\ chunkIndex = BlobsUpTo(responses)[answered]
    <3>1. Undiscovered = 0
      BY <1>2 DEF NextBegun, Undiscovered
    <3> QED BY <1>2, <3>1, PrefixCounts, <2>1 DEF NextBegun, Discovered, Discovering, LoopTyped, TypeOK
  <2>6. (chunkIndex + Undiscovered = BlobsUpTo(responses)[answered])'
    BY <1>2, <2>2, <2>4, <2>5 DEF NextBegun
  <2>7. answered' # 0 /\ hasMore' = (answered' < Len(responses)) /\ producer' \in {"decoding", "linking"}
        /\ initial' = <<>> /\ operation' = operation /\ responses' = responses
    BY <1>2, <2>1 DEF NextBegun
  <2>8. \E ready \in Submissions(responses) : operation = ready.operation
    BY <1>2 DEF NextBegun, Discovered
  <2>9. Discovered'
    BY <2>6, <2>7, <2>8 DEF Discovered
  <2> QED BY <2>3, <2>9
<1>3. CASE DiscoveryFailed
  <2>1. LoopTyped'
    BY <1>3 DEF DiscoveryFailed, LoopTyped, TypeOK, ReorderTypeOK, Producing, Discovering, Carriers
  <2>2. Discovered'
    BY <1>3 DEF DiscoveryFailed, Discovered, Discovering
  <2> QED BY <2>1, <2>2
<1> QED BY <1>1, <1>2, <1>3


LEMMA LoopTypes ==
  ASSUME LoopTyped
  PROVE  /\ channel \in Seq(Messages) /\ pending \in [Indexes -> Seq(Blobs)]
         /\ nextIdx \in Nat /\ delivered \in Seq(Blobs)
         /\ unconfirmed \in Seq(Indexes) /\ linkQueue \in Seq(Indexes)
         /\ worker \in [Workers -> Busy \cup {"panicked", "ended"}]
         /\ work \in [Workers -> Indexes \cup {-1}]
         /\ guessing \in [Workers -> BOOLEAN]
         /\ links \in Nat /\ chunkIndex \in Nat /\ answered \in Nat
         /\ \A w \in Carriers : work[w] \in Indexes
  BY ResponsesFacts DEF LoopTyped, TypeOK, ReorderTypeOK

LEMMA InlineIndex ==
  ASSUME LoopTyped, producer = "sending"
  PROVE  chunkIndex - 1 \in Indexes
<1>1. BlobCount(responses) \in Nat /\ 0..BlobCount(responses) - 1 \subseteq Indexes
  BY ResponsesFacts DEF LoopTyped
<1>2. chunkIndex - 1 \in 0..BlobCount(responses) - 1
  BY <1>1 DEF LoopTyped, TypeOK
<1> QED BY <1>1, <1>2

LEMMA SendTyped ==
  ASSUME ReorderTypeOK, NEW m \in Messages, Send(m), senders' \in BOOLEAN, UNCHANGED <<bufferVars, readerVars>>
  PROVE  ReorderTypeOK'
<1>1. Append(channel, m) \in Seq(Messages)
  BY DEF ReorderTypeOK
<1> QED BY <1>1 DEF ReorderTypeOK, Send, bufferVars, readerVars

LEMMA ProducerTyped ==
  ASSUME LoopTyped, Discovered,
         \/ StopDiscovery \/ SendInline \/ SendFailure \/ HoldLink \/ QueueLink \/ QueueHeldBack
         \/ ResponseDone \/ CloseQueue \/ JoinWorkers \/ ReportPanic \/ DecodeInline \/ CleanUp
  PROVE  LoopTyped' /\ Discovered'
<1> USE DEF LoopTyped, TypeOK, Carriers, Producing, Discovering, ProducerAt, reorderVars, channelVars,
            bufferVars, readerVars, responseVars, queueVars, workerVars
<1>0. Failure \in Messages
  BY DEF Messages
<1>1. CASE StopDiscovery
  BY <1>1 DEF StopDiscovery, Discovered, ReorderTypeOK, Undiscovered
<1>2. CASE SendInline
  <2>1. ReorderTypeOK'
    <3>1. CASE Send(Item(chunkIndex - 1, 1)) /\ UNCHANGED <<senders, bufferVars, readerVars>>
      <4>3. Item(chunkIndex - 1, 1) \in Messages
        BY <1>2, InlineIndex, AnItem DEF SendInline
      <4>4. senders' \in BOOLEAN
        BY <3>1 DEF ReorderTypeOK
      <4> QED BY <3>1, <4>3, <4>4, SendTyped
    <3>2. CASE UNCHANGED reorderVars
      BY <3>2 DEF ReorderTypeOK
    <3> QED BY <1>2, <3>1, <3>2 DEF SendInline
  <2>2. LoopTyped'
    BY <1>2, <2>1 DEF SendInline
  <2>3. Discovered'
    BY <1>2 DEF SendInline, Discovered, Undiscovered
  <2> QED BY <2>2, <2>3
<1>3. CASE SendFailure
  <2>1. ReorderTypeOK'
    <3>1. CASE Send(Failure) /\ UNCHANGED <<senders, bufferVars, readerVars>>
      <4>1. senders' \in BOOLEAN
        BY <3>1 DEF ReorderTypeOK
      <4> QED BY <1>0, <3>1, <4>1, SendTyped
    <3>2. CASE UNCHANGED reorderVars
      BY <3>2 DEF ReorderTypeOK
    <3> QED BY <1>3, <3>1, <3>2 DEF SendFailure
  <2> QED BY <1>3, <2>1 DEF SendFailure, Discovered
<1>4. CASE HoldLink
  <2>1. producer = "linking" /\ Undiscovered = links /\ links > 0
    BY <1>4 DEF HoldLink, Undiscovered
  <2>2. chunkIndex \in Indexes /\ chunkIndex + 1 \in 0..BlobCount(responses)
    BY <2>1, NextIndex
  <2>3. Append(unconfirmed, chunkIndex) \in Seq(Indexes)
    BY <2>2
  <2>4. LoopTyped'
    BY <1>4, <2>1, <2>2, <2>3 DEF HoldLink, ReorderTypeOK
  <2>5. Undiscovered' = links - 1 /\ chunkIndex \in Nat /\ links \in Nat
    BY <1>4, ResponsesFacts DEF HoldLink, Undiscovered
  <2>6. Discovered'
    BY <1>4, <2>1, <2>5 DEF HoldLink, Discovered
  <2> QED BY <2>4, <2>6
<1>5. CASE QueueLink
  <2>1. producer = "linking" /\ Undiscovered = links /\ links > 0
    BY <1>5 DEF QueueLink, Undiscovered
  <2>2. chunkIndex \in Indexes /\ chunkIndex + 1 \in 0..BlobCount(responses)
    BY <2>1, NextIndex
  <2>3. Append(linkQueue, chunkIndex) \in Seq(Indexes)
    BY <2>2
  <2>4. LoopTyped'
    <3>1. ReorderTypeOK'
      BY <1>5 DEF QueueLink, ReorderTypeOK
    <3>a. linkQueue' \in {linkQueue, Append(linkQueue, chunkIndex)} /\ links' \in {links, links - 1}
      BY <1>5 DEF QueueLink
    <3>b. links - 1 \in Nat /\ links \in Nat
      BY <2>1
    <3>2. linkQueue' \in Seq(Indexes) /\ links' \in Nat
      BY <2>3, <3>a, <3>b
    <3>3. producer' \in {"linking", "flushing"}
      BY <1>5 DEF QueueLink
    <3> QED BY <1>5, <2>2, <3>1, <3>2, <3>3 DEF QueueLink
  <2>5. chunkIndex \in Nat /\ links \in Nat /\ (producer' = "linking" => Undiscovered' = links - 1)
    BY <1>5, ResponsesFacts DEF QueueLink, Undiscovered
  <2>6. Discovered'
    BY <1>5, <2>1, <2>5 DEF QueueLink, Discovered
  <2> QED BY <2>4, <2>6
<1>6. CASE QueueHeldBack
  <2>1. Tail(unconfirmed) \in Seq(Indexes) /\ Append(linkQueue, Head(unconfirmed)) \in Seq(Indexes)
    BY <1>6 DEF QueueHeldBack
  <2>2. LoopTyped'
    <3>1. ReorderTypeOK'
      BY <1>6 DEF QueueHeldBack, ReorderTypeOK
    <3>2. <<>> \in Seq(Indexes)
      OBVIOUS
    <3>3. linkQueue' \in Seq(Indexes) /\ unconfirmed' \in Seq(Indexes)
      BY <1>6, <2>1, <3>2 DEF QueueHeldBack
    <3>4. producer' \in {"linking", "flushing"}
      BY <1>6 DEF QueueHeldBack
    <3> QED BY <1>6, <3>1, <3>3, <3>4 DEF QueueHeldBack
  <2>3. Discovered'
    BY <1>6 DEF QueueHeldBack, Discovered, Undiscovered
  <2> QED BY <2>2, <2>3
<1>7. CASE ResponseDone
  <2>1. LoopTyped'
    BY <1>7 DEF ResponseDone, ReorderTypeOK
  <2>2. Discovered'
    BY <1>7 DEF ResponseDone, Discovered, Undiscovered
  <2> QED BY <2>1, <2>2
<1>8. CASE CloseQueue
  BY <1>8 DEF CloseQueue, ReorderTypeOK, Discovered
<1>9. CASE JoinWorkers
  BY <1>9 DEF JoinWorkers, ReorderTypeOK, Discovered
<1>10. CASE ReportPanic
  <2>1. ReorderTypeOK'
    <3>1. CASE Send(Failure)
      BY <1>0, <1>10, <3>1, SendTyped DEF ReportPanic
    <3>2. CASE UNCHANGED channel
      BY <1>10, <3>2 DEF ReportPanic, ReorderTypeOK
    <3> QED BY <1>10, <3>1, <3>2 DEF ReportPanic
  <2> QED BY <1>10, <2>1 DEF ReportPanic, Discovered
<1>11. CASE DecodeInline
  <2>1. Undiscovered = links + 1 /\ producer = "decoding" /\ links \in Nat
    BY <1>11 DEF DecodeInline, Undiscovered
  <2>2. chunkIndex \in Nat /\ chunkIndex + 1 \in 0..BlobCount(responses)
    BY <2>1, NextIndex
  <2>3. LoopTyped'
    <3>1. ReorderTypeOK'
      BY <1>11 DEF DecodeInline, ReorderTypeOK
    <3>2. chunkIndex' \in 0..BlobCount(responses) /\ (producer' = "sending" => chunkIndex' # 0)
      BY <1>11, <2>2 DEF DecodeInline
    <3>3. producer' \in {"sending", "failing"}
      BY <1>11 DEF DecodeInline
    <3>4. fault' \in BOOLEAN
      BY <1>11, <3>3 DEF DecodeInline
    <3> QED BY <1>11, <3>1, <3>2, <3>3, <3>4 DEF DecodeInline
  <2>4. producer' \in {"sending", "failing"} /\ (producer' = "sending" => chunkIndex' = chunkIndex + 1 /\ Undiscovered' = links)
    BY <1>11 DEF DecodeInline, Undiscovered
  <2>5. producer' = "sending" => (chunkIndex + Undiscovered = BlobsUpTo(responses)[answered])'
    BY <1>11, <2>1, <2>2, <2>4 DEF DecodeInline, Discovered
  <2>6. producer # "fetching" /\ UNCHANGED <<responses, operation, initial, answered, hasMore>>
    BY <1>11 DEF DecodeInline
  <2>7. Discovered'
    BY <2>1, <2>4, <2>5, <2>6 DEF Discovered
  <2> QED BY <2>3, <2>7
<1>12. CASE CleanUp
  BY <1>12 DEF CleanUp, ReorderTypeOK, Discovered
<1> QED BY <1>1, <1>2, <1>3, <1>4, <1>5, <1>6, <1>7, <1>8, <1>9, <1>10, <1>11, <1>12

WorkerSteps(w) == TakeLink(w) \/ QueueDrained(w) \/ FetchLink(w) \/ SendBlob(w) \/ StopWorker(w)

LEMMA WorkerTyped ==
  ASSUME LoopTyped, Discovered, NEW w \in Workers, WorkerSteps(w)
  PROVE  LoopTyped' /\ Discovered'
<1> USE DEF LoopTyped, TypeOK, Carriers, Become, reorderVars, channelVars, bufferVars, readerVars, responseVars,
            queueVars, Busy
<1>1. CASE TakeLink(w)
  <2>1. Head(linkQueue) \in Indexes /\ Tail(linkQueue) \in Seq(Indexes)
    BY <1>1 DEF TakeLink
  <2>2. /\ worker' \in [Workers -> Busy \cup {"panicked", "ended"}]
        /\ work' \in [Workers -> Indexes \cup {-1}]
        /\ guessing' \in [Workers -> BOOLEAN]
    BY <1>1, <2>1 DEF TakeLink
  <2>3. \A v \in Carriers' : work'[v] \in Indexes
    BY <1>1, <2>1 DEF TakeLink
  <2>4. LoopTyped'
    BY <1>1, <2>1, <2>2, <2>3 DEF TakeLink, ReorderTypeOK
  <2> QED BY <1>1, <2>4 DEF TakeLink, Discovered, Undiscovered
<1>2. CASE QueueDrained(w)
  BY <1>2 DEF QueueDrained, ReorderTypeOK, Discovered, Undiscovered
<1>3. CASE FetchLink(w)
  <2>1. worker' \in [Workers -> Busy \cup {"panicked", "ended"}] /\ fault' \in BOOLEAN
    BY <1>3 DEF FetchLink
  <2>2. Carriers' \subseteq Carriers
    BY <1>3 DEF FetchLink
  <2>3. LoopTyped'
    BY <1>3, <2>1, <2>2 DEF FetchLink, ReorderTypeOK
  <2> QED BY <1>3, <2>3 DEF FetchLink, Discovered, Undiscovered
<1>4. CASE SendBlob(w)
  <2>1. (IF worker[w] = "sending" THEN Item(work[w], 1) ELSE Failure) \in Messages
    <3>1. Failure \in Messages
      BY DEF Messages
    <3>2. CASE worker[w] = "sending"
      BY <3>2, AnItem
    <3> QED BY <3>1, <3>2
  <2>2. ReorderTypeOK'
    <3>1. senders' \in BOOLEAN
      BY <1>4 DEF SendBlob, ReorderTypeOK
    <3> QED BY <1>4, <2>1, <3>1, SendTyped DEF SendBlob
  <2>3. LoopTyped'
    BY <1>4, <2>2 DEF SendBlob
  <2> QED BY <1>4, <2>3 DEF SendBlob, Discovered, Undiscovered
<1>5. CASE StopWorker(w)
  BY <1>5 DEF StopWorker, ReorderTypeOK, Discovered, Undiscovered
<1> QED BY <1>1, <1>2, <1>3, <1>4, <1>5 DEF WorkerSteps

LEMMA ReaderMovesTyped ==
  ASSUME LoopTyped, Discovered, ReaderMoves
  PROVE  LoopTyped' /\ Discovered'
<1>1. ReorderTypeOK'
  BY ReaderTyped DEF ReaderMoves, LoopTyped, TypeOK
<1> QED BY <1>1 DEF ReaderMoves, LoopTyped, TypeOK, Carriers, Discovered, Undiscovered, responseVars, queueVars, workerVars

LEMMA NextTyped ==
  ASSUME RepliesAreUnderstood
  PROVE  LoopTyped /\ Discovered /\ [ThriftNext]_thriftVars => LoopTyped' /\ Discovered'
<1> SUFFICES ASSUME LoopTyped, Discovered, [ThriftNext]_thriftVars PROVE LoopTyped' /\ Discovered'
  OBVIOUS
<1>1. CASE UNCHANGED thriftVars
  BY <1>1 DEF thriftVars, LoopTyped, TypeOK, ReorderTypeOK, Carriers, Discovered, Undiscovered, reorderVars,
              channelVars, bufferVars, readerVars, responseVars, queueVars, workerVars
<1>2. ASSUME NEW w \in Workers, WorkerSteps(w) PROVE LoopTyped' /\ Discovered'
  BY <1>2, WorkerTyped
<1> QED BY <1>1, <1>2, SubmitTyped, FetchTyped, ProducerTyped, ReaderMovesTyped DEF ThriftNext, ProducerStep, WorkerSteps

\* The state of the loop, of its workers and of the reorder buffer is always of
\* its type: the counter of run_thrift_fetch_loop never leaves the result.
THEOREM LoopIsTyped ==
  ASSUME RepliesAreUnderstood
  PROVE  ThriftSpec => []TypeOK
<1>1. LoopTyped => TypeOK
  BY DEF LoopTyped
<1> QED BY <1>1, InitTyped, NextTyped, PTL DEF ThriftSpec


-----------------------------------------------------------------------------
(* Compression: nothing is queued for the workers before it is confirmed, as  *)
(* long as there is more to discover.                                        *)

ConfirmedFirst ==
  /\ producer = "submitting" =>
       linkQueue = <<>> /\ queueOpen /\ reader # "dropped" /\ \A w \in Workers : worker[w] = "idle"
  /\ producer \in Discovering => confirmed \/ linkQueue = <<>>
  /\ \A w \in Workers : worker[w] = "fetching" /\ guessing[w] => producer \notin Discovering

LEMMA ConfirmedFirstStep ==
  ASSUME RepliesAreUnderstood, LoopTyped, Discovered, ConfirmedFirst, [ThriftNext]_thriftVars
  PROVE  ConfirmedFirst'
<1> USE DEF Discovering, ProducerAt
<1>1. CASE Submit
  <2>1. /\ producer = "submitting" /\ producer' = "fetching"
        /\ UNCHANGED <<linkQueue, worker, guessing>>
    BY <1>1, SubmitStep DEF LoopTyped
  <2> QED BY <2>1 DEF ConfirmedFirst
<1>2. CASE TakeInitial \/ FetchResults \/ FetchFails
  <2>1. NextBegun \/ DiscoveryFailed
    BY <1>2, FetchStep DEF LoopTyped
  <2>2. producer \in Discovering /\ producer' # "submitting" /\ UNCHANGED <<linkQueue, worker, guessing>> /\ (confirmed => confirmed')
    BY <2>1 DEF NextBegun, DiscoveryFailed
  <2> QED BY <2>2 DEF ConfirmedFirst
<1>3. CASE QueueLink \/ QueueHeldBack
  <2>1. /\ UNCHANGED <<worker, guessing, confirmed>>
        /\ producer \in {"linking", "flushing"} /\ producer' \in {producer, "flushing"}
        /\ producer = "linking" => confirmed
    BY <1>3 DEF QueueLink, QueueHeldBack, HoldsBack, responseVars, workerVars
  <2> QED BY <2>1 DEF ConfirmedFirst
<1>4. CASE \/ StopDiscovery \/ SendInline \/ SendFailure \/ HoldLink \/ ResponseDone
           \/ CloseQueue \/ JoinWorkers \/ ReportPanic \/ DecodeInline \/ CleanUp
  <2>1. /\ UNCHANGED <<linkQueue, worker, guessing, confirmed>>
        /\ producer # "submitting" /\ producer' # "submitting"
        /\ producer' \in Discovering => producer \in Discovering
    BY <1>4 DEF StopDiscovery, SendInline, SendFailure, HoldLink, ResponseDone, CloseQueue, JoinWorkers, ReportPanic,
                DecodeInline, CleanUp, responseVars, queueVars, workerVars
  <2> QED BY <2>1 DEF ConfirmedFirst
<1>5. ASSUME NEW w \in Workers, TakeLink(w) PROVE ConfirmedFirst'
  <2>1. linkQueue # <<>> /\ UNCHANGED <<producer, confirmed>>
    BY <1>5 DEF TakeLink, responseVars
  <2>2. linkQueue' = Tail(linkQueue) /\ linkQueue \in Seq(Indexes)
    BY <1>5, LoopTypes DEF TakeLink
  <2>3. worker' = [worker EXCEPT ![w] = "fetching"] /\ guessing' = [guessing EXCEPT ![w] = ~confirmed]
    BY <1>5 DEF TakeLink, Become
  <2>4. \A v \in Workers : worker'[v] = "fetching" /\ guessing'[v] =>
          (worker[v] = "fetching" /\ guessing[v]) \/ ~confirmed
    BY <2>3, LoopTypes
  <2> QED BY <2>1, <2>2, <2>4 DEF ConfirmedFirst
<1>6. ASSUME NEW w \in Workers, QueueDrained(w) \/ FetchLink(w) \/ SendBlob(w) \/ StopWorker(w) PROVE ConfirmedFirst'
  <2>1. /\ UNCHANGED <<producer, confirmed, linkQueue, guessing>>
        /\ \A v \in Workers : worker'[v] = "fetching" => worker[v] = "fetching"
    BY <1>6, LoopTypes DEF QueueDrained, FetchLink, SendBlob, StopWorker, Become, responseVars, queueVars
  <2>2. producer # "submitting"
    BY <1>6 DEF QueueDrained, FetchLink, SendBlob, StopWorker, ConfirmedFirst
  <2> QED BY <2>1, <2>2 DEF ConfirmedFirst
<1>7. CASE ReaderMoves
  BY <1>7 DEF ReaderMoves, ConfirmedFirst, responseVars, queueVars, workerVars
<1>8. CASE UNCHANGED thriftVars
  BY <1>8 DEF thriftVars, ConfirmedFirst, reorderVars, readerVars, responseVars, queueVars, workerVars
<1> QED BY <1>1, <1>2, <1>3, <1>4, <1>5, <1>6, <1>7, <1>8 DEF ThriftNext, ProducerStep

LEMMA InitConfirmedFirst == ThriftInit => ConfirmedFirst
  BY DEF ThriftInit, ReorderInit, ConfirmedFirst, Discovering

\* No download starts on a guess of the compression while discovery goes on,
\* whatever the responses carry and whenever one of them has the metadata.
THEOREM CompressionIsKnownFirst ==
  ASSUME RepliesAreUnderstood
  PROVE  ThriftSpec => []CompressionIsKnown
<1>1. ThriftInit => LoopTyped /\ Discovered /\ ConfirmedFirst
  BY InitTyped, InitConfirmedFirst
<1>2. LoopTyped /\ Discovered /\ ConfirmedFirst /\ [ThriftNext]_thriftVars => (LoopTyped /\ Discovered /\ ConfirmedFirst)'
  BY NextTyped, ConfirmedFirstStep
<1>3. LoopTyped /\ ConfirmedFirst => CompressionIsKnown
  BY DEF LoopTyped, ConfirmedFirst, CompressionIsKnown
<1> QED BY <1>1, <1>2, <1>3, PTL DEF ThriftSpec

-----------------------------------------------------------------------------
(* Failures: there is one on its way to the reader, or it has been told.       *)

Troubled ==
  \/ reader = "failed"
  \/ Failure \in Elements(channel)
  \/ producer \in {"failing", "reporting"}
  \/ \E w \in Workers : worker[w] = "sending_error"
  \/ WorkerPanicked /\ producer \notin {"closing", "ended"}

FaultKnown == Troubled => fault

\* What a message changes of the failures in the channel.
LEMMA ChannelFailure ==
  ASSUME ReorderTypeOK
  PROVE  /\ \A m \in Messages : Send(m) => (Failure \in Elements(channel)' <=> Failure \in Elements(channel) \/ m = Failure)
         /\ channel # <<>> /\ channel' = Tail(channel) =>
              (Failure \in Elements(channel) <=> Failure \in Elements(channel)' \/ Head(channel) = Failure)
         /\ channel' = channel => Elements(channel)' = Elements(channel)
         /\ channel' = <<>> => Elements(channel)' = {}
<1>1. channel \in Seq(Messages)
  BY DEF ReorderTypeOK
<1>2. ASSUME NEW m \in Messages, Send(m) PROVE Elements(channel)' = Elements(channel) \cup {m}
  <2>1. channel' = Append(channel, m)
    BY <1>2 DEF Send
  <2>2. Elements(Append(channel, m)) = Elements(channel) \cup {m}
    BY <1>1, ElementsAppend
  <2>3. Elements(channel)' = Elements(Append(channel, m))
    BY <2>1 DEF Elements
  <2> QED BY <2>2, <2>3
<1>3. ASSUME channel # <<>>, channel' = Tail(channel) PROVE Elements(channel) = Elements(channel)' \cup {Head(channel)}
  <2>1. Elements(channel)' = Elements(Tail(channel))
    BY <1>3 DEF Elements
  <2> QED BY <1>1, <1>3, <2>1, ElementsTail
<1>4. channel' = channel => Elements(channel)' = Elements(channel)
  BY DEF Elements
<1>5. channel' = <<>> => Elements(channel)' = {}
  BY DEF Elements
<1> QED BY <1>2, <1>3, <1>4, <1>5


\* A failure stays until the reader has been told of it or has left, and none
\* comes from nothing.
TroubleKept ==
  /\ Troubled => Troubled' \/ reader' = "dropped"
  /\ Troubled' => Troubled \/ fault'
  /\ fault => fault'

\* Of a step that only the producer sees.
LEMMA QuietTrouble ==
  ASSUME fault => fault', UNCHANGED <<channel, reader, worker>>,
         producer \notin {"failing", "reporting"}, producer' # "reporting", producer' = "failing" => fault',
         producer \in {"closing", "ended"} <=> producer' \in {"closing", "ended"}
  PROVE  TroubleKept
<1>1. Elements(channel)' = Elements(channel) /\ WorkerPanicked' = WorkerPanicked
  BY DEF Elements, WorkerPanicked
<1> QED BY <1>1 DEF TroubleKept, Troubled

LEMMA TroubleStep ==
  ASSUME RepliesAreUnderstood, LoopTyped, Discovered, [ThriftNext]_thriftVars
  PROVE  TroubleKept
<1> USE DEF Discovering, ProducerAt, reorderVars, channelVars, bufferVars, readerVars, responseVars, queueVars, workerVars
<1>0. ReorderTypeOK /\ Failure \in Messages
  BY DEF LoopTyped, TypeOK, Messages
<1>1. CASE Submit
  <2>1. /\ producer = "submitting" /\ producer' = "fetching" /\ UNCHANGED <<channel, reader, worker, fault>>
    BY <1>1, SubmitStep DEF LoopTyped
  <2> QED BY <2>1, QuietTrouble
<1>2. CASE TakeInitial \/ FetchResults \/ FetchFails
  <2>1. NextBegun \/ DiscoveryFailed
    BY <1>2, FetchStep DEF LoopTyped
  <2> QED BY <2>1, QuietTrouble DEF NextBegun, DiscoveryFailed
<1>3. CASE StopDiscovery \/ HoldLink \/ QueueLink \/ QueueHeldBack \/ ResponseDone \/ CloseQueue \/ CleanUp
  <2>1. UNCHANGED <<channel, reader, worker, fault>>
    BY <1>3 DEF StopDiscovery, HoldLink, QueueLink, QueueHeldBack, ResponseDone, CloseQueue, CleanUp
  <2>2. /\ producer \in {"fetching", "linking", "flushing", "closing"}
        /\ producer' \in {"fetching", "linking", "flushing", "joining", "ended"}
        /\ producer = "closing" <=> producer' = "ended"
    <3> USE DEF ProducerAt
    <3>1. CASE StopDiscovery
      BY <3>1 DEF StopDiscovery
    <3>2. CASE HoldLink
      BY <3>2 DEF HoldLink
    <3>3. CASE QueueLink
      BY <3>3 DEF QueueLink
    <3>4. CASE QueueHeldBack
      BY <3>4 DEF QueueHeldBack
    <3>5. CASE ResponseDone
      BY <3>5 DEF ResponseDone
    <3>6. CASE CloseQueue
      BY <3>6 DEF CloseQueue
    <3>7. CASE CleanUp
      BY <3>7 DEF CleanUp
    <3> QED BY <1>3, <3>1, <3>2, <3>3, <3>4, <3>5, <3>6, <3>7
  <2> QED BY <2>1, <2>2, QuietTrouble
<1>11. CASE DecodeInline
  <2>1. UNCHANGED <<channel, reader, worker>> /\ producer = "decoding" /\ producer' \in {"sending", "failing"}
    BY <1>11 DEF DecodeInline
  <2>2. fault' = (fault \/ producer' = "failing")
    BY <1>11 DEF DecodeInline
  <2>3. (fault => fault') /\ (producer' = "failing" => fault')
    BY <2>2
  <2> QED BY <2>1, <2>3, QuietTrouble
<1>4. CASE SendInline
  <2>1. /\ producer = "sending" /\ producer' \in {"flushing", "linking"} /\ UNCHANGED <<reader, worker, fault>>
        /\ \/ UNCHANGED channel
           \/ Send(Item(chunkIndex - 1, 1))
    BY <1>4 DEF SendInline
  <2>2. Failure \in Elements(channel)' <=> Failure \in Elements(channel)
    <3>1. CASE Send(Item(chunkIndex - 1, 1))
      <4>1. Item(chunkIndex - 1, 1) \in Messages /\ Item(chunkIndex - 1, 1) # Failure
        BY <2>1, InlineIndex, AnItem
      <4> QED BY <1>0, <3>1, <4>1, ChannelFailure
    <3> QED BY <1>0, <2>1, <3>1, ChannelFailure
  <2> QED BY <2>1, <2>2 DEF TroubleKept, Troubled, WorkerPanicked
<1>5. CASE SendFailure \/ ReportPanic
  <2>1. /\ producer \in {"failing", "reporting"} /\ UNCHANGED <<reader, worker, fault>>
        /\ reader = "dropped" \/ Send(Failure)
    BY <1>5 DEF SendFailure, ReportPanic
  <2>2. Send(Failure) => Failure \in Elements(channel)'
    BY <1>0, ChannelFailure
  <2> QED BY <2>1, <2>2 DEF TroubleKept, Troubled
<1>6. CASE JoinWorkers
  <2>1. /\ producer = "joining" /\ UNCHANGED <<channel, reader, worker, fault>>
        /\ \A w \in Workers : worker[w] # "sending_error"
        /\ WorkerPanicked <=> producer' = "reporting"
        /\ producer' \in {"reporting", "closing"}
    BY <1>6 DEF JoinWorkers, Busy
  <2> QED BY <2>1 DEF TroubleKept, Troubled, WorkerPanicked, Elements
<1>7. ASSUME NEW w \in Workers, TakeLink(w) \/ QueueDrained(w) \/ FetchLink(w) \/ StopWorker(w) PROVE TroubleKept
  <2>1. /\ UNCHANGED <<channel, reader, producer>> /\ Elements(channel)' = Elements(channel)
        /\ \A v \in Workers \ {w} : worker'[v] = worker[v]
    BY <1>7, LoopTypes DEF TakeLink, QueueDrained, FetchLink, StopWorker, Become, Elements
  <2>2. /\ worker[w] = "sending_error" => reader = "dropped"
        /\ worker[w] # "panicked"
    BY <1>7, LoopTypes DEF TakeLink, QueueDrained, FetchLink, StopWorker, Become, Busy
  <2>3. (fault => fault') /\ (worker'[w] \in {"sending_error", "panicked"} => fault')
    <3>1. CASE TakeLink(w) \/ QueueDrained(w) \/ StopWorker(w)
      <4>1. fault' = fault /\ worker'[w] \in {"fetching", "ended"}
        BY <3>1, LoopTypes DEF TakeLink, QueueDrained, StopWorker, Become
      <4> QED BY <4>1
    <3>2. CASE FetchLink(w)
      <4>1. PICK state \in {"sending", "sending_error", "panicked"} : Become(w, state) /\ fault' = (fault \/ state # "sending")
        BY <3>2 DEF FetchLink
      <4>2. worker'[w] = state
        BY <4>1, LoopTypes DEF Become
      <4>3. (fault => fault') /\ (state \in {"sending_error", "panicked"} => fault')
        BY <4>1
      <4> QED BY <4>2, <4>3
    <3> QED BY <1>7, <3>1, <3>2
  <2>4. ASSUME reader' # "dropped"
        PROVE  \A v \in Workers : /\ worker[v] = "sending_error" => worker'[v] = "sending_error"
                                  /\ worker[v] = "panicked" => worker'[v] = "panicked"
    BY <2>1, <2>2, <2>4
  <2>5. ASSUME ~fault'
        PROVE  \A v \in Workers : /\ worker'[v] = "sending_error" => worker[v] = "sending_error"
                                  /\ worker'[v] = "panicked" => worker[v] = "panicked"
    <3>1. worker'[w] \notin {"sending_error", "panicked"}
      BY <2>3, <2>5
    <3> QED BY <2>1, <3>1
  <2>8. /\ reader' = reader /\ producer' = producer
        /\ Failure \in Elements(channel)' <=> Failure \in Elements(channel)
    BY <2>1
  <2>6. ASSUME Troubled PROVE Troubled' \/ reader' = "dropped"
    <3> SUFFICES ASSUME reader' # "dropped" PROVE Troubled'
      OBVIOUS
    <3>1. WorkerPanicked => WorkerPanicked'
      BY <2>4 DEF WorkerPanicked
    <3>2. (\E v \in Workers : worker[v] = "sending_error") => \E v \in Workers : worker'[v] = "sending_error"
      BY <2>4
    <3> QED BY <2>6, <2>8, <3>1, <3>2 DEF Troubled
  <2>7. ASSUME Troubled', ~fault' PROVE Troubled
    <3>1. WorkerPanicked' => WorkerPanicked
      BY <2>5, <2>7 DEF WorkerPanicked
    <3>2. (\E v \in Workers : worker'[v] = "sending_error") => \E v \in Workers : worker[v] = "sending_error"
      BY <2>5, <2>7
    <3> QED BY <2>7, <2>8, <3>1, <3>2 DEF Troubled
  <2> QED BY <2>3, <2>6, <2>7 DEF TroubleKept
<1>8. ASSUME NEW w \in Workers, SendBlob(w) PROVE TroubleKept
  <2>1. /\ UNCHANGED <<reader, producer, fault>>
        /\ \A v \in Workers \ {w} : worker'[v] = worker[v]
        /\ worker'[w] = "idle" /\ worker[w] \in {"sending", "sending_error"}
        /\ Send(IF worker[w] = "sending" THEN Item(work[w], 1) ELSE Failure)
    BY <1>8, LoopTypes DEF SendBlob, Become
  <2>2. Failure \in Elements(channel)' <=> Failure \in Elements(channel) \/ worker[w] = "sending_error"
    <3>1. CASE worker[w] = "sending"
      <4>1. work[w] \in Indexes
        BY <3>1, LoopTypes DEF Carriers
      <4>2. Item(work[w], 1) \in Messages /\ Item(work[w], 1) # Failure
        BY <4>1, AnItem
      <4> QED BY <1>0, <2>1, <3>1, <4>2, ChannelFailure
    <3>2. CASE worker[w] = "sending_error"
      BY <1>0, <2>1, <3>2, ChannelFailure
    <3> QED BY <2>1, <3>1, <3>2
  <2> QED BY <2>1, <2>2 DEF TroubleKept, Troubled, WorkerPanicked
<1>9. CASE ReaderMoves
  <2>1. UNCHANGED <<producer, worker, fault>>
    BY <1>9 DEF ReaderMoves
  <2>2. CASE PopNext \/ DrainLowest \/ ReachEnd \/ ReceiveClosed
    <3>1. UNCHANGED channel /\ reader = "reading" /\ reader' # "failed" /\ Elements(channel)' = Elements(channel)
      BY <2>2 DEF PopNext, DrainLowest, ReachEnd, ReceiveClosed, Receiving, Elements
    <3> QED BY <2>1, <3>1 DEF TroubleKept, Troubled, WorkerPanicked
  <2>3. CASE ReceiveItem \/ ReceiveError
    <3>1. /\ reader = "reading" /\ channel # <<>> /\ channel' = Tail(channel)
          /\ Head(channel) = Failure <=> reader' = "failed"
      BY <2>3 DEF ReceiveItem, ReceiveError, Receiving
    <3>2. Failure \in Elements(channel) <=> Failure \in Elements(channel)' \/ Head(channel) = Failure
      BY <1>0, <3>1, ChannelFailure
    <3> QED BY <2>1, <3>1, <3>2 DEF TroubleKept, Troubled, WorkerPanicked
  <2>4. CASE DropReceiver
    <3>1. reader' = "dropped" /\ Elements(channel)' = {}
      BY <1>0, <2>4, ChannelFailure DEF DropReceiver
    <3> QED BY <2>1, <3>1 DEF TroubleKept, Troubled, WorkerPanicked
  <2> QED BY <1>9, <2>2, <2>3, <2>4 DEF ReaderMoves, ReaderStep
<1>10. CASE UNCHANGED thriftVars
  BY <1>10 DEF thriftVars, TroubleKept, Troubled, WorkerPanicked, Elements
<1> QED BY <1>1, <1>2, <1>3, <1>4, <1>5, <1>6, <1>7, <1>8, <1>9, <1>10, <1>11 DEF ThriftNext, ProducerStep

LEMMA InitUntroubled == ThriftInit => ~Troubled
  BY DEF ThriftInit, ReorderInit, Troubled, WorkerPanicked, Elements

\* The reader is told an error only when the server, a download or a task has
\* failed: run_thrift_fetch_loop and its workers make none up, in whatever order
\* they fail, are joined and report.
THEOREM LoopFailuresAreReal ==
  ASSUME RepliesAreUnderstood
  PROVE  ThriftSpec => []FailuresAreReal
<1>1. ThriftInit => LoopTyped /\ Discovered /\ FaultKnown
  BY InitTyped, InitUntroubled DEF FaultKnown
<1>2. LoopTyped /\ Discovered /\ FaultKnown /\ [ThriftNext]_thriftVars => (LoopTyped /\ Discovered /\ FaultKnown)'
  BY NextTyped, TroubleStep DEF FaultKnown, TroubleKept
<1>3. LoopTyped /\ FaultKnown => FailuresAreReal
  <2>1. LoopTyped => Understands(responses)
    BY DEF LoopTyped, TypeOK, RepliesAreUnderstood
  <2> QED BY <2>1 DEF FaultKnown, Troubled, FailuresAreReal
<1> QED BY <1>1, <1>2, <1>3, PTL DEF ThriftSpec


-----------------------------------------------------------------------------
(* The end: who closes what, and what is left when everything is closed.       *)

Ending == {"joining", "reporting", "closing", "ended"}

Closed == {"closing", "ended"}

\* The queue of links is closed after the last of them, and its workers end then.
QueueEnds ==
  /\ queueOpen <=> producer \notin Ending
  /\ producer \in Ending => unconfirmed = <<>>
  /\ reader # "dropped" => \A w \in Workers : worker[w] = "ended" => ~queueOpen /\ linkQueue = <<>>
  /\ producer \in Ending \ {"joining"} => \A w \in Workers : worker[w] \notin Busy

\* So is the channel, behind the workers, and a panic is told of before.
ChannelEnds ==
  /\ ~senders => producer \in Closed
  /\ exhausted /\ reader # "dropped" => channel = <<>> /\ ~senders
  /\ producer \in Closed /\ WorkerPanicked => reader \in {"failed", "dropped"} \/ Failure \in Elements(channel)

LEMMA InitEnds == ThriftInit => QueueEnds /\ ChannelEnds
  BY DEF ThriftInit, ReorderInit, QueueEnds, ChannelEnds, Ending, Closed

LEMMA QueueEndsStep ==
  ASSUME RepliesAreUnderstood, LoopTyped, Discovered, QueueEnds, [ThriftNext]_thriftVars
  PROVE  QueueEnds'
<1> USE DEF ProducerAt, reorderVars, channelVars, bufferVars, readerVars, responseVars, queueVars, workerVars, Ending
<1>1. CASE Submit
  <2>1. producer' = "fetching" /\ UNCHANGED <<unconfirmed, queueOpen, linkQueue, reader, worker>> /\ producer = "submitting"
    BY <1>1, SubmitStep DEF LoopTyped
  <2> QED BY <2>1 DEF QueueEnds
<1>2. CASE TakeInitial \/ FetchResults \/ FetchFails
  <2>1. NextBegun \/ DiscoveryFailed
    BY <1>2, FetchStep DEF LoopTyped
  <2> QED BY <2>1 DEF NextBegun, DiscoveryFailed, QueueEnds
<1>3. CASE StopDiscovery \/ SendInline \/ SendFailure \/ HoldLink \/ ResponseDone \/ DecodeInline
  <2>1. producer \notin Ending /\ producer' \notin Ending /\ UNCHANGED <<queueOpen, linkQueue, reader, worker>>
    BY <1>3 DEF StopDiscovery, SendInline, SendFailure, HoldLink, ResponseDone, DecodeInline
  <2> QED BY <2>1 DEF QueueEnds
<1>4. CASE QueueLink \/ QueueHeldBack
  <2>1. /\ producer \notin Ending /\ producer' \notin Ending /\ UNCHANGED <<queueOpen, reader, worker>>
        /\ linkQueue' = linkQueue \/ MayQueue
    BY <1>4 DEF QueueLink, QueueHeldBack
  <2> QED BY <2>1 DEF QueueEnds
<1>5. CASE CloseQueue
  BY <1>5 DEF CloseQueue, QueueEnds
<1>6. CASE JoinWorkers
  BY <1>6 DEF JoinWorkers, QueueEnds
<1>7. CASE ReportPanic \/ CleanUp
  BY <1>7 DEF ReportPanic, CleanUp, QueueEnds
<1>8. ASSUME NEW w \in Workers, TakeLink(w) \/ FetchLink(w) \/ SendBlob(w) \/ QueueDrained(w) \/ StopWorker(w) PROVE QueueEnds'
  <2>1. worker[w] \in Busy /\ UNCHANGED <<producer, unconfirmed, queueOpen, reader>>
    BY <1>8 DEF TakeLink, FetchLink, SendBlob, QueueDrained, StopWorker, Busy
  <2>2. linkQueue' = linkQueue \/ (linkQueue # <<>> /\ worker'[w] = "fetching")
    BY <1>8, LoopTypes DEF TakeLink, FetchLink, SendBlob, QueueDrained, StopWorker, Become
  <2>3. /\ \A v \in Workers \ {w} : worker'[v] = worker[v]
        /\ worker'[w] = "ended" => reader = "dropped" \/ (linkQueue = <<>> /\ ~queueOpen)
    BY <1>8, LoopTypes DEF TakeLink, FetchLink, SendBlob, QueueDrained, StopWorker, Become
  <2>4. ASSUME reader # "dropped", NEW v \in Workers, worker'[v] = "ended" PROVE ~queueOpen' /\ linkQueue' = <<>>
    BY <2>1, <2>2, <2>3, <2>4 DEF QueueEnds
  <2> QED BY <2>1, <2>4 DEF QueueEnds
<1>9. CASE ReaderMoves
  <2>1. UNCHANGED <<producer, unconfirmed, queueOpen, linkQueue, worker>>
    BY <1>9 DEF ReaderMoves
  <2>2. reader' # "dropped" => reader # "dropped"
    BY <1>9 DEF ReaderMoves, ReaderStep, PopNext, DrainLowest, ReachEnd, ReceiveItem, ReceiveError, ReceiveClosed, DropReceiver, Receiving
  <2> QED BY <2>1, <2>2 DEF QueueEnds
<1>10. CASE UNCHANGED thriftVars
  BY <1>10 DEF thriftVars, QueueEnds
<1> QED BY <1>1, <1>2, <1>3, <1>4, <1>5, <1>6, <1>7, <1>8, <1>9, <1>10 DEF ThriftNext, ProducerStep

\* A panic is told of, once the channel is closed.
LEMMA PanicKnown ==
  ASSUME ReorderTypeOK, ChannelEnds, ReaderStep \/ DropReceiver, UNCHANGED <<producer, worker>>
  PROVE  ChannelEnds'
<1> USE DEF channelVars, bufferVars, readerVars
<1>1. UNCHANGED senders /\ WorkerPanicked' = WorkerPanicked
  BY DEF ReaderStep, PopNext, DrainLowest, ReachEnd, ReceiveItem, ReceiveError, ReceiveClosed, DropReceiver, WorkerPanicked
<1>2. CASE PopNext \/ DrainLowest \/ ReachEnd \/ ReceiveClosed
  <2>1. /\ UNCHANGED channel /\ reader = "reading" /\ reader' # "dropped" /\ Elements(channel)' = Elements(channel)
        /\ exhausted' = exhausted \/ (channel = <<>> /\ ~senders)
    BY <1>2 DEF PopNext, DrainLowest, ReachEnd, ReceiveClosed, Receiving, Elements
  <2> QED BY <1>1, <2>1 DEF ChannelEnds
<1>3. CASE ReceiveItem \/ ReceiveError
  <2>1. /\ reader = "reading" /\ channel # <<>> /\ channel' = Tail(channel) /\ ~exhausted /\ exhausted' = exhausted
        /\ Head(channel) = Failure => reader' = "failed"
    BY <1>3 DEF ReceiveItem, ReceiveError, Receiving
  <2>2. Failure \in Elements(channel) <=> Failure \in Elements(channel)' \/ Head(channel) = Failure
    BY <2>1, ChannelFailure
  <2> QED BY <1>1, <2>1, <2>2 DEF ChannelEnds
<1>4. CASE DropReceiver
  BY <1>1, <1>4 DEF DropReceiver, ChannelEnds
<1> QED BY <1>2, <1>3, <1>4 DEF ReaderStep

LEMMA ChannelEndsStep ==
  ASSUME RepliesAreUnderstood, LoopTyped, Discovered, QueueEnds, ChannelEnds, [ThriftNext]_thriftVars
  PROVE  ChannelEnds'
<1> USE DEF ProducerAt, reorderVars, channelVars, bufferVars, readerVars, responseVars, queueVars, workerVars, Closed
<1>0. ReorderTypeOK /\ Failure \in Messages
  BY DEF LoopTyped, TypeOK, Messages
<1>1. CASE Submit
  <2>1. producer' = "fetching" /\ UNCHANGED <<channel, senders, exhausted, reader>> /\ producer = "submitting"
    BY <1>1, SubmitStep DEF LoopTyped
  <2> QED BY <2>1 DEF ChannelEnds
<1>2. CASE TakeInitial \/ FetchResults \/ FetchFails
  <2>1. NextBegun \/ DiscoveryFailed
    BY <1>2, FetchStep DEF LoopTyped
  <2>2. producer \notin Closed /\ producer' \notin Closed /\ UNCHANGED <<channel, senders, exhausted, reader>>
    BY <2>1 DEF NextBegun, DiscoveryFailed
  <2> QED BY <2>2 DEF ChannelEnds
<1>3. CASE \/ StopDiscovery \/ SendInline \/ SendFailure \/ HoldLink \/ QueueLink \/ QueueHeldBack
           \/ ResponseDone \/ DecodeInline \/ CloseQueue
  <2>1. producer \notin Closed /\ producer' \notin Closed /\ UNCHANGED <<senders, exhausted, reader>>
    BY <1>3 DEF StopDiscovery, SendInline, SendFailure, HoldLink, QueueLink, QueueHeldBack, ResponseDone, DecodeInline, CloseQueue
  <2> QED BY <2>1 DEF ChannelEnds
<1>4. CASE JoinWorkers
  <2>1. /\ producer = "joining" /\ UNCHANGED <<exhausted, reader, channel, worker>>
        /\ producer' = "closing" => senders' = FALSE /\ ~WorkerPanicked
        /\ producer' = "reporting" => UNCHANGED senders
        /\ producer' \in {"reporting", "closing"}
    BY <1>4 DEF JoinWorkers
  <2>2. WorkerPanicked' = WorkerPanicked
    BY <2>1 DEF WorkerPanicked
  <2> QED BY <2>1, <2>2 DEF ChannelEnds
<1>5. CASE ReportPanic
  <2>1. /\ producer = "reporting" /\ UNCHANGED <<exhausted, reader>> /\ producer' = "closing" /\ senders' = FALSE
        /\ reader = "dropped" \/ Send(Failure)
    BY <1>5 DEF ReportPanic
  <2>2. Send(Failure) => Failure \in Elements(channel)'
    BY <1>0, ChannelFailure
  <2> QED BY <2>1, <2>2 DEF ChannelEnds
<1>6. CASE CleanUp
  <2>1. producer = "closing" /\ producer' = "ended" /\ UNCHANGED <<channel, senders, exhausted, reader, worker>>
    BY <1>6 DEF CleanUp
  <2>2. WorkerPanicked' = WorkerPanicked /\ Elements(channel)' = Elements(channel)
    BY <2>1 DEF WorkerPanicked, Elements
  <2> QED BY <2>1, <2>2 DEF ChannelEnds
<1>7. ASSUME NEW w \in Workers, TakeLink(w) \/ FetchLink(w) \/ SendBlob(w) \/ QueueDrained(w) \/ StopWorker(w) PROVE ChannelEnds'
  <2>1. worker[w] \in Busy /\ UNCHANGED <<producer, senders, exhausted, reader>>
    BY <1>7 DEF TakeLink, FetchLink, SendBlob, QueueDrained, StopWorker, Busy
  <2>2. producer \notin Closed
    BY <2>1 DEF QueueEnds, Ending
  <2> QED BY <2>1, <2>2 DEF ChannelEnds
<1>8. CASE ReaderMoves
  <2>1. UNCHANGED <<producer, worker>> /\ (ReaderStep \/ DropReceiver)
    BY <1>8 DEF ReaderMoves
  <2> QED BY <1>0, <2>1, PanicKnown
<1>9. CASE UNCHANGED thriftVars
  <2>1. WorkerPanicked' = WorkerPanicked /\ Elements(channel)' = Elements(channel)
    BY <1>9 DEF thriftVars, WorkerPanicked, Elements
  <2> QED BY <1>9, <2>1 DEF thriftVars, ChannelEnds
<1> QED BY <1>1, <1>2, <1>3, <1>4, <1>5, <1>6, <1>7, <1>8, <1>9 DEF ThriftNext, ProducerStep


-----------------------------------------------------------------------------
(* Only a failure or a reader that has left makes blobs go missing.            *)

Excused == reader = "dropped" \/ Troubled

LEMMA DroppedForGood ==
  ASSUME RepliesAreUnderstood, LoopTyped, Discovered, [ThriftNext]_thriftVars, reader = "dropped"
  PROVE  reader' = "dropped"
<1> USE DEF reorderVars, channelVars, bufferVars, readerVars
<1>1. CASE Submit
  BY <1>1, SubmitStep DEF LoopTyped
<1>2. CASE FetchResults \/ FetchFails \/ DecodeInline \/ CleanUp
  BY <1>2 DEF FetchResults, FetchFails, DecodeInline, CleanUp
<1>3. CASE ProducerStep
  BY <1>3 DEF ProducerStep, TakeInitial, StopDiscovery, SendInline, SendFailure, HoldLink, QueueLink, QueueHeldBack,
              ResponseDone, CloseQueue, JoinWorkers, ReportPanic
<1>4. ASSUME NEW w \in Workers, WorkerSteps(w) PROVE reader' = reader
  BY <1>4 DEF WorkerSteps, TakeLink, QueueDrained, FetchLink, SendBlob, StopWorker
<1>5. CASE ReaderMoves
  BY <1>5 DEF ReaderMoves, ReaderStep, PopNext, DrainLowest, ReachEnd, ReceiveItem, ReceiveError, ReceiveClosed, DropReceiver, Receiving
<1>6. CASE UNCHANGED thriftVars
  BY <1>6 DEF thriftVars
<1> QED BY <1>1, <1>2, <1>3, <1>4, <1>5, <1>6 DEF ThriftNext, WorkerSteps

LEMMA ExcusedForGood ==
  ASSUME RepliesAreUnderstood, LoopTyped, Discovered, [ThriftNext]_thriftVars, Excused
  PROVE  Excused'
<1>1. TroubleKept
  BY TroubleStep
<1>2. reader = "dropped" => reader' = "dropped"
  BY DroppedForGood
<1> QED BY <1>1, <1>2 DEF Excused, TroubleKept

LEMMA SomeWorker == 1 \in Workers
  BY ThriftAssumption DEF Workers

\* queue_link gives up only when the reader has left or every worker has panicked.
LEMMA AbandonedQueue ==
  ASSUME LoopTyped, QueueEnds, MayNotQueue, producer \notin Ending
  PROVE  Excused
<1>1. CASE QueueAbandoned /\ reader # "dropped"
  <2>1. worker[1] \in {"panicked", "ended"}
    BY <1>1, SomeWorker, LoopTypes DEF QueueAbandoned
  <2>2. worker[1] # "ended"
    BY <1>1, SomeWorker DEF QueueEnds
  <2>3. WorkerPanicked
    BY <2>1, <2>2, SomeWorker DEF WorkerPanicked
  <2> QED BY <2>3 DEF Excused, Troubled, Ending
<1> QED BY <1>1 DEF MayNotQueue, Excused

\* Discovery has gone through the whole of the result.
AllDiscovered == producer \in Discovering \cup {"submitting"} \/ Excused \/ chunkIndex = BlobCount(responses)

LEMMA AllDiscoveredStep ==
  ASSUME RepliesAreUnderstood, LoopTyped, Discovered, QueueEnds, AllDiscovered, [ThriftNext]_thriftVars
  PROVE  AllDiscovered'
<1> USE DEF ProducerAt, reorderVars, channelVars, bufferVars, readerVars, responseVars, queueVars, workerVars, Discovering
<1>1. Excused => Excused'
  BY ExcusedForGood
<1>2. CASE Submit
  <2>1. producer' = "fetching"
    BY <1>2, SubmitStep DEF LoopTyped
  <2> QED BY <2>1 DEF AllDiscovered
<1>3. CASE TakeInitial \/ FetchResults \/ FetchFails
  <2>1. NextBegun \/ DiscoveryFailed
    BY <1>3, FetchStep DEF LoopTyped
  <2>2. producer' \in Discovering \cup {"failing"}
    BY <2>1 DEF NextBegun, DiscoveryFailed
  <2> QED BY <2>2 DEF AllDiscovered, Excused, Troubled
<1>4. CASE DecodeInline
  <2>1. producer' \in {"sending", "failing"}
    BY <1>4 DEF DecodeInline
  <2> QED BY <2>1 DEF AllDiscovered, Excused, Troubled
<1>5. CASE StopDiscovery \/ SendInline
  <2>1. producer' \in Discovering \/ reader' = "dropped"
    BY <1>5 DEF StopDiscovery, SendInline
  <2> QED BY <2>1 DEF AllDiscovered, Excused
<1>6. CASE HoldLink
  BY <1>6 DEF HoldLink, AllDiscovered
<1>7. CASE QueueLink
  <2>1. producer' = "linking" \/ Excused
    BY <1>7, AbandonedQueue DEF QueueLink, Ending
  <2> QED BY <1>1, <2>1 DEF AllDiscovered
<1>8. CASE QueueHeldBack
  <2>1. producer \in {"linking", "flushing"} /\ UNCHANGED <<chunkIndex, responses>>
    BY <1>8 DEF QueueHeldBack
  <2>2. producer' = producer \/ Excused
    BY <1>8, <2>1, AbandonedQueue DEF QueueHeldBack, Ending
  <2> QED BY <1>1, <2>1, <2>2 DEF AllDiscovered
<1>9. CASE ResponseDone
  <2>1. producer = "linking" /\ links = 0 /\ producer' = (IF hasMore THEN "fetching" ELSE "flushing")
        /\ UNCHANGED <<chunkIndex, responses>>
    BY <1>9 DEF ResponseDone
  <2>2. /\ chunkIndex + Undiscovered = BlobsUpTo(responses)[answered] /\ Undiscovered = 0
        /\ hasMore = (answered < Len(responses)) /\ answered \in 0..Len(responses) /\ chunkIndex \in Nat
    BY <2>1, LoopTypes DEF Discovered, Undiscovered, LoopTyped, TypeOK
  <2>3. Len(responses) \in Nat
    BY ResponsesFacts DEF LoopTyped
  <2>6. ~hasMore => ~(answered < Len(responses))
    BY <2>2
  <2>4. ~hasMore => answered = Len(responses)
    BY <2>2, <2>3, <2>6
  <2>5. ~hasMore => chunkIndex = BlobCount(responses)
    BY <2>2, <2>4 DEF BlobCount
  <2> QED BY <2>1, <2>5 DEF AllDiscovered
<1>10. CASE SendFailure \/ CloseQueue \/ JoinWorkers \/ ReportPanic \/ CleanUp
  <2>1. producer \notin Discovering \cup {"submitting"}
    BY <1>10 DEF SendFailure, CloseQueue, JoinWorkers, ReportPanic, CleanUp
  <2>2. UNCHANGED <<chunkIndex, responses>>
    BY <1>10 DEF SendFailure, CloseQueue, JoinWorkers, ReportPanic, CleanUp
  <2> QED BY <1>1, <2>1, <2>2 DEF AllDiscovered
<1>11. ASSUME NEW w \in Workers, WorkerSteps(w) PROVE UNCHANGED <<producer, chunkIndex, responses>>
  BY <1>11 DEF WorkerSteps, TakeLink, QueueDrained, FetchLink, SendBlob, StopWorker
<1>12. CASE ReaderMoves \/ UNCHANGED thriftVars
  <2>1. UNCHANGED <<producer, chunkIndex, responses>>
    BY <1>12 DEF ReaderMoves, thriftVars
  <2> QED BY <1>1, <2>1 DEF AllDiscovered
<1>13. ASSUME UNCHANGED <<producer, chunkIndex, responses>> PROVE AllDiscovered'
  BY <1>1, <1>13 DEF AllDiscovered
<1> QED BY <1>2, <1>3, <1>4, <1>5, <1>6, <1>7, <1>8, <1>9, <1>10, <1>11, <1>12, <1>13 DEF ThriftNext, ProducerStep, WorkerSteps

LEMMA InitDiscovered == ThriftInit => AllDiscovered
  BY DEF ThriftInit, AllDiscovered


-----------------------------------------------------------------------------
(* Where the blobs are: each index that has been given out is in one place,    *)
(* once, from its discovery to its delivery.                                  *)

Names == {"producer", "unconfirmed", "queue", "workers", "channel", "buffer", "reader"}

Places ==
  [producer    |-> IF producer = "sending" THEN {chunkIndex - 1} ELSE {},
   unconfirmed |-> Elements(unconfirmed),
   queue       |-> Elements(linkQueue),
   workers     |-> {work[w] : w \in Carriers},
   channel     |-> {i \in Indexes : Item(i, 1) \in Elements(channel)},
   buffer      |-> {i \in Indexes : pending[i] # <<>>},
   reader      |-> 0..nextIdx - 1]

\* No index is in two places, none in one before it has been given out, and
\* while nothing excuses it none is in no place.
Apart == \A p, q \in Names : p # q => \A i \in Places[p] : i \notin Places[q]

GivenOut == \A p \in Names : Places[p] \subseteq 0..chunkIndex - 1

NoneLost == Excused \/ \A i \in 0..chunkIndex - 1 : \E p \in Names : i \in Places[p]

\* Nor is it twice in the same.
Singly ==
  /\ Once(unconfirmed, -1) /\ Once(linkQueue, -1) /\ Once(channel, Failure)
  /\ \A v, w \in Carriers : work[v] = work[w] => v = w
  /\ \A i \in Indexes : pending[i] \in {<<>>, <<Item(i, 1)>>}

\* A step that moves nothing, except that something may be lost.
Stays ==
  /\ chunkIndex' \in {chunkIndex, chunkIndex + 1}
  /\ \A p \in Names : Places'[p] \subseteq Places[p]
  /\ Excused' \/ (chunkIndex' = chunkIndex /\ \A p \in Names : Places'[p] = Places[p])

\* A step that puts index i in a place, from another or as a new one.
Moves(i, q) ==
  /\ q \in Names
  /\ i \in 0..chunkIndex' - 1
  /\ chunkIndex' = chunkIndex \/ (chunkIndex' = chunkIndex + 1 /\ i = chunkIndex)
  /\ \A p \in Names \ {q} : Places'[p] = Places[p] \ {i}
  /\ Places'[q] = Places[q] \cup {i}

LEMMA PlacesKept ==
  ASSUME Apart, GivenOut, NoneLost, chunkIndex \in Nat, Excused => Excused',
         Stays \/ \E i, q : Moves(i, q)
  PROVE  Apart' /\ GivenOut' /\ NoneLost'
<1>1. CASE Stays
  <2>1. Apart'
    BY <1>1 DEF Apart, Stays
  <2>2. GivenOut'
    BY <1>1 DEF GivenOut, Stays
  <2>3. NoneLost'
    BY <1>1 DEF NoneLost, Stays
  <2> QED BY <2>1, <2>2, <2>3
<1>2. ASSUME NEW i, NEW q, Moves(i, q) PROVE Apart' /\ GivenOut' /\ NoneLost'
  <2>1. \A p \in Names : /\ \A j \in Places'[p] : j \in Places[p] \/ (j = i /\ p = q)
                         /\ \A j \in Places[p] : j \in Places'[p] \/ j = i
                         /\ p # q => i \notin Places'[p]
    BY <1>2 DEF Moves
  <2>2. q \in Names /\ i \in Places'[q] /\ i \in 0..chunkIndex' - 1
    BY <1>2 DEF Moves
  <2>3. Apart'
    BY <2>1, <2>2 DEF Apart
  <2>4. chunkIndex' = chunkIndex \/ (chunkIndex' = chunkIndex + 1 /\ i = chunkIndex)
    BY <1>2 DEF Moves
  <2>5. GivenOut'
    <3>1. 0..chunkIndex - 1 \subseteq 0..chunkIndex' - 1
      BY <2>4
    <3> QED BY <2>1, <2>2, <3>1 DEF GivenOut
  <2>6. NoneLost'
    <3>1. \A j \in 0..chunkIndex' - 1 : j = i \/ j \in 0..chunkIndex - 1
      BY <2>4
    <3> QED BY <2>1, <2>2, <3>1 DEF NoneLost
  <2> QED BY <2>3, <2>5, <2>6
<1> QED BY <1>1, <1>2

PlacesAre ==
  /\ Places["producer"] = IF producer = "sending" THEN {chunkIndex - 1} ELSE {}
  /\ Places["unconfirmed"] = Elements(unconfirmed)
  /\ Places["queue"] = Elements(linkQueue)
  /\ Places["workers"] = {work[w] : w \in Carriers}
  /\ Places["channel"] = {i \in Indexes : Item(i, 1) \in Elements(channel)}
  /\ Places["buffer"] = {i \in Indexes : pending[i] # <<>>}
  /\ Places["reader"] = 0..nextIdx - 1

LEMMA ThePlaces == PlacesAre /\ PlacesAre'
<1>1. PlacesAre
  BY DEF Places, PlacesAre
<1>2. PlacesAre'
  BY DEF Places, PlacesAre
<1> QED BY <1>1, <1>2

\* What a place does not depend on leaves it alone.
LEMMA SamePlaces ==
  /\ UNCHANGED <<producer, chunkIndex>> => Places'["producer"] = Places["producer"]
  /\ producer # "sending" /\ producer' # "sending" => Places'["producer"] = Places["producer"]
  /\ UNCHANGED unconfirmed => Places'["unconfirmed"] = Places["unconfirmed"]
  /\ UNCHANGED linkQueue => Places'["queue"] = Places["queue"]
  /\ UNCHANGED <<worker, work>> => Places'["workers"] = Places["workers"]
  /\ UNCHANGED <<Carriers, work>> => Places'["workers"] = Places["workers"]
  /\ UNCHANGED channel => Places'["channel"] = Places["channel"]
  /\ UNCHANGED pending => Places'["buffer"] = Places["buffer"]
  /\ UNCHANGED nextIdx => Places'["reader"] = Places["reader"]
<1> USE ThePlaces DEF PlacesAre
<1>1. /\ UNCHANGED <<producer, chunkIndex>> => Places'["producer"] = Places["producer"]
      /\ producer # "sending" /\ producer' # "sending" => Places'["producer"] = Places["producer"]
  OBVIOUS
<1>2. UNCHANGED unconfirmed => Places'["unconfirmed"] = Places["unconfirmed"]
  BY DEF Elements
<1>3. UNCHANGED linkQueue => Places'["queue"] = Places["queue"]
  BY DEF Elements
<1>4. /\ UNCHANGED <<Carriers, work>> => Places'["workers"] = Places["workers"]
      /\ UNCHANGED worker => UNCHANGED Carriers
  BY DEF Carriers
<1>5. UNCHANGED channel => Places'["channel"] = Places["channel"]
  BY DEF Elements
<1>6. /\ UNCHANGED pending => Places'["buffer"] = Places["buffer"]
      /\ UNCHANGED nextIdx => Places'["reader"] = Places["reader"]
  OBVIOUS
<1> QED BY <1>1, <1>2, <1>3, <1>4, <1>5, <1>6

\* What a message makes of the blobs in the channel.
LEMMA ChannelPlaces ==
  ASSUME ReorderTypeOK
  PROVE  /\ \A i \in Indexes : Send(Item(i, 1)) => Places'["channel"] = Places["channel"] \cup {i}
         /\ Send(Failure) => Places'["channel"] = Places["channel"]
         /\ channel # <<>> /\ channel' = Tail(channel) /\ Head(channel) = Failure =>
              Places'["channel"] = Places["channel"]
         /\ channel # <<>> /\ channel' = Tail(channel) /\ Head(channel) # Failure /\ Once(channel, Failure) =>
              /\ Head(channel).index \in Places["channel"]
              /\ Places'["channel"] = Places["channel"] \ {Head(channel).index}
<1> USE ThePlaces DEF PlacesAre
<1>1. channel \in Seq(Messages) /\ Failure \in Messages
  BY DEF ReorderTypeOK, Messages
<1>2. \A i, j \in Indexes : Item(i, 1) # Failure /\ (Item(i, 1) = Item(j, 1) => i = j)
  BY AnItem
<1>3. ASSUME NEW m \in Messages, Send(m) PROVE Elements(channel)' = Elements(channel) \cup {m}
  <2>1. channel' = Append(channel, m)
    BY <1>3 DEF Send
  <2>2. Elements(Append(channel, m)) = Elements(channel) \cup {m}
    BY <1>1, ElementsAppend
  <2>3. Elements(channel)' = Elements(Append(channel, m))
    BY <2>1 DEF Elements
  <2> QED BY <2>2, <2>3
<1>4. ASSUME channel # <<>>, channel' = Tail(channel) PROVE Elements(channel) = Elements(channel)' \cup {Head(channel)}
  <2>1. Elements(channel)' = Elements(Tail(channel))
    BY <1>4 DEF Elements
  <2> QED BY <1>1, <1>4, <2>1, ElementsTail
<1>5. ASSUME NEW i \in Indexes, Send(Item(i, 1)) PROVE Places'["channel"] = Places["channel"] \cup {i}
  <2>1. Elements(channel)' = Elements(channel) \cup {Item(i, 1)}
    BY <1>3, <1>5, AnItem
  <2> QED BY <1>2, <2>1
<1>6. ASSUME Send(Failure) PROVE Places'["channel"] = Places["channel"]
  BY <1>1, <1>2, <1>3, <1>6
<1>7. ASSUME channel # <<>>, channel' = Tail(channel), Head(channel) = Failure PROVE Places'["channel"] = Places["channel"]
  BY <1>2, <1>4, <1>7
<1>8. ASSUME channel # <<>>, channel' = Tail(channel), Head(channel) # Failure, Once(channel, Failure)
      PROVE  /\ Head(channel).index \in Places["channel"]
             /\ Places'["channel"] = Places["channel"] \ {Head(channel).index}
  <2> DEFINE i == Head(channel).index
  <2>1. Head(channel) \in Blobs
    BY <1>1, <1>8 DEF Messages
  <2>2. i \in Indexes /\ Head(channel) = Item(i, 1)
    BY <2>1, ABlob
  <2>3. Head(channel) \notin Elements(Tail(channel))
    BY <1>1, <1>8, OnceTail
  <2>4. Elements(channel)' = Elements(Tail(channel))
    BY <1>8 DEF Elements
  <2> HIDE DEF i
  <2>5. Item(i, 1) \notin Elements(channel)' /\ Elements(channel) = Elements(channel)' \cup {Item(i, 1)}
    BY <1>4, <1>8, <2>2, <2>3, <2>4
  <2>6. i \in Places["channel"] /\ Places'["channel"] = Places["channel"] \ {i}
    BY <1>2, <2>2, <2>5
  <2> QED BY <2>6 DEF i
<1> QED BY <1>5, <1>6, <1>7, <1>8


-----------------------------------------------------------------------------
\* What a step does to the places.
Keeps == (Stays \/ \E i, q : Moves(i, q)) /\ Singly'

LEMMA QuietStays ==
  ASSUME Singly, UNCHANGED producer \/ (producer # "sending" /\ producer' # "sending"),
         UNCHANGED <<chunkIndex, unconfirmed, linkQueue, channel, worker, work, pending, nextIdx>>
  PROVE  Keeps
<1>1. \A p \in Names : Places'[p] = Places[p]
  BY SamePlaces DEF Names
<1>2. Stays
  BY <1>1 DEF Stays
<1>3. Singly'
  BY DEF Singly, Once, Carriers
<1> QED BY <1>2, <1>3 DEF Keeps

\* A message that is a failure moves nothing either.
LEMMA FailureStays ==
  ASSUME LoopTyped, Singly, UNCHANGED producer \/ (producer # "sending" /\ producer' # "sending"), Send(Failure),
         UNCHANGED <<chunkIndex, unconfirmed, linkQueue, Carriers, work, pending, nextIdx>>
  PROVE  Keeps
<1>1. ReorderTypeOK /\ Failure \in Messages
  BY DEF LoopTyped, TypeOK, Messages
<1>2. \A p \in Names : Places'[p] = Places[p]
  BY <1>1, SamePlaces, ChannelPlaces DEF Names
<1>3. Stays
  BY <1>2 DEF Stays
<1>4. Once(channel, Failure)'
  <2>1. Once(Append(channel, Failure), Failure)
    BY <1>1, OnceAppend DEF Singly, ReorderTypeOK
  <2> QED BY <2>1 DEF Send, Once
<1>5. Singly'
  BY <1>4 DEF Singly, Once
<1> QED BY <1>3, <1>5 DEF Keeps

\* A blob is sent that was in no other place than p.
LEMMA BlobSent ==
  ASSUME LoopTyped, Apart, GivenOut, Singly, NEW i \in Indexes, Send(Item(i, 1)),
         NEW p \in {"producer", "workers"}, i \in Places[p], Places'[p] = Places[p] \ {i},
         p # "producer" => Places'["producer"] = Places["producer"],
         p # "workers" => Places'["workers"] = Places["workers"],
         UNCHANGED <<chunkIndex, unconfirmed, linkQueue, pending, nextIdx>>,
         \A v, w \in Carriers' : work'[v] = work'[w] => v = w
  PROVE  Keeps
<1>1. ReorderTypeOK /\ Item(i, 1) \in Messages /\ Item(i, 1) # Failure
  BY AnItem DEF LoopTyped, TypeOK
<1>2. p \in Names /\ p # "channel" /\ "channel" \in Names
  BY DEF Names
<1>3. \A r \in Names \ {p} : i \notin Places[r]
  BY <1>2 DEF Apart
<1>4. \A r \in Names \ {"channel"} : Places'[r] = Places[r] \ {i}
  <2>1. \A r \in Names \ {"channel", p} : Places'[r] = Places[r]
    BY SamePlaces DEF Names
  <2> QED BY <1>2, <1>3, <2>1
<1>5. Places'["channel"] = Places["channel"] \cup {i}
  BY <1>1, ChannelPlaces
<1>6. i \in 0..chunkIndex' - 1
  BY <1>2 DEF GivenOut
<1>7. Moves(i, "channel")
  BY <1>2, <1>4, <1>5, <1>6 DEF Moves
<1>8. Item(i, 1) \notin Elements(channel)
  BY <1>2, <1>3, ThePlaces DEF PlacesAre
<1>9. Once(channel, Failure)'
  <2>1. Once(Append(channel, Item(i, 1)), Failure)
    BY <1>1, <1>8, OnceAppend DEF Singly, ReorderTypeOK
  <2> QED BY <2>1 DEF Send, Once
<1>10. Singly'
  BY <1>9 DEF Singly, Once
<1> QED BY <1>7, <1>10 DEF Keeps

\* The next index is new to every place.
LEMMA NewIndex ==
  ASSUME LoopTyped, GivenOut
  PROVE  \A p \in Names : chunkIndex \notin Places[p] /\ Places[p] \ {chunkIndex} = Places[p]
<1>1. chunkIndex \in Nat /\ chunkIndex \notin 0..chunkIndex - 1
  BY LoopTypes
<1> QED BY <1>1 DEF GivenOut

LEMMA ElementsPrimed ==
  /\ \A x : unconfirmed' = x => Elements(unconfirmed)' = Elements(x) /\ (Once(unconfirmed, -1)' <=> Once(x, -1))
  /\ \A x : linkQueue' = x => Elements(linkQueue)' = Elements(x) /\ (Once(linkQueue, -1)' <=> Once(x, -1))
  BY DEF Elements, Once

LEMMA DecodePlaces ==
  ASSUME LoopTyped, Apart, GivenOut, Singly, DecodeInline
  PROVE  Keeps
<1> USE DEF reorderVars, channelVars, bufferVars, readerVars, queueVars, ProducerAt
<1>1. UNCHANGED <<unconfirmed, linkQueue, channel, worker, work, pending, nextIdx>> /\ producer = "decoding"
  BY DEF DecodeInline
<1>2. CASE producer' = "failing" /\ UNCHANGED chunkIndex
  BY <1>1, <1>2, QuietStays
<1>3. CASE producer' = "sending" /\ chunkIndex' = chunkIndex + 1
  <2>1. \A p \in Names \ {"producer"} : Places'[p] = Places[p]
    BY <1>1, SamePlaces DEF Names
  <2>2. chunkIndex \in Nat /\ (chunkIndex + 1) - 1 = chunkIndex /\ chunkIndex \in 0..(chunkIndex + 1) - 1
    BY LoopTypes
  <2>3. Places["producer"] = {} /\ Places'["producer"] = {chunkIndex}
    BY <1>1, <1>3, <2>2, ThePlaces DEF PlacesAre
  <2>4. Moves(chunkIndex, "producer")
    BY <1>3, <2>1, <2>2, <2>3, NewIndex DEF Moves, Names
  <2>5. Singly'
    BY <1>1 DEF Singly, Once, Carriers
  <2> QED BY <2>4, <2>5 DEF Keeps
<1> QED BY <1>2, <1>3 DEF DecodeInline

LEMMA SendInlinePlaces ==
  ASSUME LoopTyped, Apart, GivenOut, Singly, SendInline
  PROVE  Keeps
<1> USE DEF bufferVars, readerVars, responseVars, queueVars, workerVars, ProducerAt
<1>1. /\ UNCHANGED <<unconfirmed, linkQueue, worker, work, pending, nextIdx, chunkIndex, reader>>
      /\ producer = "sending" /\ producer' \in {"flushing", "linking"}
  BY DEF SendInline
<1>2. Places["producer"] = {chunkIndex - 1} /\ Places'["producer"] = {}
  BY <1>1, ThePlaces DEF PlacesAre
<1>3. CASE reader = "dropped" /\ UNCHANGED channel
  <2>1. \A p \in Names \ {"producer"} : Places'[p] = Places[p]
    BY <1>1, <1>3, SamePlaces DEF Names
  <2>2. Stays
    BY <1>1, <1>2, <1>3, <2>1 DEF Stays, Excused
  <2>3. Singly'
    BY <1>1, <1>3 DEF Singly, Once, Carriers
  <2> QED BY <2>2, <2>3 DEF Keeps
<1>4. CASE Send(Item(chunkIndex - 1, 1))
  <2>2. chunkIndex - 1 \in Indexes
    BY <1>1, InlineIndex
  <2>3. chunkIndex - 1 \in Places["producer"] /\ Places'["producer"] = Places["producer"] \ {chunkIndex - 1}
    BY <1>2
  <2>4. Places'["workers"] = Places["workers"]
    BY <1>1, SamePlaces
  <2>5. \A v, w \in Carriers' : work'[v] = work'[w] => v = w
    BY <1>1 DEF Singly, Carriers
  <2> QED BY <1>1, <1>4, <2>2, <2>3, <2>4, <2>5, BlobSent
<1> QED BY <1>3, <1>4 DEF SendInline


LEMMA HoldPlaces ==
  ASSUME LoopTyped, Discovered, Apart, GivenOut, Singly, HoldLink
  PROVE  Keeps
<1> USE DEF reorderVars, channelVars, bufferVars, readerVars, workerVars
<1>1. /\ UNCHANGED <<producer, linkQueue, channel, worker, work, pending, nextIdx>>
      /\ producer = "linking" /\ links > 0
      /\ unconfirmed' = Append(unconfirmed, chunkIndex) /\ chunkIndex' = chunkIndex + 1
  BY DEF HoldLink
<1>2. Undiscovered > 0 /\ producer \in Discovering
  BY <1>1 DEF Undiscovered, Discovering
<1>3. chunkIndex \in Indexes /\ chunkIndex \in Nat /\ unconfirmed \in Seq(Indexes)
  BY <1>2, NextIndex, LoopTypes DEF LoopTyped
<1>4. Elements(unconfirmed)' = Elements(unconfirmed) \cup {chunkIndex}
  BY <1>1, <1>3, ElementsAppend, ElementsPrimed
<1>5. Places'["unconfirmed"] = Places["unconfirmed"] \cup {chunkIndex}
  BY <1>4, ThePlaces DEF PlacesAre
<1>6. \A p \in Names \ {"unconfirmed"} : Places'[p] = Places[p]
  BY <1>1, SamePlaces DEF Names
<1>7. Moves(chunkIndex, "unconfirmed")
  BY <1>1, <1>3, <1>5, <1>6, NewIndex DEF Moves, Names
<1>8. Once(unconfirmed, -1)'
  <2>1. chunkIndex \notin Elements(unconfirmed)
    BY NewIndex, ThePlaces DEF PlacesAre, Names
  <2>2. Once(Append(unconfirmed, chunkIndex), -1)
    BY <1>3, <2>1, OnceAppend DEF Singly
  <2> QED BY <1>1, <2>2, ElementsPrimed
<1>9. Singly'
  BY <1>1, <1>8 DEF Singly, Once, Carriers
<1> QED BY <1>7, <1>9 DEF Keeps

LEMMA QueuePlaces ==
  ASSUME LoopTyped, Discovered, QueueEnds, Apart, GivenOut, Singly, Excused => Excused', QueueLink
  PROVE  Keeps
<1> USE DEF reorderVars, channelVars, bufferVars, readerVars, workerVars, ProducerAt
<1>1. /\ UNCHANGED <<unconfirmed, channel, worker, work, pending, nextIdx>>
      /\ producer = "linking" /\ producer' \in {"linking", "flushing"} /\ links > 0
      /\ chunkIndex' = chunkIndex + 1
  BY DEF QueueLink
<1>2. Undiscovered > 0 /\ producer \in Discovering
  BY <1>1 DEF Undiscovered, Discovering
<1>3. chunkIndex \in Indexes /\ chunkIndex \in Nat /\ linkQueue \in Seq(Indexes)
  BY <1>2, NextIndex, LoopTypes DEF LoopTyped
<1>4. \A p \in Names \ {"queue"} : Places'[p] = Places[p]
  BY <1>1, SamePlaces DEF Names
<1>5. CASE linkQueue' = Append(linkQueue, chunkIndex)
  <2>1. Elements(linkQueue)' = Elements(linkQueue) \cup {chunkIndex}
    BY <1>3, <1>5, ElementsAppend, ElementsPrimed
  <2>2. Places'["queue"] = Places["queue"] \cup {chunkIndex}
    BY <2>1, ThePlaces DEF PlacesAre
  <2>3. Moves(chunkIndex, "queue")
    BY <1>1, <1>3, <1>4, <2>2, NewIndex DEF Moves, Names
  <2>4. Once(linkQueue, -1)'
    <3>1. chunkIndex \notin Elements(linkQueue)
      BY NewIndex, ThePlaces DEF PlacesAre, Names
    <3>2. Once(Append(linkQueue, chunkIndex), -1)
      BY <1>3, <3>1, OnceAppend DEF Singly
    <3> QED BY <1>5, <3>2, ElementsPrimed
  <2>5. Singly'
    BY <1>1, <2>4 DEF Singly, Once, Carriers
  <2> QED BY <2>3, <2>5 DEF Keeps
<1>6. CASE MayNotQueue /\ UNCHANGED linkQueue
  <2>1. Excused'
    BY <1>1, <1>6, AbandonedQueue DEF Ending
  <2>2. Places'["queue"] = Places["queue"]
    BY <1>6, SamePlaces
  <2>3. Stays
    BY <1>1, <1>4, <2>1, <2>2 DEF Stays
  <2>4. Singly'
    BY <1>1, <1>6 DEF Singly, Once, Carriers
  <2> QED BY <2>3, <2>4 DEF Keeps
<1> QED BY <1>5, <1>6 DEF QueueLink

LEMMA HeldBackPlaces ==
  ASSUME LoopTyped, QueueEnds, Apart, GivenOut, Singly, Excused => Excused', QueueHeldBack
  PROVE  Keeps
<1> USE DEF reorderVars, channelVars, bufferVars, readerVars, responseVars, workerVars, ProducerAt
<1>1. /\ UNCHANGED <<chunkIndex, channel, worker, work, pending, nextIdx>>
      /\ unconfirmed # <<>>
      /\ producer \in {"linking", "flushing"} /\ producer' \in {"linking", "flushing"}
  BY DEF QueueHeldBack
<1>2. unconfirmed \in Seq(Indexes) /\ linkQueue \in Seq(Indexes) /\ Head(unconfirmed) \in Indexes
  BY <1>1, LoopTypes
<1>3. \A p \in Names \ {"queue", "unconfirmed"} : Places'[p] = Places[p]
  BY <1>1, SamePlaces DEF Names
<1>4. CASE linkQueue' = Append(linkQueue, Head(unconfirmed)) /\ unconfirmed' = Tail(unconfirmed)
  <2> DEFINE i == Head(unconfirmed)
  <2>1. Elements(linkQueue)' = Elements(linkQueue) \cup {i}
    BY <1>2, <1>4, ElementsAppend, ElementsPrimed
  <2>2. Elements(unconfirmed)' = Elements(Tail(unconfirmed)) /\ Elements(unconfirmed) = Elements(Tail(unconfirmed)) \cup {i}
    BY <1>1, <1>2, <1>4, ElementsTail, ElementsPrimed
  <2>3. i # -1 /\ Once(unconfirmed, -1)
    BY <1>2, IndexesAssumption DEF Singly
  <2>4. Once(Tail(unconfirmed), -1) /\ i \notin Elements(Tail(unconfirmed))
    BY <1>1, <1>2, <2>3, OnceTail
  <2> HIDE DEF i
  <2>5. Places'["queue"] = Places["queue"] \cup {i} /\ Places'["unconfirmed"] = Places["unconfirmed"] \ {i} /\ i \in Places["unconfirmed"]
    BY <2>1, <2>2, <2>4, ThePlaces DEF PlacesAre
  <2>6. \A p \in Names \ {"unconfirmed"} : i \notin Places[p]
    BY <2>5 DEF Apart, Names
  <2>7. i \in 0..chunkIndex' - 1
    BY <1>1, <2>5 DEF GivenOut, Names
  <2>8. Moves(i, "queue")
    BY <1>1, <1>3, <2>5, <2>6, <2>7 DEF Moves, Names
  <2>9. Once(linkQueue, -1)'
    <3>1. i \notin Elements(linkQueue)
      BY <2>6, ThePlaces DEF PlacesAre, Names
    <3>2. Once(Append(linkQueue, i), -1)
      BY <1>2, <3>1, OnceAppend DEF Singly, i
    <3> QED BY <1>4, <3>2, ElementsPrimed DEF i
  <2>10. Once(unconfirmed, -1)'
    BY <1>4, <2>4, ElementsPrimed
  <2>11. Singly'
    BY <1>1, <2>9, <2>10 DEF Singly, Once, Carriers
  <2> QED BY <2>8, <2>11 DEF Keeps
<1>5. CASE MayNotQueue /\ unconfirmed' = <<>> /\ UNCHANGED linkQueue
  <2>1. Excused'
    BY <1>1, <1>5, AbandonedQueue DEF Ending
  <2>2. Places'["queue"] = Places["queue"] /\ Places'["unconfirmed"] = {}
    <3>1. Elements(unconfirmed)' = {}
      BY <1>5, ElementsPrimed, ElementsEmpty
    <3> QED BY <1>5, <3>1, SamePlaces, ThePlaces DEF PlacesAre
  <2>3. Stays
    BY <1>1, <1>3, <2>1, <2>2 DEF Stays
  <2>4. Once(unconfirmed, -1)'
    BY <1>5, OnceNone, ElementsPrimed
  <2>5. Singly'
    BY <1>1, <1>5, <2>4 DEF Singly, Once, Carriers
  <2> QED BY <2>3, <2>5 DEF Keeps
<1> QED BY <1>4, <1>5 DEF QueueHeldBack


LEMMA TakePlaces ==
  ASSUME LoopTyped, Apart, GivenOut, Singly, NEW w \in Workers, TakeLink(w)
  PROVE  Keeps
<1> USE DEF reorderVars, channelVars, bufferVars, readerVars, responseVars, Become
<1> DEFINE i == Head(linkQueue)
<1>1. /\ UNCHANGED <<producer, chunkIndex, unconfirmed, channel, pending, nextIdx>>
      /\ linkQueue # <<>> /\ linkQueue' = Tail(linkQueue) /\ worker[w] = "idle"
      /\ work' = [work EXCEPT ![w] = i] /\ worker' = [worker EXCEPT ![w] = "fetching"]
  BY DEF TakeLink
<1>2. linkQueue \in Seq(Indexes) /\ i \in Indexes /\ i # -1
  BY <1>1, LoopTypes, IndexesAssumption
<1>3. Elements(linkQueue)' = Elements(Tail(linkQueue)) /\ Elements(linkQueue) = Elements(Tail(linkQueue)) \cup {i}
  BY <1>1, <1>2, ElementsTail, ElementsPrimed
<1>4. Once(Tail(linkQueue), -1) /\ i \notin Elements(Tail(linkQueue))
  BY <1>1, <1>2, OnceTail DEF Singly
<1>5. /\ Carriers' = Carriers \cup {w} /\ w \notin Carriers /\ work'[w] = i
      /\ \A v \in Carriers : work'[v] = work[v]
  BY <1>1, LoopTypes DEF Carriers
<1> HIDE DEF i
<1>6. Places'["queue"] = Places["queue"] \ {i} /\ i \in Places["queue"]
  BY <1>3, <1>4, ThePlaces DEF PlacesAre
<1>7. Places'["workers"] = Places["workers"] \cup {i}
  BY <1>5, ThePlaces DEF PlacesAre
<1>8. \A p \in Names \ {"queue"} : i \notin Places[p]
  BY <1>6 DEF Apart, Names
<1>9. \A p \in Names \ {"queue", "workers"} : Places'[p] = Places[p]
  BY <1>1, SamePlaces DEF Names
<1>10. i \in 0..chunkIndex' - 1
  BY <1>1, <1>6 DEF GivenOut, Names
<1>11. Moves(i, "workers")
  BY <1>1, <1>6, <1>7, <1>8, <1>9, <1>10 DEF Moves, Names
<1>12. \A v \in Carriers : work[v] # i
  BY <1>8, ThePlaces DEF PlacesAre, Names
<1>13. Once(linkQueue, -1)'
  BY <1>1, <1>4, ElementsPrimed
<1>14. \A u, v \in Carriers' : work'[u] = work'[v] => u = v
  BY <1>5, <1>12 DEF Singly
<1>15. Singly'
  BY <1>1, <1>13, <1>14 DEF Singly, Once
<1> QED BY <1>11, <1>15 DEF Keeps

\* A worker that has no blob any more, for a reason.
LEMMA BlobGivenUp ==
  ASSUME Singly, Excused', Carriers' \subseteq Carriers,
         UNCHANGED <<producer, chunkIndex, unconfirmed, linkQueue, channel, work, pending, nextIdx>>
  PROVE  Keeps
<1>1. \A p \in Names \ {"workers"} : Places'[p] = Places[p]
  BY SamePlaces DEF Names
<1>2. Places'["workers"] \subseteq Places["workers"]
  BY ThePlaces DEF PlacesAre
<1>3. Stays
  BY <1>1, <1>2 DEF Stays
<1>4. Singly'
  BY DEF Singly, Once
<1> QED BY <1>3, <1>4 DEF Keeps

LEMMA FetchLinkPlaces ==
  ASSUME LoopTyped, QueueEnds, Apart, GivenOut, Singly, NEW w \in Workers, FetchLink(w)
  PROVE  Keeps
<1> USE DEF reorderVars, channelVars, bufferVars, readerVars, responseVars, queueVars, Become
<1>1. UNCHANGED <<producer, chunkIndex, unconfirmed, linkQueue, channel, work, pending, nextIdx>> /\ worker[w] = "fetching"
  BY DEF FetchLink
<1>2. PICK state \in {"sending", "sending_error", "panicked"} : worker' = [worker EXCEPT ![w] = state]
  BY DEF FetchLink
<1>3. worker'[w] = state /\ \A v \in Workers \ {w} : worker'[v] = worker[v]
  BY <1>2, LoopTypes
<1>4. Carriers' \subseteq Carriers
  BY <1>1, <1>3 DEF Carriers
<1>5. CASE state = "sending"
  <2>1. Carriers' = Carriers
    BY <1>1, <1>3, <1>5 DEF Carriers
  <2>2. \A p \in Names : Places'[p] = Places[p]
    BY <1>1, <2>1, SamePlaces DEF Names
  <2>3. Stays
    BY <1>1, <2>2 DEF Stays
  <2>4. Singly'
    BY <1>1, <2>1 DEF Singly, Once
  <2> QED BY <2>3, <2>4 DEF Keeps
<1>6. CASE state # "sending"
  <2>1. producer \notin {"closing", "ended"}
    BY <1>1 DEF QueueEnds, Ending, Busy
  <2>2. worker'[w] = "sending_error" \/ WorkerPanicked'
    BY <1>3, <1>6 DEF WorkerPanicked
  <2>3. Excused'
    BY <1>1, <2>1, <2>2 DEF Excused, Troubled
  <2> QED BY <1>1, <1>4, <2>3, BlobGivenUp
<1> QED BY <1>5, <1>6

LEMMA SendBlobPlaces ==
  ASSUME LoopTyped, Apart, GivenOut, Singly, NEW w \in Workers, SendBlob(w)
  PROVE  Keeps
<1> USE DEF bufferVars, readerVars, responseVars, queueVars, Become
<1>1. /\ UNCHANGED <<producer, chunkIndex, unconfirmed, linkQueue, work, pending, nextIdx>>
      /\ worker[w] \in {"sending", "sending_error"} /\ worker' = [worker EXCEPT ![w] = "idle"]
      /\ worker[w] = "sending" => Send(Item(work[w], 1))
      /\ worker[w] = "sending_error" => Send(Failure)
  BY DEF SendBlob
<1>2. worker'[w] = "idle" /\ \A v \in Workers \ {w} : worker'[v] = worker[v]
  BY <1>1, LoopTypes
<1>3. CASE worker[w] = "sending"
  <2> DEFINE i == work[w]
  <2>1. w \in Carriers /\ Carriers' = Carriers \ {w}
    BY <1>2, <1>3 DEF Carriers
  <2>2. i \in Indexes
    BY <2>1, LoopTypes
  <2>3. \A v \in Carriers \ {w} : work[v] # i
    BY <2>1 DEF Singly
  <2>4. i \in Places["workers"] /\ Places'["workers"] = Places["workers"] \ {i}
    BY <1>1, <2>1, <2>3, ThePlaces DEF PlacesAre
  <2>5. Places'["producer"] = Places["producer"]
    BY <1>1, SamePlaces
  <2>6. \A u, v \in Carriers' : work'[u] = work'[v] => u = v
    BY <1>1, <2>1 DEF Singly
  <2>7. Send(Item(i, 1))
    BY <1>1, <1>3
  <2> HIDE DEF i
  <2> QED BY <1>1, <2>2, <2>4, <2>5, <2>6, <2>7, BlobSent
<1>4. CASE worker[w] = "sending_error"
  <2>1. Carriers' = Carriers
    BY <1>2, <1>4 DEF Carriers
  <2> QED BY <1>1, <1>4, <2>1, FailureStays
<1> QED BY <1>1, <1>3, <1>4

LEMMA WorkerPlaces ==
  ASSUME LoopTyped, QueueEnds, Apart, GivenOut, Singly, NEW w \in Workers, WorkerSteps(w)
  PROVE  Keeps
<1> USE DEF reorderVars, channelVars, bufferVars, readerVars, responseVars, queueVars, Become
<1>1. CASE QueueDrained(w)
  <2>1. /\ UNCHANGED <<producer, chunkIndex, unconfirmed, linkQueue, channel, work, pending, nextIdx>>
        /\ worker[w] = "idle" /\ worker' = [worker EXCEPT ![w] = "ended"]
    BY <1>1 DEF QueueDrained
  <2>2. Carriers' = Carriers
    BY <2>1, LoopTypes DEF Carriers
  <2>3. \A p \in Names : Places'[p] = Places[p]
    BY <2>1, <2>2, SamePlaces DEF Names
  <2>4. Stays
    BY <2>1, <2>3 DEF Stays
  <2>5. Singly'
    BY <2>1, <2>2 DEF Singly, Once
  <2> QED BY <2>4, <2>5 DEF Keeps
<1>2. CASE StopWorker(w)
  <2>1. /\ UNCHANGED <<producer, chunkIndex, unconfirmed, linkQueue, channel, work, pending, nextIdx, reader>>
        /\ reader = "dropped" /\ worker' = [worker EXCEPT ![w] = "ended"]
    BY <1>2 DEF StopWorker
  <2>2. Carriers' \subseteq Carriers
    BY <2>1, LoopTypes DEF Carriers
  <2>3. Excused'
    BY <2>1 DEF Excused
  <2> QED BY <2>1, <2>2, <2>3, BlobGivenUp
<1> QED BY <1>1, <1>2, TakePlaces, FetchLinkPlaces, SendBlobPlaces DEF WorkerSteps


\* When the source has ended, every blob is in the buffer or has been delivered.
LEMMA SourceIsWhole ==
  ASSUME LoopTyped, QueueEnds, ChannelEnds, NoneLost, AllDiscovered, exhausted, reader = "reading"
  PROVE  /\ chunkIndex = BlobCount(responses)
         /\ \A i \in 0..chunkIndex - 1 : i \in Places["buffer"] \/ i \in Places["reader"]
<1>1. channel = <<>> /\ producer \in Closed
  BY DEF ChannelEnds
<1>2. producer \in Ending \ {"joining"}
  BY <1>1 DEF Closed, Ending
<1>3. unconfirmed = <<>> /\ ~queueOpen /\ \A w \in Workers : worker[w] \notin Busy
  BY <1>2 DEF QueueEnds
<1>4. ~WorkerPanicked
  BY <1>1, ElementsEmpty DEF ChannelEnds
<1>5. worker[1] = "ended"
  BY <1>3, <1>4, SomeWorker, LoopTypes DEF WorkerPanicked
<1>6. linkQueue = <<>>
  BY <1>5, SomeWorker DEF QueueEnds
<1>7. ~Excused
  BY <1>1, <1>2, <1>3, <1>4, ElementsEmpty DEF Excused, Troubled, Closed, Busy
<1>8. chunkIndex = BlobCount(responses)
  BY <1>1, <1>7 DEF AllDiscovered, Closed, Discovering
<1>9. Carriers = {}
  BY <1>3 DEF Carriers, Busy
<1>10. \A p \in {"producer", "unconfirmed", "queue", "workers", "channel"} : Places[p] = {}
  <2>1. Places["producer"] = {}
    BY <1>1, ThePlaces DEF PlacesAre, Closed
  <2>2. Places["unconfirmed"] = {} /\ Places["queue"] = {} /\ Places["channel"] = {}
    BY <1>1, <1>3, <1>6, ThePlaces, ElementsEmpty DEF PlacesAre
  <2>3. Places["workers"] = {}
    BY <1>9, ThePlaces DEF PlacesAre
  <2> QED BY <2>1, <2>2, <2>3
<1> QED BY <1>7, <1>8, <1>10 DEF NoneLost, Names

\* The gaps are never drained: there are none.
LEMMA NothingDrained ==
  ASSUME LoopTyped, QueueEnds, ChannelEnds, Apart, GivenOut, NoneLost, AllDiscovered
  PROVE  ~DrainLowest
<1> SUFFICES ASSUME DrainLowest PROVE FALSE
  OBVIOUS
<1>1. reader = "reading" /\ exhausted /\ ~HasPending(nextIdx)
  BY DEF DrainLowest, MayDrain
<1>2. PICK i \in Indexes : HasPending(i)
  BY DEF DrainLowest
<1>3. i \in Places["buffer"] /\ nextIdx \notin Places["buffer"] /\ Places["reader"] = 0..nextIdx - 1
  BY <1>1, <1>2, ThePlaces DEF PlacesAre, HasPending
<1>4. i \in 0..chunkIndex - 1 /\ i \notin 0..nextIdx - 1
  BY <1>3 DEF GivenOut, Apart, Names
<1>5. chunkIndex \in Nat /\ nextIdx \in Nat
  BY LoopTypes
<1>6. nextIdx \in 0..chunkIndex - 1 /\ nextIdx \notin 0..nextIdx - 1
  BY <1>4, <1>5
<1> QED BY <1>1, <1>3, <1>6, SourceIsWhole

LEMMA PopPlaces ==
  ASSUME LoopTyped, Apart, GivenOut, Singly, PopNext, UNCHANGED <<producer, chunkIndex, unconfirmed, linkQueue, worker, work>>
  PROVE  /\ Keeps
         /\ nextIdx \in Indexes /\ nextIdx' = nextIdx + 1 /\ delivered' = Append(delivered, Item(nextIdx, 1))
         /\ nextIdx \in 0..chunkIndex - 1
<1> USE DEF channelVars
<1>1. nextIdx \in Indexes /\ pending[nextIdx] # <<>> /\ Pop(nextIdx) /\ UNCHANGED channel
      /\ nextIdx' = IF Len(pending[nextIdx]) = 1 THEN nextIdx + 1 ELSE nextIdx
  BY DEF PopNext, HasPending
<1>2. pending[nextIdx] = <<Item(nextIdx, 1)>>
  BY <1>1 DEF Singly
<1>3. Len(pending[nextIdx]) = 1 /\ Head(pending[nextIdx]) = Item(nextIdx, 1) /\ Tail(pending[nextIdx]) = <<>>
  BY <1>2
<1>4. nextIdx' = nextIdx + 1 /\ delivered' = Append(delivered, Item(nextIdx, 1)) /\ pending' = [pending EXCEPT ![nextIdx] = <<>>]
  BY <1>1, <1>3 DEF Pop
<1>5. pending \in [Indexes -> Seq(Blobs)] /\ nextIdx \in Nat
  BY LoopTypes
<1>6. pending'[nextIdx] = <<>> /\ \A i \in Indexes \ {nextIdx} : pending'[i] = pending[i]
  BY <1>1, <1>4, <1>5
<1>7. nextIdx \in Places["buffer"] /\ Places'["buffer"] = Places["buffer"] \ {nextIdx}
  BY <1>1, <1>6, ThePlaces DEF PlacesAre
<1>8. Places'["reader"] = Places["reader"] \cup {nextIdx}
  <2>1. 0..(nextIdx + 1) - 1 = (0..nextIdx - 1) \cup {nextIdx}
    BY <1>5
  <2> QED BY <1>4, <2>1, ThePlaces DEF PlacesAre
<1>9. \A p \in Names \ {"buffer"} : nextIdx \notin Places[p]
  BY <1>7 DEF Apart, Names
<1>10. \A p \in Names \ {"buffer", "reader"} : Places'[p] = Places[p]
  BY <1>1, SamePlaces DEF Names
<1>11. nextIdx \in 0..chunkIndex - 1
  BY <1>7 DEF GivenOut, Names
<1>12. Moves(nextIdx, "reader")
  BY <1>7, <1>8, <1>9, <1>10, <1>11 DEF Moves, Names
<1>13. Singly'
  BY <1>1, <1>6 DEF Singly, Once, Carriers
<1> QED BY <1>1, <1>4, <1>11, <1>12, <1>13 DEF Keeps

LEMMA ReceivePlaces ==
  ASSUME LoopTyped, Apart, GivenOut, Singly, ReceiveItem \/ ReceiveError,
         UNCHANGED <<producer, chunkIndex, unconfirmed, linkQueue, worker, work>>
  PROVE  Keeps
<1> USE DEF bufferVars, readerVars
<1>0. ReorderTypeOK /\ channel \in Seq(Messages)
  BY DEF LoopTyped, TypeOK, ReorderTypeOK
<1>1. channel # <<>> /\ channel' = Tail(channel) /\ UNCHANGED nextIdx
  BY DEF ReceiveItem, ReceiveError
<1>2. Once(channel, Failure)'
  <2>1. Once(Tail(channel), Failure)
    BY <1>0, <1>1, OnceTail DEF Singly
  <2> QED BY <1>1, <2>1 DEF Once
<1>3. CASE ReceiveError
  <2>1. Head(channel) = Failure /\ UNCHANGED pending
    BY <1>3 DEF ReceiveError
  <2>2. \A p \in Names : Places'[p] = Places[p]
    BY <1>0, <1>1, <2>1, SamePlaces, ChannelPlaces DEF Names
  <2>3. Stays
    BY <2>2 DEF Stays
  <2>4. Singly'
    BY <1>2, <2>1 DEF Singly, Once, Carriers
  <2> QED BY <2>3, <2>4 DEF Keeps
<1>4. CASE ReceiveItem
  <2> DEFINE i == Head(channel).index
  <2>1. Head(channel) # Failure /\ pending' = [pending EXCEPT ![i] = Append(@, Head(channel))]
    BY <1>4 DEF ReceiveItem, Store
  <2>2. Head(channel) \in Blobs
    BY <1>0, <1>1, <2>1 DEF Messages
  <2>3. i \in Indexes /\ Head(channel) = Item(i, 1)
    BY <2>2, ABlob
  <2>4. i \in Places["channel"] /\ Places'["channel"] = Places["channel"] \ {i}
    BY <1>0, <1>1, <2>1, ChannelPlaces DEF Singly
  <2> HIDE DEF i
  <2>5. \A p \in Names \ {"channel"} : i \notin Places[p]
    BY <2>4 DEF Apart, Names
  <2>6. pending[i] = <<>>
    BY <2>3, <2>5, ThePlaces DEF PlacesAre, Names
  <2>7. pending'[i] = <<Item(i, 1)>> /\ \A j \in Indexes \ {i} : pending'[j] = pending[j]
    <3>1. pending \in [Indexes -> Seq(Blobs)] /\ Append(<<>>, Item(i, 1)) = <<Item(i, 1)>>
      BY LoopTypes
    <3>2. pending' = [pending EXCEPT ![i] = Append(pending[i], Item(i, 1))]
      BY <2>1, <2>3 DEF i
    <3>3. pending'[i] = Append(pending[i], Item(i, 1)) /\ \A j \in Indexes \ {i} : pending'[j] = pending[j]
      BY <2>3, <3>1, <3>2
    <3> QED BY <2>6, <3>1, <3>3
  <2>8. <<Item(i, 1)>> # <<>>
    OBVIOUS
  <2>9. Places'["buffer"] = Places["buffer"] \cup {i}
    BY <2>3, <2>7, <2>8, ThePlaces DEF PlacesAre
  <2>10. \A p \in Names \ {"buffer", "channel"} : Places'[p] = Places[p]
    BY <1>1, SamePlaces DEF Names
  <2>11. i \in 0..chunkIndex' - 1
    BY <2>4 DEF GivenOut, Names
  <2>12. Moves(i, "buffer")
    BY <2>4, <2>5, <2>9, <2>10, <2>11 DEF Moves, Names
  <2>13. Singly'
    BY <1>2, <2>7 DEF Singly, Once, Carriers
  <2> QED BY <2>12, <2>13 DEF Keeps
<1> QED BY <1>3, <1>4

LEMMA DropPlaces ==
  ASSUME LoopTyped, Singly, DropReceiver, UNCHANGED <<producer, chunkIndex, unconfirmed, linkQueue, worker, work>>
  PROVE  Keeps
<1>1. reader' = "dropped" /\ channel' = <<>> /\ pending' = [i \in Indexes |-> <<>>] /\ UNCHANGED nextIdx
  BY DEF DropReceiver
<1>2. \A p \in Names \ {"buffer", "channel"} : Places'[p] = Places[p]
  BY <1>1, SamePlaces DEF Names
<1>3. Elements(channel)' = {}
  BY <1>1 DEF Elements
<1>4. Places'["channel"] = {} /\ Places'["buffer"] = {}
  BY <1>1, <1>3, ThePlaces DEF PlacesAre
<1>5. Stays
  BY <1>1, <1>2, <1>4 DEF Stays, Excused
<1>6. Singly'
  BY <1>1 DEF Singly, Once, Carriers
<1> QED BY <1>5, <1>6 DEF Keeps


-----------------------------------------------------------------------------
(* The loop, its workers and the reorder buffer implement OrderedDelivery.     *)

Placed == Apart /\ GivenOut /\ NoneLost /\ Singly

LoopInv == LoopTyped /\ Discovered /\ QueueEnds /\ ChannelEnds /\ AllDiscovered /\ Placed

LEMMA ProducerPlaces ==
  ASSUME RepliesAreUnderstood, LoopInv, Excused => Excused',
         ProducerStep \/ Submit \/ FetchResults \/ FetchFails \/ DecodeInline \/ CleanUp
  PROVE  Keeps
<1> USE DEF LoopInv, Placed, ProducerAt, reorderVars, channelVars, bufferVars, readerVars, responseVars, queueVars, workerVars
<1>1. CASE Submit
  <2>1. /\ producer = "submitting" /\ producer' = "fetching"
        /\ UNCHANGED <<chunkIndex, unconfirmed, linkQueue, channel, worker, work, pending, nextIdx>>
    BY <1>1, SubmitStep DEF LoopTyped
  <2> QED BY <2>1, QuietStays
<1>2. CASE TakeInitial \/ FetchResults \/ FetchFails
  <2>1. NextBegun \/ DiscoveryFailed
    BY <1>2, FetchStep DEF LoopTyped
  <2>2. /\ producer # "sending" /\ producer' # "sending"
        /\ UNCHANGED <<chunkIndex, unconfirmed, linkQueue, channel, worker, work, pending, nextIdx>>
    BY <2>1 DEF NextBegun, DiscoveryFailed
  <2> QED BY <2>2, QuietStays
<1>3. CASE StopDiscovery \/ ResponseDone \/ CloseQueue \/ JoinWorkers \/ CleanUp
  <2>1. producer # "sending" /\ producer' # "sending"
    BY <1>3 DEF StopDiscovery, ResponseDone, CloseQueue, JoinWorkers, CleanUp
  <2>2. UNCHANGED <<chunkIndex, unconfirmed, linkQueue, channel, worker, work, pending, nextIdx>>
    BY <1>3 DEF StopDiscovery, ResponseDone, CloseQueue, JoinWorkers, CleanUp
  <2> QED BY <2>1, <2>2, QuietStays
<1>4. CASE SendFailure \/ ReportPanic
  <2>1. /\ producer # "sending" /\ producer' # "sending"
        /\ UNCHANGED <<chunkIndex, unconfirmed, linkQueue, worker, work, pending, nextIdx>>
        /\ UNCHANGED channel \/ Send(Failure)
    BY <1>4 DEF SendFailure, ReportPanic
  <2>2. Carriers' = Carriers
    BY <2>1 DEF Carriers
  <2> QED BY <2>1, <2>2, QuietStays, FailureStays
<1> QED BY <1>1, <1>2, <1>3, <1>4, DecodePlaces, SendInlinePlaces, HoldPlaces, QueuePlaces, HeldBackPlaces DEF ProducerStep

LEMMA ReaderPlaces ==
  ASSUME LoopInv, ReaderMoves
  PROVE  Keeps
<1> USE DEF LoopInv, Placed, channelVars, bufferVars, responseVars, queueVars, workerVars
<1>1. UNCHANGED <<producer, chunkIndex, unconfirmed, linkQueue, worker, work>>
  BY DEF ReaderMoves
<1>2. CASE ReachEnd \/ ReceiveClosed
  <2>1. UNCHANGED <<channel, pending, nextIdx>>
    BY <1>2 DEF ReachEnd, ReceiveClosed
  <2> QED BY <1>1, <2>1, QuietStays
<1> QED BY <1>1, <1>2, PopPlaces, ReceivePlaces, DropPlaces, NothingDrained DEF ReaderMoves, ReaderStep

LEMMA PlacedStep ==
  ASSUME RepliesAreUnderstood, LoopInv, [ThriftNext]_thriftVars
  PROVE  Placed'
<1>1. Excused => Excused'
  BY ExcusedForGood DEF LoopInv
<1>2. Keeps
  <2>1. CASE UNCHANGED thriftVars
    BY <2>1, QuietStays DEF LoopInv, Placed, thriftVars, reorderVars, channelVars, bufferVars, responseVars, queueVars, workerVars
  <2>2. ASSUME NEW w \in Workers, WorkerSteps(w) PROVE Keeps
    BY <2>2, WorkerPlaces DEF LoopInv, Placed
  <2> QED BY <1>1, <2>1, <2>2, ProducerPlaces, ReaderPlaces DEF ThriftNext, WorkerSteps
<1>3. chunkIndex \in Nat
  BY LoopTypes DEF LoopInv
<1> QED BY <1>1, <1>2, <1>3, PlacesKept DEF Keeps, LoopInv, Placed

LEMMA InitPlaced == ThriftInit => Placed
<1> SUFFICES ASSUME ThriftInit PROVE Placed
  OBVIOUS
<1>1. chunkIndex = 0 /\ 0..chunkIndex - 1 = {} /\ 0..nextIdx - 1 = {}
  BY DEF ThriftInit, FirstIndex, ReorderInit
<1>2. Carriers = {}
  BY DEF ThriftInit, Carriers
<1>3. Elements(unconfirmed) = {} /\ Elements(linkQueue) = {} /\ Elements(channel) = {}
  BY ElementsEmpty DEF ThriftInit, ReorderInit
<1>4. \A p \in Names : Places[p] = {}
  BY <1>1, <1>2, <1>3, ThePlaces DEF ThriftInit, ReorderInit, PlacesAre, Names
<1>5. Apart /\ GivenOut /\ NoneLost
  BY <1>1, <1>4 DEF Apart, GivenOut, NoneLost
<1>6. Singly
  BY <1>2, OnceNone DEF ThriftInit, ReorderInit, Singly
<1> QED BY <1>5, <1>6 DEF Placed

LEMMA InitLoopInv == ThriftInit => LoopInv
  BY InitTyped, InitEnds, InitDiscovered, InitPlaced DEF LoopInv

LEMMA NextLoopInv ==
  ASSUME RepliesAreUnderstood
  PROVE  LoopInv /\ [ThriftNext]_thriftVars => LoopInv'
<1> SUFFICES ASSUME LoopInv, [ThriftNext]_thriftVars PROVE LoopInv'
  OBVIOUS
<1>1. LoopTyped' /\ Discovered'
  BY NextTyped DEF LoopInv
<1>2. QueueEnds' /\ ChannelEnds' /\ AllDiscovered'
  BY QueueEndsStep, ChannelEndsStep, AllDiscoveredStep DEF LoopInv
<1> QED BY <1>1, <1>2, PlacedStep DEF LoopInv

\* What has been delivered: the blobs before next_idx.
DeliveredSoFar == Elements(delivered) = {Item(i, 1) : i \in 0..nextIdx - 1}

\* Only the reader's own steps are visible in what it is told.
LEMMA UnseenSteps ==
  ASSUME RepliesAreUnderstood, LoopInv, [ThriftNext]_thriftVars
  PROVE  UNCHANGED responses /\ (ReaderMoves \/ UNCHANGED <<delivered, reader, nextIdx>>)
<1> USE DEF reorderVars, bufferVars, readerVars, responseVars
<1>1. CASE Submit
  BY <1>1, SubmitStep DEF LoopInv, LoopTyped
<1>2. CASE TakeInitial \/ FetchResults \/ FetchFails
  <2>1. NextBegun \/ DiscoveryFailed
    BY <1>2, FetchStep DEF LoopInv, LoopTyped
  <2> QED BY <2>1 DEF NextBegun, DiscoveryFailed
<1>3. CASE \/ StopDiscovery \/ SendInline \/ SendFailure \/ HoldLink \/ QueueLink \/ QueueHeldBack \/ ResponseDone
           \/ CloseQueue \/ JoinWorkers \/ ReportPanic \/ DecodeInline \/ CleanUp
  BY <1>3 DEF StopDiscovery, SendInline, SendFailure, HoldLink, QueueLink, QueueHeldBack, ResponseDone, CloseQueue,
              JoinWorkers, ReportPanic, DecodeInline, CleanUp
<1>4. ASSUME NEW w \in Workers, WorkerSteps(w) PROVE UNCHANGED <<responses, delivered, reader, nextIdx>>
  BY <1>4 DEF WorkerSteps, TakeLink, QueueDrained, FetchLink, SendBlob, StopWorker
<1>5. CASE ReaderMoves
  BY <1>5 DEF ReaderMoves
<1>6. CASE UNCHANGED thriftVars
  BY <1>6 DEF thriftVars
<1> QED BY <1>1, <1>2, <1>3, <1>4, <1>5, <1>6 DEF ThriftNext, ProducerStep, WorkerSteps

LEMMA LoopKeepsPromise ==
  ASSUME RepliesAreUnderstood, LoopInv, DeliveredSoFar, [ThriftNext]_thriftVars
  PROVE  [Promise!Next]_Promise!vars /\ DeliveredSoFar'
<1> USE DEF channelVars, bufferVars, readerVars
<1>1. ResultBlobs' = ResultBlobs
  BY UnseenSteps DEF ResultBlobs
<1>2. ASSUME UNCHANGED <<delivered, nextIdx>> PROVE DeliveredSoFar'
  BY <1>2 DEF DeliveredSoFar, Elements
<1>3. CASE UNCHANGED <<delivered, reader, nextIdx>>
  BY <1>1, <1>2, <1>3 DEF Promise!vars
<1>4. CASE ReaderMoves
  <2>1. UNCHANGED <<producer, chunkIndex, unconfirmed, linkQueue, worker, work>>
    BY <1>4 DEF ReaderMoves, responseVars, queueVars, workerVars
  <2>2. Promise!Given = Elements(delivered)
    BY DEF Promise!Given, Elements
  <2>3. CASE PopNext
    <3> DEFINE b == Item(nextIdx, 1)
    <3>1. /\ nextIdx \in Indexes /\ nextIdx' = nextIdx + 1 /\ delivered' = Append(delivered, b)
          /\ nextIdx \in 0..chunkIndex - 1
      BY <2>1, <2>3, PopPlaces DEF LoopInv, Placed
    <3>2. nextIdx \in Nat /\ delivered \in Seq(Blobs) /\ chunkIndex \in 0..BlobCount(responses)
          /\ BlobCount(responses) \in Nat
      BY ResponsesFacts, LoopTypes DEF LoopInv, LoopTyped, TypeOK
    <3>3. b \in Blobs /\ b.index = nextIdx /\ b.link = 1
      BY <3>1, AnItem DEF Item
    <3>4. b \in ResultBlobs
      <4>1. nextIdx \in 0..BlobCount(responses) - 1
        BY <3>1, <3>2
      <4> QED BY <4>1 DEF ResultBlobs
    <3>5. \A i \in 0..nextIdx - 1 : Item(i, 1) # b
      BY <3>2 DEF Item
    <3>6. ASSUME NEW a \in ResultBlobs, Promise!Precedes(a, b) PROVE a \in Elements(delivered)
      <4>1. PICK i \in 0..BlobCount(responses) - 1 : a = Item(i, 1)
        BY DEF ResultBlobs
      <4>2. a.index = i /\ a.link = 1
        BY <4>1 DEF Item
      <4>3. i < nextIdx
        BY <3>3, <3>6, <4>2 DEF Promise!Precedes
      <4>4. i \in 0..nextIdx - 1
        BY <3>2, <4>3
      <4> QED BY <4>1, <4>4 DEF DeliveredSoFar
    <3>7. reader = "reading" /\ UNCHANGED reader
      BY <2>3 DEF PopNext
    <3> HIDE DEF b
    <3>8. Promise!Deliver(b)
      BY <1>1, <2>2, <3>1, <3>5, <3>6, <3>7 DEF Promise!Deliver, DeliveredSoFar
    <3>9. DeliveredSoFar'
      <4>1. Elements(delivered)' = Elements(delivered) \cup {b}
        <5>1. Elements(Append(delivered, b)) = Elements(delivered) \cup {b}
          BY <3>2, <3>3, ElementsAppend
        <5> QED BY <3>1, <5>1 DEF Elements
      <4>2. 0..(nextIdx + 1) - 1 = (0..nextIdx - 1) \cup {nextIdx}
        BY <3>2
      <4> QED BY <3>1, <4>1, <4>2 DEF DeliveredSoFar, b
    <3> QED BY <3>4, <3>8, <3>9 DEF Promise!Next
  <2>4. CASE ReachEnd
    <3>1. exhausted /\ NothingLeft /\ reader = "reading" /\ reader' = "done" /\ UNCHANGED <<delivered, nextIdx>>
      BY <2>4 DEF ReachEnd
    <3>2. chunkIndex = BlobCount(responses) /\ \A i \in 0..chunkIndex - 1 : i \in Places["buffer"] \/ i \in Places["reader"]
      BY <3>1, SourceIsWhole DEF LoopInv, Placed
    <3>3. Places["buffer"] = {} /\ Places["reader"] = 0..nextIdx - 1
      BY <3>1, ThePlaces DEF NothingLeft, HasPending, PlacesAre
    <3>4. ResultBlobs \subseteq Promise!Given
      BY <2>2, <3>2, <3>3 DEF ResultBlobs, DeliveredSoFar
    <3> QED BY <1>1, <1>2, <3>1, <3>4 DEF Promise!End, Promise!Next
  <2>5. CASE ReceiveItem \/ ReceiveClosed
    <3>1. UNCHANGED <<delivered, reader, nextIdx>>
      BY <2>5 DEF ReceiveItem, ReceiveClosed
    <3> QED BY <1>3, <3>1
  <2>6. CASE ReceiveError
    BY <1>1, <1>2, <2>6 DEF ReceiveError, Receiving, Promise!Next, Promise!Fail
  <2>7. CASE DropReceiver
    BY <1>1, <1>2, <2>7 DEF DropReceiver, Promise!Next, Promise!Abandon
  <2> QED BY <1>4, <2>3, <2>4, <2>5, <2>6, <2>7, NothingDrained DEF ReaderMoves, ReaderStep, LoopInv, Placed
<1> QED BY <1>3, <1>4, UnseenSteps

LEMMA InitDelivers == ThriftInit => Promise!Init /\ DeliveredSoFar
<1> SUFFICES ASSUME ThriftInit PROVE Promise!Init /\ DeliveredSoFar
  OBVIOUS
<1>1. delivered = <<>> /\ nextIdx = 0 /\ reader = "reading" /\ 0..nextIdx - 1 = {}
  BY DEF ThriftInit, ReorderInit
<1> QED BY <1>1, ElementsEmpty DEF Promise!Init, DeliveredSoFar

\* run_thrift_fetch_loop, its workers, the channel and the reorder buffer
\* together implement OrderedDelivery: for every result, every mixture of inline
\* batches and links, every number of workers and whatever fails, panics or is
\* dropped, the reader is given the blobs in the order of the responses, each
\* once, and the end only after the last of them.
THEOREM LoopDeliversInOrder ==
  ASSUME RepliesAreUnderstood
  PROVE  ThriftSpec => DeliversInOrder
<1>1. ThriftInit => LoopInv /\ DeliveredSoFar /\ Promise!Init
  BY InitLoopInv, InitDelivers
<1>2. LoopInv /\ DeliveredSoFar /\ [ThriftNext]_thriftVars => (LoopInv /\ DeliveredSoFar)'
  BY NextLoopInv, LoopKeepsPromise
<1>3. LoopInv /\ DeliveredSoFar /\ [ThriftNext]_thriftVars => [Promise!Next]_Promise!vars
  BY LoopKeepsPromise
<1> QED BY <1>1, <1>2, <1>3, PTL DEF ThriftSpec, DeliversInOrder, Promise!Spec
=============================================================================
