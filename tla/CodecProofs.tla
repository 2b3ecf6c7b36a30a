------------------------------ MODULE CodecProofs -------------------------------
(***************************************************************************)
(* encode_group, for groups of any even size and any finite floats: what   *)
(* is unpacked is the nearest code, the scale fits the group, and decoders *)
(* accept the bytes.  The half conversions of the CPU runtime, for fields  *)
(* of any width: a float goes to its nearest half, and a half is kept.     *)
(***************************************************************************)
EXTENDS Codec, HalfPrecision, FiniteSetTheorems, SequenceTheorems, WellFoundedInduction, TLAPS

Best(l, m, n) == \A c \in 0..n : NoWorse(l, m, c)

(* Bytes and the lanes packed in them, by the phase of encode_group.       *)
Packing ==
  /\ Len(codes) = lane \div 2
  /\ phase \in {"idle", "scale"} => lane = 1
  /\ phase \in {"nearest", "emit"} => lane <= GroupSize
  /\ phase = "done" => lane = GroupSize + 1
  /\ phase \in {"nearest", "emit"} /\ lane % 2 = 0 => codes[lane \div 2] < 16

(* The code selected is the best of the candidates considered.             *)
Searching ==
  /\ phase = "nearest" => candidate <= 7 /\ selected < candidate /\ Best(lane, selected, candidate - 1)
  /\ phase = "emit" => Best(lane, selected, 7)

(* From the start of the lanes on the scale is that of the group.          *)
Scaled == phase \in {"nearest", "emit", "done"} => exponent = ScaleExponent(group)

CodecInv == CodecTypeOK /\ Packing /\ Searching /\ Scaled /\ Rounded
--------------------------------------------------------------------------------
(* Powers of two are positive: 2^n counts the subsets of 1..n.             *)
LEMMA PowerCounts ==
  ASSUME NEW n \in Nat
  PROVE  IsFiniteSet(SUBSET (1..n)) /\ Cardinality(SUBSET (1..n)) = 2^n
<1>1. IsFiniteSet(1..n) /\ Cardinality(1..n) = n
  BY FS_Interval
<1> QED BY <1>1, FS_SUBSET

LEMMA PowerPositive == ASSUME NEW n \in Nat PROVE 2^n \in Nat \ {0}
<1>1. IsFiniteSet(SUBSET (1..n)) /\ Cardinality(SUBSET (1..n)) = 2^n
  BY PowerCounts
<1>2. Cardinality(SUBSET (1..n)) \in Nat
  BY <1>1, FS_CardinalityType
<1>3. Cardinality(SUBSET (1..n)) # 0
  BY <1>1, FS_EmptySet
<1> QED BY <1>1, <1>2, <1>3

(* A larger interval has more subsets.                                     *)
LEMMA PowerMonotone == ASSUME NEW n \in Nat, NEW k \in Nat, n <= k PROVE 2^n <= 2^k
<1>1. SUBSET (1..n) \in SUBSET (SUBSET (1..k))
  <2>1. 1..n \subseteq 1..k OBVIOUS
  <2> QED BY <2>1
<1>2. Cardinality(SUBSET (1..n)) <= Cardinality(SUBSET (1..k))
  BY <1>1, PowerCounts, FS_Subset
<1> QED BY <1>2, PowerCounts

(* Half of the subsets of 1..n+1 are those of 1..n, the others have n+1    *)
(* besides.                                                                *)
LEMMA PowerNext == ASSUME NEW n \in Nat PROVE 2^(n + 1) = 2 * 2^n
<1> DEFINE A == SUBSET (1..n)
           B == {S \in SUBSET (1..(n + 1)) : n + 1 \in S}
           f == [S \in A |-> S \cup {n + 1}]
<1>1. 1..(n + 1) = (1..n) \cup {n + 1} /\ n + 1 \notin 1..n
  OBVIOUS
<1>2. A \cup B = SUBSET (1..(n + 1)) /\ A \cap B = {}
  BY <1>1
<1>3. f \in Bijection(A, B)
  <2>1. \A S \in A : S \cup {n + 1} \in B
    BY <1>1
  <2>2. \A S, T \in A : S \cup {n + 1} = T \cup {n + 1} => S = T
    BY <1>1
  <2>3. \A T \in B : T \ {n + 1} \in A /\ (T \ {n + 1}) \cup {n + 1} = T
    BY <1>1
  <2>4. f \in [A -> B] BY <2>1
  <2>5. \A S, T \in A : f[S] = f[T] => S = T BY <2>2
  <2>6. \A T \in B : \E S \in A : f[S] = T BY <2>3
  <2> HIDE DEF A, B, f
  <2>7. f \in Injection(A, B) BY <2>4, <2>5 DEF Injection, IsInjective
  <2>8. f \in Surjection(A, B) BY <2>4, <2>6 DEF Surjection
  <2> QED BY <2>7, <2>8 DEF Bijection
<1>4. IsFiniteSet(A) /\ Cardinality(A) = 2^n
  BY PowerCounts
<1>5. ExistsBijection(A, B)
  BY <1>3 DEF ExistsBijection
<1> HIDE DEF A, B, f
<1>6. IsFiniteSet(B) /\ Cardinality(B) = 2^n
  BY <1>4, <1>5, FS_Bijection
<1>7. Cardinality(A \cap B) = 0
  BY <1>2, FS_EmptySet
<1>8. Cardinality(A \cup B) = 2^n + 2^n - 0
  BY <1>4, <1>6, <1>7, FS_Union
<1>9. n + 1 \in Nat OBVIOUS
<1>10. Cardinality(A \cup B) = 2^(n + 1)
  BY <1>2, <1>9, PowerCounts
<1> QED BY <1>8, <1>10, PowerPositive
--------------------------------------------------------------------------------
(* The least element of a set of numbers.                                  *)
LEMMA LeastNumber ==
  ASSUME NEW T \in SUBSET Nat, T # {}
  PROVE  \E x \in T : \A y \in T : x <= y
<1> DEFINE Less == {ss \in Nat \X Nat : ss[1] < ss[2]}
<1>1. IsWellFoundedOn(Less, Nat)
  BY NatLessThanWellFounded DEF OpToRel
<1>2. PICK x \in T : \A y \in T : ~(<<y, x>> \in Less)
  BY <1>1, WFMin
<1>3. ASSUME NEW y \in T PROVE x <= y
  <2>1. x \in Nat /\ y \in Nat OBVIOUS
  <2>2. ~(<<y, x>> \in Less) BY <1>2
  <2>3. ~(y < x)
    <3>1. SUFFICES ASSUME y < x PROVE <<y, x>> \in Less
      BY <2>2
    <3>2. <<y, x>> \in Nat \X Nat /\ <<y, x>>[1] = y /\ <<y, x>>[2] = x BY <2>1
    <3> QED BY <3>1, <3>2
  <2> QED BY <2>1, <2>3
<1> QED BY <1>3

(* The largest magnitude of a group.                                       *)
LEMMA MaximumIs ==
  ASSUME NEW g \in Groups
  PROVE  /\ \E l \in 1..GroupSize : Maximum(g) = Abs(g.val[l])
         /\ \A l \in 1..GroupSize : Abs(g.val[l]) \in Nat /\ Abs(g.val[l]) <= Maximum(g)
         /\ Maximum(g) \in Nat
<1>1. g.unit \in (-149)..127 /\ g.val \in [1..GroupSize -> Int] /\ 1 \in 1..GroupSize
  BY GroupAssumption
<1>2. \A l \in 1..GroupSize : Abs(g.val[l]) \in Nat
  <2>1. \A x \in Int : Abs(x) \in Nat BY SMT DEF Abs
  <2> QED BY <1>1, <2>1
<1>0. 128 - g.unit \in Nat
  <2>1. \A u \in (-149)..127 : 128 - u \in Nat OBVIOUS
  <2> QED BY <1>1, <2>1, Zenon
<1> DEFINE A == {Abs(g.val[l]) : l \in 1..GroupSize}
           K == 2^(128 - g.unit)
           T == {n \in Nat : \E a \in A : n = K - a}
<1>3. K \in Nat
  BY <1>0, PowerPositive
<1>4. ASSUME NEW l \in 1..GroupSize PROVE Abs(g.val[l]) < K
  <2>1. PICK k \in 0..(128 - g.unit) : Abs(g.val[l]) < 2^k
    BY FiniteAssumption
  <2>2. k \in Nat /\ 128 - g.unit \in Nat /\ k <= 128 - g.unit BY <1>0
  <2>3. 2^k <= K /\ 2^k \in Nat BY <2>2, PowerMonotone, PowerPositive
  <2> HIDE DEF K
  <2> QED BY <2>1, <2>3, <1>2, <1>3
<1> HIDE DEF K
<1>5. A # {} /\ \A a \in A : a \in Nat /\ K - a \in T
  BY <1>1, <1>2, <1>3, <1>4
<1> HIDE DEF A
<1>6. T # {} /\ T \in SUBSET Nat
  BY <1>5
<1>7. PICK x \in T : \A y \in T : x <= y
  BY <1>6, LeastNumber
<1>8. PICK m \in A : x = K - m
  BY <1>7
<1>9. \A a \in A : a <= m
  BY <1>3, <1>5, <1>7, <1>8
<1>10. \A l \in 1..GroupSize : Abs(g.val[l]) <= m
  BY <1>9 DEF A
<1>11. Maximum(g) \in A /\ \A l \in 1..GroupSize : Abs(g.val[l]) <= Maximum(g)
  BY <1>8, <1>10 DEF Maximum, A
<1> QED BY <1>2, <1>5, <1>11 DEF A

--------------------------------------------------------------------------------
(* Squares grow with their roots.                                          *)
LEMMA Squares ==
  ASSUME NEW x \in Nat, NEW y \in Nat, x <= y
  PROVE  x * x \in Nat /\ y * y \in Nat /\ x * x <= y * y
<1>1. PICK e \in Nat : y = x + e
  <2>1. y - x \in Nat /\ y = x + (y - x) OBVIOUS
  <2> QED BY <2>1
<1>2. x * x \in Nat /\ x * e \in Nat /\ e * e \in Nat /\ y * y \in Nat
  OBVIOUS
<1>3. y * y = x * x + 2 * (x * e) + e * e
  BY <1>1
<1> QED BY <1>2, <1>3

(* The logarithm of a maximum below five.                                  *)
LEMMA SmallLog ==
  ASSUME NEW m \in 1..4, NEW n \in {-3, -2, -1}
  PROVE  IsLog2(m, n) <=> \/ m = 1 /\ n = -3
                          \/ m = 2 /\ n = -2
                          \/ m \in {3, 4} /\ n = -1
<1> DEFINE P == 2^(-n)
           b == 156 * m * P
<1>1. IsLog2(m, n) <=> 500000 <= b * b /\ b * b < 2000000
  <2>1. n < 0 /\ m < 5 OBVIOUS
  <2> QED BY <2>1 DEF IsLog2
<1>2. /\ n = -3 => P = 8
      /\ n = -2 => P = 4
      /\ n = -1 => P = 2
  <2>1. 2^3 = 8 /\ 2^2 = 4 /\ 2^1 = 2 OBVIOUS
  <2>2. /\ n = -3 => -n = 3
        /\ n = -2 => -n = 2
        /\ n = -1 => -n = 1
    OBVIOUS
  <2> QED BY <2>1, <2>2
<1> HIDE DEF P
<1> QED BY <1>1, <1>2

(* What the logarithm says of a maximum from five on.                      *)
LEMMA LargeLog ==
  ASSUME NEW m \in Nat, NEW n \in Nat, IsLog2(m, n)
  PROVE  /\ 7 * 2^n <= 2 * m
         /\ 2 * m < 19 * 2^n
         /\ ~(m <= 4 * 2^n)
<1> DEFINE a == 156 * m
           d == 2^n
<1>1. d \in Nat \ {0} BY PowerPositive
<1>2. 500000 * (d * d) <= a * a /\ a * a < 2000000 * (d * d)
  <2>1. ~(n < 0) OBVIOUS
  <2> QED BY <2>1 DEF IsLog2
<1> HIDE DEF d
<1>3. d * d \in Nat \ {0}
  BY <1>1
<1>4. 7 * d <= 2 * m
  <2>1. SUFFICES ASSUME 2 * m <= 7 * d PROVE FALSE
    BY <1>1
  <2>2. a <= 546 * d /\ a \in Nat /\ 546 * d \in Nat BY <2>1, <1>1
  <2> HIDE DEF a
  <2>3. a * a <= (546 * d) * (546 * d) BY <2>2, Squares
  <2>4. (546 * d) * (546 * d) = 298116 * (d * d) BY <1>1
  <2> QED BY <2>2, <2>3, <2>4, <1>2, <1>3
<1>5. 2 * m < 19 * d
  <2>1. SUFFICES ASSUME 19 * d <= 2 * m PROVE FALSE
    BY <1>1
  <2>2. 1482 * d <= a /\ a \in Nat /\ 1482 * d \in Nat BY <2>1, <1>1
  <2> HIDE DEF a
  <2>3. (1482 * d) * (1482 * d) <= a * a BY <2>2, Squares
  <2>4. (1482 * d) * (1482 * d) = 2196324 * (d * d) BY <1>1
  <2> QED BY <2>2, <2>3, <2>4, <1>2, <1>3
<1>6. ~(m <= 4 * d)
  <2>1. SUFFICES ASSUME m <= 4 * d PROVE FALSE
    OBVIOUS
  <2>2. a <= 624 * d /\ a \in Nat /\ 624 * d \in Nat BY <2>1, <1>1
  <2> HIDE DEF a
  <2>3. a * a <= (624 * d) * (624 * d) BY <2>2, Squares
  <2>4. (624 * d) * (624 * d) = 389376 * (d * d) BY <1>1
  <2> QED BY <2>2, <2>3, <2>4, <1>2, <1>3
<1> QED BY <1>4, <1>5, <1>6 DEF d

(* A maximum up to 2^k has a logarithm of at most k - 3.                   *)
LEMMA LogBound ==
  ASSUME NEW m \in Nat \ {0}, NEW k \in Nat, m <= 2^k,
         NEW n \in Int, -3 <= n, IsLog2(m, n)
  PROVE  n <= k - 3
<1>1. CASE n < 0
  <2>1. m \in 1..4 /\ n \in {-3, -2, -1}
    BY <1>1 DEF IsLog2
  <2>2. \/ m = 1 /\ n = -3
        \/ m = 2 /\ n = -2
        \/ m \in {3, 4} /\ n = -1
    BY <2>1, SmallLog
  <2>3. k = 0 => m <= 1
    <3>1. 2^0 = 1 OBVIOUS
    <3> QED BY <3>1
  <2>4. k = 1 => m <= 2
    <3>1. 2^1 = 2 OBVIOUS
    <3> QED BY <3>1
  <2> QED BY <2>2, <2>3, <2>4
<1>2. CASE ~(n < 0)
  <2>1. n \in Nat BY <1>2
  <2>2. ~(m <= 4 * 2^n) /\ 2^n \in Nat BY <2>1, LargeLog, PowerPositive
  <2>3. SUFFICES ASSUME k <= n + 2 PROVE FALSE
    BY <2>1
  <2>4. 2^(n + 1) = 2 * 2^n /\ 2^((n + 1) + 1) = 2 * 2^(n + 1)
    <3>1. n + 1 \in Nat BY <2>1
    <3> QED BY <2>1, <3>1, PowerNext
  <2>5. (n + 1) + 1 = n + 2 /\ n + 2 \in Nat BY <2>1
  <2>6. 2^k <= 2^(n + 2) BY <2>3, <2>5, PowerMonotone
  <2>7. 2^(n + 2) = 4 * 2^n BY <2>2, <2>4, <2>5
  <2> QED BY <2>2, <2>6, <2>7, PowerPositive
<1> QED BY <1>1, <1>2

(* Every maximum of a finite group has a logarithm.                        *)
LEMMA LogExists ==
  ASSUME NEW m \in Nat \ {0}, NEW k \in 0..277, m <= 2^k
  PROVE  \E n \in (-3)..274 : IsLog2(m, n)
<1>1. CASE m < 5
  <2>1. m \in 1..4 BY <1>1
  <2>2. CASE m = 1
    <3>1. IsLog2(m, -3) BY <2>1, <2>2, SmallLog
    <3> QED BY <3>1
  <2>3. CASE m = 2
    <3>1. IsLog2(m, -2) BY <2>1, <2>3, SmallLog
    <3> QED BY <3>1
  <2>4. CASE m \in {3, 4}
    <3>1. IsLog2(m, -1) BY <2>1, <2>4, SmallLog
    <3> QED BY <3>1
  <2> QED BY <2>1, <2>2, <2>3, <2>4
<1>2. CASE ~(m < 5)
  <2> DEFINE a == 156 * m
             Above(n) == a * a < 2000000 * (2^n * 2^n)
             T == {n \in Nat : Above(n)}
  <2>1. k \in T
    <3> DEFINE p == 2^k
    <3>1. p \in Nat \ {0} BY PowerPositive
    <3> HIDE DEF p
    <3>2. m <= p BY DEF p
    <3>3. a \in Nat /\ 156 * p \in Nat /\ a <= 156 * p BY <3>1, <3>2
    <3> HIDE DEF a
    <3>4. a * a <= (156 * p) * (156 * p) BY <3>3, Squares
    <3>5. (156 * p) * (156 * p) = 24336 * (p * p) BY <3>1
    <3>6. p * p \in Nat \ {0} BY <3>1
    <3>7. a * a < 2000000 * (p * p) BY <3>3, <3>4, <3>5, <3>6
    <3> QED BY <3>7 DEF p
  <2> HIDE DEF Above
  <2>2. T \in SUBSET Nat /\ T # {} BY <2>1
  <2>3. PICK n \in T : \A y \in T : n <= y
    BY <2>2, LeastNumber
  <2>4. n \in Nat /\ a * a < 2000000 * (2^n * 2^n)
    BY <2>3 DEF Above
  <2>5. 500000 * (2^n * 2^n) <= a * a
    <3>1. CASE n = 0
      <4>1. 2^0 = 1 OBVIOUS
      <4>2. 780 <= a /\ a \in Nat BY <1>2
      <4> HIDE DEF a
      <4>3. 780 * 780 <= a * a BY <4>2, Squares
      <4> QED BY <3>1, <4>1, <4>2, <4>3
    <3>2. CASE n # 0
      <4>1. PICK j \in Nat : n = j + 1
        <5>1. n - 1 \in Nat /\ n = (n - 1) + 1 BY <2>4, <3>2
        <5> QED BY <5>1
      <4>2. j \notin T
        <5>1. ~(n <= j) BY <4>1
        <5> QED BY <5>1, <2>3
      <4>3. 2^n = 2 * 2^j /\ 2^j \in Nat BY <4>1, PowerNext, PowerPositive
      <4>4. ~(a * a < 2000000 * (2^j * 2^j)) BY <4>1, <4>2 DEF Above
      <4> DEFINE p == 2^j
      <4>5. p \in Nat /\ 2^n = 2 * p /\ ~(a * a < 2000000 * (p * p)) /\ a \in Nat
        BY <4>3, <4>4
      <4> HIDE DEF p, a
      <4>6. (2 * p) * (2 * p) = 4 * (p * p) /\ p * p \in Nat /\ a * a \in Nat BY <4>5
      <4> QED BY <4>5, <4>6
    <3> QED BY <3>1, <3>2
  <2>6. IsLog2(m, n)
    <3>1. ~(n < 0) BY <2>4
    <3> QED BY <3>1, <2>4, <2>5 DEF IsLog2
  <2>7. n <= k - 3
    BY <2>4, <2>6, LogBound
  <2>8. n \in (-3)..274
    BY <2>4, <2>7
  <2> QED BY <2>6, <2>8
<1> QED BY <1>1, <1>2
--------------------------------------------------------------------------------
(* The eight magnitudes, in halves.                                        *)
LEMMA HalfValues ==
  /\ \A c \in Int : Half(c) \in Int
  /\ \A c \in 0..7 : Half(c) <= 12
  /\ \A c \in 0..6 : Half(c) < 12
  /\ Half(7) = 12
  BY SMT DEF Half

(* The values compared are integers, and the scale is positive.            *)
LEMMA DistanceTypes ==
  ASSUME CodecTypeOK
  PROVE  /\ Denominator \in Nat \ {0}
         /\ \A l \in 1..GroupSize : Numerator(l) \in Nat
         /\ \A l \in 1..GroupSize, c \in Int : Distance(l, c) \in Nat
<1>1. exponent \in Int /\ group.unit \in Int /\ \A l \in 1..GroupSize : group.val[l] \in Int
  <2>1. \A u \in (-149)..127 : u \in Int OBVIOUS
  <2>2. exponent \in Int BY SMT DEF CodecTypeOK
  <2>3. CASE group \in Groups
    BY <2>1, <2>2, <2>3, GroupAssumption
  <2>4. CASE group = Zeros
    BY <2>2, <2>4 DEF Zeros
  <2> QED BY <2>3, <2>4 DEF CodecTypeOK
<1>2. Denominator \in Nat \ {0}
  <2>1. CASE exponent > group.unit
    BY <2>1, <1>1, PowerPositive DEF Denominator
  <2>2. CASE ~(exponent > group.unit)
    BY <2>2 DEF Denominator
  <2> QED BY <2>1, <2>2
<1>3. ASSUME NEW l \in 1..GroupSize PROVE Numerator(l) \in Nat
  <2>1. Abs(group.val[l]) \in Nat
    BY <1>1, SMT DEF Abs
  <2>2. CASE exponent > group.unit
    BY <2>1, <2>2 DEF Numerator
  <2>3. CASE ~(exponent > group.unit)
    <3>1. 2^(group.unit - exponent) \in Nat
      BY <2>3, <1>1, PowerPositive
    <3>2. \A x, y \in Nat : 2 * x * y \in Nat
      BY SMT
    <3> QED BY <2>1, <2>3, <3>1, <3>2 DEF Numerator
  <2> QED BY <2>2, <2>3
<1>4. ASSUME NEW l \in 1..GroupSize, NEW c \in Int PROVE Distance(l, c) \in Nat
  <2>1. Half(c) * Denominator \in Int
    BY <1>2, HalfValues
  <2> QED BY <2>1, <1>3, SMT DEF Distance, Abs
<1> QED BY <1>2, <1>3, <1>4

(* A magnitude of six or more is nearest to six.                           *)
LEMMA ClippedIsBest ==
  CodecTypeOK /\ lane \in 1..GroupSize /\ Clips => Best(lane, 7, 7)
<1> SUFFICES ASSUME CodecTypeOK, lane \in 1..GroupSize, Clips
             PROVE  Best(lane, 7, 7)
  OBVIOUS
<1> DEFINE n == Numerator(lane)
           d == Denominator
<1>1. n \in Nat /\ d \in Nat \ {0} /\ n >= 12 * d
  BY DistanceTypes DEF Clips
<1>2. ASSUME NEW c \in 0..7 PROVE NoWorse(lane, 7, c)
  <2>1. CASE c = 7
    BY <2>1, DistanceTypes DEF NoWorse
  <2>2. CASE c < 7
    <3>1. Half(c) \in Int /\ Half(c) < 12 /\ Half(7) = 12
      BY <2>2, HalfValues
    <3>2. Half(c) * d \in Int /\ Half(c) * d < 12 * d
      BY <3>1, <1>1, SMT
    <3>3. Distance(lane, 7) = n - 12 * d /\ Distance(lane, c) = n - Half(c) * d
      BY <3>1, <3>2, <1>1, SMT DEF Distance, Abs
    <3>4. Distance(lane, 7) < Distance(lane, c)
      BY <3>2, <3>3, <1>1, SMT
    <3> QED BY <3>4 DEF NoWorse
  <2> QED BY <2>1, <2>2, SMT
<1> QED BY <1>2 DEF Best

(* At the start of a lane the first candidate is all there is to compare.  *)
LEMMA FirstIsBest == CodecTypeOK /\ lane \in 1..GroupSize => Best(lane, 0, 0)
<1> SUFFICES ASSUME CodecTypeOK, lane \in 1..GroupSize PROVE Best(lane, 0, 0)
  OBVIOUS
<1>1. Distance(lane, 0) \in Nat
  BY DistanceTypes
<1> QED BY <1>1, SMT DEF Best, NoWorse

(* One iteration of the candidate loop keeps the best of the candidates.   *)
LEMMA LoopStep ==
  ASSUME CodecTypeOK, lane \in 1..GroupSize,
         candidate \in 1..7, selected < candidate,
         Best(lane, selected, candidate - 1),
         NEW m, m = IF \/ Distance(lane, candidate) < Distance(lane, selected)
                       \/ /\ Distance(lane, candidate) = Distance(lane, selected)
                          /\ candidate % 2 = 0 /\ selected % 2 # 0
                    THEN candidate ELSE selected
  PROVE  m \in 0..7 /\ m <= candidate /\ Best(lane, m, candidate)
<1>1. selected \in 0..7
  BY DEF CodecTypeOK
<1>2. \A c \in Int : Distance(lane, c) \in Nat
  BY DistanceTypes
<1>3. ASSUME NEW c \in 0..candidate PROVE NoWorse(lane, m, c)
  <2>1. CASE c = candidate
    BY <2>1, <1>1, <1>2, SMT DEF NoWorse
  <2>2. CASE c < candidate
    <3>1. NoWorse(lane, selected, c)
      BY <2>2, SMT DEF Best
    <3> QED BY <3>1, <1>1, <1>2, SMT DEF NoWorse
  <2> QED BY <2>1, <2>2, SMT
<1> QED BY <1>1, <1>3, SMT DEF Best
--------------------------------------------------------------------------------
LEMMA ZerosMaximum == Maximum(Zeros) = 0
<1>1. \A l \in 1..GroupSize : Abs(Zeros.val[l]) = 0
  BY SMT DEF Zeros, Abs
<1>2. 1 \in 1..GroupSize
  BY GroupAssumption
<1>3. {Abs(Zeros.val[l]) : l \in 1..GroupSize} = {0}
  BY <1>1, <1>2
<1> QED BY <1>1, <1>3 DEF Maximum

(* The scale of a group that is not zero: its logarithm, unless that is     *)
(* below the byte; no finite group reaches the upper clamp.                *)
LEMMA ScaleIs ==
  ASSUME NEW g \in Groups, Maximum(g) # 0
  PROVE  /\ Log2Rounded(Maximum(g)) \in (-3)..274
         /\ IsLog2(Maximum(g), Log2Rounded(Maximum(g)))
         /\ ScaleExponent(g) \in (-127)..125
         /\ ScaleExponent(g) >= g.unit + Log2Rounded(Maximum(g))
         /\ ScaleExponent(g) > -127 => ScaleExponent(g) = g.unit + Log2Rounded(Maximum(g))
<1> DEFINE m == Maximum(g)
           n == Log2Rounded(m)
<1>1. g.unit \in (-149)..127
  BY GroupAssumption
<1>2. m \in Nat \ {0} /\ \E l \in 1..GroupSize : m = Abs(g.val[l])
  BY MaximumIs
<1>3. PICK k \in 0..(128 - g.unit) : m < 2^k
  BY <1>2, FiniteAssumption
<1> HIDE DEF m
<1>4. \A u \in (-149)..127 : \A j \in 0..(128 - u) : j \in 0..277 /\ j + u <= 128
  OBVIOUS
<1>5. k \in 0..277 /\ k \in Nat /\ k + g.unit <= 128
  <2>1. \A j \in 0..(128 - g.unit) : j \in 0..277 /\ j + g.unit <= 128
    BY <1>1, <1>4, Zenon
  <2>2. k \in 0..277 /\ k + g.unit <= 128 BY <1>3, <2>1, Zenon
  <2>3. 0..277 \subseteq Nat OBVIOUS
  <2> QED BY <2>2, <2>3, Zenon
<1>6. m <= 2^k
  BY <1>2, <1>3, <1>5, PowerPositive
<1>7. n \in (-3)..274 /\ IsLog2(m, n)
  BY <1>2, <1>5, <1>6, LogExists DEF Log2Rounded
<1> HIDE DEF n
<1>8. n \in Int /\ -3 <= n
  BY <1>7
<1>9. n <= k - 3
  BY <1>2, <1>5, <1>6, <1>7, <1>8, LogBound
<1>10. g.unit \in Int /\ g.unit + n <= 125
  <2>1. \A u \in (-149)..127 : u \in Int OBVIOUS
  <2>2. g.unit \in Int BY <1>1, <2>1
  <2> QED BY <2>2, <1>5, <1>8, <1>9
<1>11. ScaleExponent(g) = Clamped(g.unit + n)
  BY DEF ScaleExponent, m, n
<1>13. g.unit + n \in Int
  BY <1>8, <1>10
<1>14. /\ ScaleExponent(g) \in (-127)..125
       /\ ScaleExponent(g) >= g.unit + n
       /\ ScaleExponent(g) > -127 => ScaleExponent(g) = g.unit + n
  <2>1. PICK e \in Int : e = g.unit + n BY <1>13
  <2>2. e <= 125 /\ ScaleExponent(g) = Clamped(e) BY <1>10, <1>11, <2>1, Zenon
  <2>3. /\ Clamped(e) \in (-127)..125 /\ Clamped(e) >= e
        /\ Clamped(e) > -127 => Clamped(e) = e
    BY <2>2, SMT DEF Clamped
  <2> QED BY <2>1, <2>2, <2>3, Zenon
<1> QED BY <1>7, <1>14, Zenon DEF m, n

(* The scale exponent is within the byte, and decoding cannot overflow.    *)
LEMMA ScaleType ==
  ASSUME NEW g \in Groups \cup {Zeros} PROVE ScaleExponent(g) \in (-127)..125
<1>1. CASE Maximum(g) = 0
  BY <1>1, SMT DEF ScaleExponent
<1>2. CASE Maximum(g) # 0
  <2>1. g # Zeros
    BY <1>2, ZerosMaximum
  <2> QED BY <1>2, <2>1, ScaleIs
<1> QED BY <1>1, <1>2

(* The invariant holds before the first group.                             *)
LEMMA CodecInitInv == CodecInit => CodecInv
<1> SUFFICES ASSUME CodecInit PROVE CodecInv
  OBVIOUS
<1>1. CodecTypeOK
  BY GroupAssumption, SMT DEF CodecInit, CodecTypeOK
<1>2. Packing
  BY SMT DEF CodecInit, Packing
<1>3. Searching
  BY DEF CodecInit, Searching
<1>4. Rounded
  BY SMT DEF CodecInit, Rounded, Encoded
<1>5. Scaled
  BY DEF CodecInit, Scaled
<1> QED BY <1>1, <1>2, <1>3, <1>4, <1>5 DEF CodecInv

(* Whichever way a lane starts, the code selected so far is the best of    *)
(* the candidates already passed.                                          *)
LEMMA LaneStarts ==
  ASSUME CodecTypeOK, StartLane, lane' \in 1..GroupSize,
         group' \in Groups \cup {Zeros}, exponent' \in (-127)..127,
         codes' \in Seq(0..255)
  PROVE  /\ CodecTypeOK' /\ Searching'
         /\ phase' \in {"nearest", "emit"}
<1>1. CodecTypeOK' /\ phase' \in {"nearest", "emit"}
  <2>1. phase' \in {"nearest", "emit"} /\ candidate' \in 1..8 /\ selected' \in 0..7
    BY DEF StartLane, CodecTypeOK
  <2> QED BY <2>1, GroupAssumption, SMT DEF CodecTypeOK, Zeros
<1>2. Searching'
  <2>1. CASE Clips'
    <3>1. Best(lane, 7, 7)'
      <4>1. (lane \in 1..GroupSize)'
        OBVIOUS
      <4> QED BY <1>1, <2>1, <4>1, ClippedIsBest, PTL
    <3> QED BY <2>1, <3>1 DEF StartLane, Searching
  <2>2. CASE ~Clips'
    <3>1. Best(lane, 0, 0)'
      <4>1. (lane \in 1..GroupSize)'
        OBVIOUS
      <4> QED BY <1>1, <4>1, FirstIsBest, PTL
    <3>2. phase' = "nearest" /\ selected' = 0 /\ candidate' = 1
      BY <2>2 DEF StartLane
    <3> QED BY <3>1, <3>2, SMT DEF Searching
  <2> QED BY <2>1, <2>2
<1> QED BY <1>1, <1>2

EmittedCode == selected + IF selected # 0 /\ group.val[lane] < 0 THEN 8 ELSE 0

(* Two four-bit codes share a byte without disturbing each other.          *)
LEMMA Nibbles ==
  \A b, c \in 0..15 : /\ b + 16 * c \in 0..255
                      /\ (b + 16 * c) % 16 = b
                      /\ ((b + 16 * c) \div 16) % 16 = c
                      /\ b % 16 = b
  BY SMT

(* Emit adds one code and leaves every code already packed as it was.      *)
LEMMA EmitPacks ==
  ASSUME CodecTypeOK, Packing, Emit
  PROVE  /\ codes' \in Seq(0..255)
         /\ Len(codes') = (lane + 1) \div 2
         /\ (lane + 1) % 2 = 0 => codes'[(lane + 1) \div 2] < 16
         /\ \A l \in 1..lane : Code(l)' = IF l = lane THEN EmittedCode ELSE Code(l)
<1> DEFINE e == EmittedCode
<1>1. e \in 0..15 /\ lane \in 1..GroupSize /\ codes \in Seq(0..255)
  BY SMT DEF CodecTypeOK, EmittedCode, Emit, Packing
<1>2. Len(codes) = lane \div 2
  BY DEF Packing
<1>3. codes' = IF lane % 2 = 1 THEN Append(codes, e)
               ELSE [codes EXCEPT ![lane \div 2] = @ + 16 * e]
  BY DEF Emit, EmittedCode
<1> HIDE DEF e
<1>4. CASE lane % 2 = 1
  <2>1. codes' = Append(codes, e) /\ Len(codes) = lane \div 2
    BY <1>2, <1>3, <1>4
  <2>2. /\ codes' \in Seq(0..255) /\ Len(codes') = Len(codes) + 1
        /\ codes'[Len(codes) + 1] = e
        /\ \A j \in 1..Len(codes) : codes'[j] = codes[j]
    BY <2>1, <1>1, SMT
  <2>3. (lane + 1) \div 2 = lane \div 2 + 1
    BY <1>1, <1>4, SMT
  <2>4. ASSUME NEW l \in 1..(lane - 1) PROVE Code(l)' = Code(l)
    <3>1. (l + 1) \div 2 \in 1..(lane \div 2)
      BY <1>1, <1>4, SMT
    <3> QED BY <3>1, <2>1, <2>2 DEF Code
  <2>5. ASSUME NEW l, l = lane PROVE Code(l)' = e
    <3>1. codes'[(l + 1) \div 2] = e
      BY <2>1, <2>2, <2>3, <2>5
    <3>2. e \div 1 = e /\ e % 16 = e
      BY <1>1, SMT
    <3> QED BY <3>1, <3>2, <2>5, <1>4 DEF Code
  <2> QED BY <2>1, <2>2, <2>3, <2>4, <2>5, <1>1, SMT DEF e
<1>5. CASE lane % 2 = 0
  <2> DEFINE j == lane \div 2
             b == codes[j]
  <2>1. j \in 1..Len(codes) /\ b \in 0..255 /\ b < 16
    <3>1. phase = "emit"
      BY DEF Emit
    <3>2. j \in 1..Len(codes)
      BY <1>1, <1>2, <1>5, SMT
    <3>3. b \in 0..255
      BY <1>1, <3>2, ElementOfSeq
    <3>4. b < 16
      BY <3>1, <1>5 DEF Packing
    <3> QED BY <3>2, <3>3, <3>4
  <2> HIDE DEF b
  <2>2. b + 16 * e \in 0..255 /\ (b + 16 * e) % 16 = b /\ ((b + 16 * e) \div 16) % 16 = e
    <3>1. b \in 0..15
      BY <2>1, SMT
    <3> QED BY <3>1, <1>1, Nibbles
  <2>3. codes' = [codes EXCEPT ![j] = b + 16 * e]
    BY <1>3, <1>5, SMT DEF b
  <2>4. /\ codes' \in Seq(0..255) /\ Len(codes') = Len(codes)
        /\ codes'[j] = b + 16 * e
        /\ \A i \in 1..Len(codes) : i # j => codes'[i] = codes[i]
    BY <2>1, <2>2, <2>3, <1>1, SMT
  <2>5. (lane + 1) \div 2 = j /\ (lane + 1) % 2 = 1
    BY <1>1, <1>5, SMT
  <2>6. ASSUME NEW l \in 1..(lane - 1) PROVE Code(l)' = Code(l)
    <3>1. CASE l = lane - 1
      <4>1. (l + 1) \div 2 = j /\ l % 2 = 1
        BY <3>1, <1>1, <1>5, SMT
      <4>2. (b + 16 * e) \div 1 = b + 16 * e /\ b \div 1 = b /\ b % 16 = b
        BY <2>1, <2>2, <1>1, SMT
      <4> QED BY <4>1, <4>2, <2>2, <2>4 DEF Code, b
    <3>2. CASE l # lane - 1
      <4>1. (l + 1) \div 2 \in 1..Len(codes) /\ (l + 1) \div 2 # j
        BY <3>2, <1>1, <1>2, <1>5, SMT
      <4> QED BY <4>1, <2>4 DEF Code
    <3> QED BY <3>1, <3>2
  <2>7. ASSUME NEW l, l = lane PROVE Code(l)' = e
    <3>1. (l + 1) \div 2 = j /\ l % 2 # 1
      BY <2>7, <2>5, <1>5
    <3> QED BY <3>1, <2>2, <2>4 DEF Code
  <2> QED BY <2>4, <2>5, <2>6, <2>7, <1>1, <1>2, SMT DEF e
<1> QED BY <1>1, <1>4, <1>5, SMT

(* Comparisons of values depend on the group and its scale only.           *)
LEMMA SameComparisons ==
  ASSUME UNCHANGED <<group, exponent>>
  PROVE  \A l, m, c : NoWorse(l, m, c)' <=> NoWorse(l, m, c)
  BY DEF NoWorse, Distance, Numerator, Denominator

(* Every step of encode_group preserves the invariant.                     *)
LEMMA CodecStepInv == CodecInv /\ [CodecNext]_codecVars => CodecInv'
<1> SUFFICES ASSUME CodecInv, [CodecNext]_codecVars PROVE CodecInv'
  OBVIOUS
<1> USE DEF CodecInv
<1>0. GroupSize \in Nat \ {0} /\ Zeros' = Zeros
  BY GroupAssumption DEF Zeros
<1>1. CASE \E g \in Groups : Begin(g)
  <2> PICK g \in Groups : Begin(g)
    BY <1>1
  <2>1. lane = 1 /\ codes = <<>> /\ lane' = 1 /\ codes' = <<>>
    BY SMT DEF Begin, Packing, CodecTypeOK
  <2>2. CodecTypeOK'
    BY <1>0, SMT DEF Begin, CodecTypeOK
  <2>3. Packing'
    BY <2>1, SMT DEF Begin, Packing
  <2>4. Searching'
    BY SMT DEF Begin, Searching
  <2>5. Rounded'
    BY <2>1, SMT DEF Rounded, Encoded
  <2>6. Scaled'
    BY DEF Begin, Scaled
  <2> QED BY <2>2, <2>3, <2>4, <2>5, <2>6
<1>2. CASE ChooseScale
  <2>1. lane = 1 /\ lane' = 1 /\ codes' = codes /\ group' = group /\ Len(codes) = 0
    BY <1>2, SMT DEF ChooseScale, Packing
  <2>2. exponent' \in (-127)..127
    <3>1. exponent' \in (-127)..125
      BY <1>2, ScaleType DEF ChooseScale, CodecTypeOK
    <3> QED BY <3>1, SMT
  <2>3. CodecTypeOK' /\ Searching' /\ phase' \in {"nearest", "emit"}
    BY <1>2, <1>0, <2>1, <2>2, LaneStarts DEF ChooseScale, CodecTypeOK
  <2>4. Packing'
    BY <2>1, <2>3, <1>0, SMT DEF Packing
  <2>5. Rounded'
    BY <2>1, SMT DEF Rounded, Encoded
  <2>6. Scaled'
    BY <1>2, <2>1 DEF ChooseScale, Scaled
  <2> QED BY <2>3, <2>4, <2>5, <2>6
<1>3. CASE Consider
  <2>1. lane \in 1..GroupSize /\ candidate \in 1..7 /\ selected < candidate
    BY <1>3, <1>0, SMT DEF Consider, Packing, Searching, CodecTypeOK
  <2>2. selected' \in 0..7 /\ selected' <= candidate /\ Best(lane, selected', candidate)
    <3>1. Best(lane, selected, candidate - 1)
      BY <1>3 DEF Consider, Searching
    <3> QED BY <1>3, <2>1, <3>1, LoopStep DEF Consider
  <2>3. UNCHANGED <<group, exponent, codes, lane>> /\ candidate' = candidate + 1
    BY <1>3 DEF Consider
  <2>4. CodecTypeOK'
    BY <1>3, <1>0, <2>1, <2>2, <2>3, SMT DEF Consider, CodecTypeOK
  <2>5. Packing'
    BY <1>3, <2>3, SMT DEF Consider, Packing
  <2>6. Searching'
    <3>1. \A n : Best(lane, selected', n) <=> Best(lane, selected, n)'
      BY <2>3, SameComparisons DEF Best
    <3>2. CASE candidate = 7
      <4>1. phase' = "emit" /\ Best(lane, selected, 7)'
        BY <1>3, <2>2, <3>1, <3>2 DEF Consider
      <4> QED BY <4>1 DEF Searching
    <3>3. CASE candidate # 7
      <4>1. phase' = "nearest" /\ candidate' - 1 = candidate
        BY <1>3, <2>1, <2>3, <3>3, SMT DEF Consider
      <4>2. Best(lane, selected, candidate - 1)'
        BY <4>1, <2>2, <3>1
      <4>3. candidate' <= 7 /\ selected' < candidate'
        BY <2>1, <2>2, <2>3, <3>3, SMT
      <4> QED BY <4>1, <4>2, <4>3 DEF Searching
    <3> QED BY <3>2, <3>3
  <2>7. Rounded'
    BY <2>3, SameComparisons DEF Rounded, Encoded, Code
  <2>8. Scaled'
    BY <1>3, <2>3 DEF Consider, Scaled
  <2> QED BY <2>4, <2>5, <2>6, <2>7, <2>8
<1>4. CASE Emit
  <2> DEFINE e == EmittedCode
  <2>1. /\ lane \in 1..GroupSize /\ lane' = lane + 1
        /\ UNCHANGED <<group, exponent>> /\ Best(lane, selected, 7)
    BY <1>4, <1>0, SMT DEF Emit, Packing, Searching, CodecTypeOK
  <2>2. /\ codes' \in Seq(0..255)
        /\ Len(codes') = lane' \div 2
        /\ lane' % 2 = 0 => codes'[lane' \div 2] < 16
        /\ \A l \in 1..lane : Code(l)' = IF l = lane THEN e ELSE Code(l)
    BY <1>4, <2>1, EmitPacks
  <2>3. e % 8 = selected /\ (e >= 8 <=> selected # 0 /\ group.val[lane] < 0)
    <3>1. selected \in 0..7 BY DEF CodecTypeOK
    <3>2. \A s \in 0..7 : s % 8 = s /\ (s + 8) % 8 = s /\ ~(s >= 8) /\ s + 8 >= 8 /\ s + 0 = s
      OBVIOUS
    <3>3. CASE selected # 0 /\ group.val[lane] < 0
      <4>1. e = selected + 8 BY <3>3 DEF EmittedCode
      <4> QED BY <3>1, <3>2, <3>3, <4>1
    <3>4. CASE ~(selected # 0 /\ group.val[lane] < 0)
      <4>1. e = selected + 0 BY <3>4 DEF EmittedCode
      <4> QED BY <3>1, <3>2, <3>4, <4>1
    <3> QED BY <3>3, <3>4
  <2>4. Rounded'
    <3>1. Encoded' = lane /\ Encoded = lane - 1
      BY <2>1, SMT DEF Encoded
    <3>2. ASSUME NEW l \in 1..lane
          PROVE  /\ \A c \in 0..7 : NoWorse(l, Code(l)' % 8, c)
                 /\ Code(l)' >= 8 <=> Code(l)' % 8 # 0 /\ group.val[l] < 0
      <4>1. CASE l = lane
        BY <4>1, <2>1, <2>2, <2>3 DEF Best
      <4>2. CASE l # lane
        <5>1. l \in 1..Encoded /\ Code(l)' = Code(l)
          BY <4>2, <3>1, <2>1, <2>2, SMT
        <5> QED BY <5>1 DEF Rounded
      <4> QED BY <4>1, <4>2
    <3>3. \A l \in 1..lane : \A c \in 0..7 : (NoWorse(l, Code(l) % 8, c))'
      BY <3>2, <2>1, SameComparisons
    <3> QED BY <3>1, <3>2, <3>3, <2>1 DEF Rounded
  <2>7. Scaled'
    BY <1>4, <2>1 DEF Emit, Scaled
  <2>5. CASE lane = GroupSize
    <3>1. phase' = "done" /\ UNCHANGED <<candidate, selected>>
      BY <1>4, <2>5 DEF Emit
    <3>2. CodecTypeOK'
      BY <2>1, <2>2, <3>1, <1>0, SMT DEF CodecTypeOK
    <3>3. Packing' /\ Searching'
      BY <2>1, <2>2, <2>5, <3>1, SMT DEF Packing, Searching
    <3> QED BY <3>2, <3>3, <2>4, <2>7
  <2>6. CASE lane # GroupSize
    <3>1. StartLane /\ lane' \in 1..GroupSize
      BY <1>4, <2>1, <2>6, <1>0, SMT DEF Emit
    <3>2. CodecTypeOK' /\ Searching' /\ phase' \in {"nearest", "emit"}
      BY <3>1, <2>1, <2>2, LaneStarts DEF CodecTypeOK
    <3>3. Packing'
      <4>1. phase' \notin {"idle", "scale"} /\ lane' <= GroupSize
        BY <3>1, <3>2, <1>0
      <4> QED BY <4>1, <3>2, <2>2 DEF Packing
    <3> QED BY <3>2, <3>3, <2>4, <2>7
  <2> QED BY <2>5, <2>6
<1>5. CASE Finish
  <2>1. CodecInit'
    BY <1>5, <1>0 DEF Finish, CodecInit
  <2> QED BY <2>1, CodecInitInv, PTL
<1>6. CASE UNCHANGED codecVars
  <2>1. \A l, m, c : NoWorse(l, m, c)' <=> NoWorse(l, m, c)
    BY <1>6, SameComparisons DEF codecVars
  <2>2. CodecTypeOK' /\ Packing'
    BY <1>6, <1>0 DEF codecVars, CodecTypeOK, Packing
  <2>3. Searching'
    BY <1>6, <2>1 DEF codecVars, Searching, Best
  <2>4. Rounded'
    BY <1>6, <2>1 DEF codecVars, Rounded, Encoded, Code
  <2>5. Scaled'
    BY <1>6 DEF codecVars, Scaled
  <2> QED BY <2>2, <2>3, <2>4, <2>5
<1> QED BY <1>1, <1>2, <1>3, <1>4, <1>5, <1>6 DEF CodecNext

--------------------------------------------------------------------------------
(* The scale and the values of a group.                                    *)

(* No value exceeds 9.5 times the scale; without the lower clamp one of    *)
(* them reaches 3.5 times the scale.                                       *)
LEMMA ScaledValues ==
  ASSUME CodecTypeOK, group \in Groups, Maximum(group) # 0,
         exponent = ScaleExponent(group)
  PROVE  /\ \A l \in 1..GroupSize : Numerator(l) <= 19 * Denominator
         /\ exponent > -127 => \E l \in 1..GroupSize : Numerator(l) >= 7 * Denominator
<1> DEFINE m == Maximum(group)
           n == Log2Rounded(m)
           d == exponent - group.unit
           N(x) == 2 * x * (IF exponent > group.unit THEN 1 ELSE 2^(group.unit - exponent))
<1>1. m \in Nat \ {0} /\ \E l \in 1..GroupSize : m = Abs(group.val[l])
  BY MaximumIs
<1>2. \A l \in 1..GroupSize : Abs(group.val[l]) \in Nat /\ Abs(group.val[l]) <= m
  BY MaximumIs
<1>3. n \in (-3)..274 /\ IsLog2(m, n) /\ exponent >= group.unit + n
      /\ (exponent > -127 => exponent = group.unit + n)
  BY ScaleIs
<1>4. group.unit \in Int /\ exponent \in Int
  <2>1. \A u \in (-149)..127 : u \in Int OBVIOUS
  <2>2. exponent \in Int BY SMT DEF CodecTypeOK
  <2> QED BY <2>1, <2>2, GroupAssumption
<1> HIDE DEF m, n
<1>5. n \in Int /\ -3 <= n /\ d \in Int /\ n <= d /\ (exponent > -127 => d = n)
  BY <1>3, <1>4
<1>6. \A l \in 1..GroupSize : Numerator(l) = N(Abs(group.val[l]))
  BY DEF Numerator
<1>7. CASE d > 0
  <2>1. exponent > group.unit BY <1>4, <1>7
  <2>2. Denominator = 2^d /\ 2^d \in Nat \ {0} /\ \A x \in Nat : N(x) = 2 * x
    <3>1. d \in Nat BY <1>5, <1>7
    <3>2. \A x \in Nat : 2 * x * 1 = 2 * x OBVIOUS
    <3> QED BY <2>1, <3>1, <3>2, PowerPositive DEF Denominator
  <2>3. 2 * m <= 19 * 2^d
    <3>1. CASE n < 0
      <4>1. m < 5 BY <1>3, <3>1 DEF IsLog2
      <4> QED BY <4>1, <1>1, <2>2
    <3>2. CASE ~(n < 0)
      <4>1. n \in Nat /\ d \in Nat BY <1>5, <1>7, <3>2
      <4>2. 2 * m < 19 * 2^n /\ 2^n \in Nat BY <4>1, <1>1, <1>3, LargeLog, PowerPositive
      <4>3. 2^n <= 2^d BY <4>1, <1>5, PowerMonotone
      <4> QED BY <4>2, <4>3, <1>1, <2>2
    <3> QED BY <3>1, <3>2
  <2>4. exponent > -127 => 7 * 2^d <= 2 * m
    <3>1. SUFFICES ASSUME exponent > -127 PROVE 7 * 2^d <= 2 * m
      OBVIOUS
    <3>2. n \in Nat /\ n = d BY <3>1, <1>5, <1>7
    <3> QED BY <3>2, <1>1, <1>3, LargeLog
  <2> HIDE DEF N, d
  <2>5. ASSUME NEW l \in 1..GroupSize PROVE Numerator(l) <= 19 * Denominator
    <3>1. Numerator(l) = 2 * Abs(group.val[l]) BY <1>2, <1>6, <2>2
    <3> QED BY <3>1, <1>1, <1>2, <2>2, <2>3
  <2>6. ASSUME exponent > -127 PROVE \E l \in 1..GroupSize : Numerator(l) >= 7 * Denominator
    <3>1. PICK l \in 1..GroupSize : m = Abs(group.val[l]) BY <1>1
    <3>2. Numerator(l) = 2 * m BY <3>1, <1>1, <1>6, <2>2
    <3>3. Numerator(l) >= 7 * Denominator BY <3>2, <2>2, <2>4, <2>6, <1>1
    <3> QED BY <3>3
  <2> QED BY <2>5, <2>6
<1>8. CASE ~(d > 0)
  <2> DEFINE q == 2^(-d)
  <2>1. ~(exponent > group.unit) /\ group.unit - exponent = -d BY <1>4, <1>8
  <2>2. Denominator = 1 /\ \A x \in Nat : N(x) = 2 * x * q
    BY <2>1 DEF Denominator
  <2>3. n \in {-3, -2, -1, 0} /\ -d \in 0..(-n)
    BY <1>5, <1>8
  <2>4. q \in Nat \ {0} /\ q <= 8 /\ (n = -2 => q <= 4) /\ (n = -1 => q <= 2) /\ (n = 0 => q = 1)
    <3>1. /\ -d \in {0, 1, 2, 3}
          /\ n = -2 => -d \in {0, 1, 2}
          /\ n = -1 => -d \in {0, 1}
          /\ n = 0 => -d = 0
      BY <2>3
    <3> DEFINE c == -d
    <3>2. 2^0 = 1 /\ 2^1 = 2 /\ 2^2 = 4 /\ 2^3 = 8 OBVIOUS
    <3>3. q = 2^c /\ c \in {0, 1, 2, 3} BY <3>1
    <3>4. /\ n = -2 => c \in {0, 1, 2}
          /\ n = -1 => c \in {0, 1}
          /\ n = 0 => c = 0
      BY <3>1
    <3> HIDE DEF c, q, d
    <3>5. c = 0 => q = 1 BY <3>2, <3>3
    <3>6. c = 1 => q = 2 BY <3>2, <3>3
    <3>7. c = 2 => q = 4 BY <3>2, <3>3
    <3>8. c = 3 => q = 8 BY <3>2, <3>3
    <3> QED BY <3>3, <3>4, <3>5, <3>6, <3>7, <3>8
  <2>5. n < 0 =>
          m \in 1..4 /\ ((m = 1 /\ n = -3) \/ (m = 2 /\ n = -2) \/ (m \in {3, 4} /\ n = -1))
    <3>1. SUFFICES ASSUME n < 0
                   PROVE  m \in 1..4 /\ ((m = 1 /\ n = -3) \/ (m = 2 /\ n = -2) \/ (m \in {3, 4} /\ n = -1))
      OBVIOUS
    <3>2. m \in 1..4 BY <1>1, <1>3, <3>1 DEF IsLog2
    <3>3. n \in {-3, -2, -1} BY <2>3, <3>1
    <3> QED BY <3>2, <3>3, <1>3, SmallLog
  <2>6. n = 0 => 7 <= 2 * m /\ 2 * m < 19
    <3>1. SUFFICES ASSUME n = 0 PROVE 7 <= 2 * m /\ 2 * m < 19
      OBVIOUS
    <3>2. 0 \in Nat /\ IsLog2(m, 0) /\ m \in Nat BY <3>1, <1>1, <1>3
    <3>3. 7 * 2^0 <= 2 * m /\ 2 * m < 19 * 2^0 BY <3>2, LargeLog
    <3>4. 2^0 = 1 OBVIOUS
    <3> QED BY <3>3, <3>4, <1>1
  <2>7. exponent > -127 => (n = -3 => q = 8) /\ (n = -2 => q = 4) /\ (n = -1 => q = 2)
    <3>1. SUFFICES ASSUME d = n PROVE (n = -3 => q = 8) /\ (n = -2 => q = 4) /\ (n = -1 => q = 2)
      BY <1>5
    <3> DEFINE c == -d
    <3>2. 2^1 = 2 /\ 2^2 = 4 /\ 2^3 = 8 OBVIOUS
    <3>3. q = 2^c /\ (n = -3 => c = 3) /\ (n = -2 => c = 2) /\ (n = -1 => c = 1) BY <3>1
    <3> HIDE DEF c, q, d
    <3> QED BY <3>2, <3>3
  <2> HIDE DEF N, d, q
  <2>8. m \in Nat /\ m <= 9 /\ 2 * m * q <= 19
    BY <1>1, <2>3, <2>4, <2>5, <2>6
  <2>9. exponent > -127 => 7 <= 2 * m * q
    BY <1>1, <2>3, <2>4, <2>5, <2>6, <2>7
  <2>10. ASSUME NEW l \in 1..GroupSize PROVE Numerator(l) <= 19 * Denominator
    <3> DEFINE x == Abs(group.val[l])
    <3>1. x \in Nat /\ x <= m /\ Numerator(l) = 2 * x * q BY <1>2, <1>6, <2>2
    <3> HIDE DEF x
    <3>2. x * q <= m * q
      <4>1. m - x \in Nat /\ m = x + (m - x) BY <3>1, <2>8
      <4>2. m * q = x * q + (m - x) * q /\ (m - x) * q \in Nat /\ x * q \in Nat
        BY <4>1, <2>4, <2>8, <3>1
      <4> QED BY <4>2
    <3>3. 2 * x * q = 2 * (x * q) /\ 2 * m * q = 2 * (m * q) /\ x * q \in Nat /\ m * q \in Nat
      BY <2>4, <2>8, <3>1
    <3> QED BY <2>2, <2>8, <3>1, <3>2, <3>3
  <2>11. ASSUME exponent > -127 PROVE \E l \in 1..GroupSize : Numerator(l) >= 7 * Denominator
    <3>1. PICK l \in 1..GroupSize : m = Abs(group.val[l]) BY <1>1
    <3>2. Numerator(l) = 2 * m * q BY <3>1, <1>1, <1>6, <2>2
    <3>3. Numerator(l) >= 7 * Denominator BY <3>2, <2>2, <2>9, <2>11, <2>8, <2>4
    <3> QED BY <3>3
  <2> QED BY <2>10, <2>11
<1> QED BY <1>5, <1>7, <1>8

(* What is unpacked is a code.                                             *)
LEMMA UnpackedIsCode ==
  ASSUME CodecTypeOK, Packing, NEW l \in 1..Encoded
  PROVE  Code(l) \in 0..15 /\ Code(l) % 8 \in 0..7 /\ l \in 1..GroupSize
<1>1. l \in 1..(lane - 1) /\ lane \in 1..(GroupSize + 1) /\ GroupSize \in Nat
  BY GroupAssumption DEF CodecTypeOK, Encoded
<1>2. (l + 1) \div 2 \in 1..Len(codes)
  BY <1>1, SMT DEF Packing
<1>3. codes[(l + 1) \div 2] \in 0..255
  BY <1>2, ElementOfSeq DEF CodecTypeOK
<1>4. \A b \in 0..255 : (b \div 1) % 16 \in 0..15 /\ (b \div 16) % 16 \in 0..15
  BY SMT
<1>5. Code(l) \in 0..15
  BY <1>3, <1>4 DEF Code
<1>6. \A c \in 0..15 : c % 8 \in 0..7
  BY SMT
<1> QED BY <1>1, <1>5, <1>6, SMT

(* A magnitude of 3.5 or more is stored as four or six.                    *)
LEMMA LargeIsFourOrSix ==
  ASSUME CodecTypeOK, NEW l \in 1..GroupSize, Numerator(l) >= 7 * Denominator,
         NEW c \in 0..7, NoWorse(l, c, 6)
  PROVE  c >= 6
<1> DEFINE n == Numerator(l)
           d == Denominator
<1>1. n \in Nat /\ d \in Nat \ {0} /\ n >= 7 * d
  BY DistanceTypes
<1>2. Half(6) = 8 /\ Half(c) \in 0..12 /\ (c < 6 => Half(c) \in 0..6) /\ (c < 5 => Half(c) \in 0..4)
  BY SMT DEF Half
<1>3. Distance(l, 6) = Abs(n - 8 * d) /\ Distance(l, c) = Abs(n - Half(c) * d)
  BY <1>2 DEF Distance
<1> HIDE DEF n, d
<1>4. SUFFICES ASSUME c < 6 PROVE FALSE
  BY SMT
<1>5. Half(c) * d \in Nat /\ Half(c) * d <= 6 * d /\ (c < 5 => Half(c) * d <= 4 * d)
  BY <1>1, <1>2, <1>4, SMT
<1>6. Distance(l, c) = n - Half(c) * d
  BY <1>1, <1>3, <1>5, SMT DEF Abs
<1>7. Distance(l, 6) \in Nat /\ Distance(l, 6) <= n - 6 * d
  BY <1>1, <1>3, SMT DEF Abs
<1>8. Distance(l, c) = Distance(l, 6) /\ (c % 2 = 0 \/ 6 % 2 = 1)
  BY <1>1, <1>5, <1>6, <1>7, SMT DEF NoWorse
<1>9. c # 5
  BY <1>8, SMT
<1>10. Half(c) * d <= 4 * d
  BY <1>4, <1>5, <1>9, SMT
<1> QED BY <1>1, <1>5, <1>6, <1>7, <1>8, <1>10, SMT

LEMMA ScaleFitsHolds == CodecInv => ScaleFits
<1> SUFFICES ASSUME CodecInv, phase = "done", Maximum(group) # 0
             PROVE  /\ exponent > -127 => \E l \in 1..GroupSize : Code(l) % 8 >= 6
                    /\ \A l \in 1..GroupSize : Numerator(l) <= 19 * Denominator
  BY DEF ScaleFits
<1>1. CodecTypeOK /\ Packing /\ Rounded /\ exponent = ScaleExponent(group)
  BY DEF CodecInv, Scaled
<1>2. group \in Groups
  BY <1>1, ZerosMaximum DEF CodecTypeOK
<1>3. /\ \A l \in 1..GroupSize : Numerator(l) <= 19 * Denominator
      /\ exponent > -127 => \E l \in 1..GroupSize : Numerator(l) >= 7 * Denominator
  BY <1>1, <1>2, ScaledValues
<1>4. ASSUME exponent > -127 PROVE \E l \in 1..GroupSize : Code(l) % 8 >= 6
  <2>1. PICK l \in 1..GroupSize : Numerator(l) >= 7 * Denominator
    BY <1>3, <1>4
  <2>2. l \in 1..Encoded
    <3>1. Encoded = GroupSize
      BY <1>1, GroupAssumption, SMT DEF Packing, Encoded
    <3> QED BY <3>1
  <2>3. Code(l) % 8 \in 0..7
    BY <1>1, <2>2, UnpackedIsCode
  <2>4. NoWorse(l, Code(l) % 8, 6)
    <3>1. 6 \in 0..7 OBVIOUS
    <3> QED BY <1>1, <2>2, <3>1 DEF Rounded
  <2>5. Code(l) % 8 >= 6
    BY <1>1, <2>1, <2>3, <2>4, LargeIsFourOrSix
  <2> QED BY <2>5
<1> QED BY <1>3, <1>4

(* Values of the GPU's domain have a scale of at most 2^9.                 *)
LEMMA HalfDomainScale ==
  ASSUME CodecTypeOK, exponent = ScaleExponent(group), InHalfDomain
  PROVE  exponent <= 9
<1>1. CASE Maximum(group) = 0
  BY <1>1, SMT DEF ScaleExponent
<1>2. CASE Maximum(group) # 0
  <2> DEFINE m == Maximum(group)
             n == Log2Rounded(m)
             u == group.unit
  <2>1. group \in Groups
    BY <1>2, ZerosMaximum DEF CodecTypeOK
  <2>2. m \in Nat \ {0} /\ \E l \in 1..GroupSize : m = Abs(group.val[l])
    BY <1>2, <2>1, MaximumIs
  <2>3. n \in (-3)..274 /\ IsLog2(m, n) /\ exponent \in (-127)..125
        /\ (exponent > -127 => exponent = u + n)
    BY <1>2, <2>1, ScaleIs
  <2>4. u \in Int /\ \E k \in 0..(12 - u) : m <= 2^k
    <3>1. u \in Int
      <4>1. group.unit \in (-149)..127 BY <2>1, GroupAssumption, Zenon
      <4> QED BY <4>1
    <3>2. PICK l \in 1..GroupSize : m = Abs(group.val[l]) BY <2>2
    <3>3. \E k \in 0..(12 - u) : Abs(group.val[l]) <= 2^k BY DEF InHalfDomain
    <3> HIDE DEF m, u
    <3> QED BY <3>1, <3>2, <3>3
  <2> HIDE DEF m, n, u
  <2>5. PICK k \in 0..(12 - u) : m <= 2^k
    BY <2>4
  <2>6. k \in Nat /\ k <= 12 - u /\ n \in Int /\ -3 <= n /\ exponent \in Int
    BY <2>3, <2>4
  <2>7. n <= k - 3
    BY <2>2, <2>3, <2>5, <2>6, LogBound
  <2> QED BY <2>3, <2>4, <2>6, <2>7
<1> QED BY <1>1, <1>2

LEMMA DecodersAcceptHolds == CodecInv => DecodersAccept
<1> SUFFICES ASSUME CodecInv, NEW l \in 1..Encoded
             PROVE  /\ ExponentByte # 255 /\ FiniteDecoded(Code(l))
                    /\ InHalfDomain => gpu_safe_exponent(ExponentByte)
                    /\ gpu_safe_exponent(ExponentByte) => FiniteHalf(Code(l))
  BY DEF DecodersAccept
<1>1. CodecTypeOK /\ Packing
  BY DEF CodecInv
<1>2. exponent = ScaleExponent(group)
  <2>1. phase \in {"nearest", "emit", "done"}
    <3>1. lane # 1 BY <1>1, SMT DEF Encoded, CodecTypeOK
    <3> QED BY <1>1, <3>1 DEF Packing, CodecTypeOK
  <2> QED BY <2>1 DEF CodecInv, Scaled
<1>3. exponent \in (-127)..125
  BY <1>1, <1>2, ScaleType DEF CodecTypeOK
<1>4. ExponentByte # 255 /\ FiniteDecoded(Code(l))
  BY <1>3, SMT DEF ExponentByte, FiniteDecoded
<1>5. InHalfDomain => gpu_safe_exponent(ExponentByte)
  <2>1. InHalfDomain => exponent <= 9
    BY <1>1, <1>2, HalfDomainScale
  <2> QED BY <1>3, <2>1, SMT DEF gpu_safe_exponent, ExponentByte
<1>6. ASSUME gpu_safe_exponent(ExponentByte) PROVE FiniteHalf(Code(l))
  <2>1. exponent <= 13
    BY <1>3, <1>6, SMT DEF gpu_safe_exponent, ExponentByte
  <2>2. CASE exponent <= 1
    BY <2>2 DEF FiniteHalf
  <2>3. CASE ~(exponent <= 1)
    <3> DEFINE p == 2^(exponent - 1)
    <3>1. p \in Nat /\ p <= 4096
      <4>1. exponent - 1 \in Nat /\ exponent - 1 <= 12 /\ 12 \in Nat BY <1>3, <2>1, <2>3
      <4>2. 2^12 = 4096 BY SMT
      <4>3. p \in Nat BY <4>1, PowerPositive
      <4>4. p <= 2^12 BY <4>1, PowerMonotone
      <4> QED BY <4>2, <4>3, <4>4
    <3>2. Half(Code(l)) \in 0..12
      <4>1. \A c \in 0..15 : Half(c) \in 0..12 BY SMT DEF Half
      <4> QED BY <4>1, <1>1, UnpackedIsCode
    <3> HIDE DEF p
    <3>3. \A h \in 0..12 : h * p <= 65504
      BY <3>1, SMT
    <3>4. Half(Code(l)) * p <= 65504
      BY <3>2, <3>3
    <3> QED BY <3>4 DEF FiniteHalf, p
  <2> QED BY <2>2, <2>3
<1> QED BY <1>4, <1>5, <1>6

--------------------------------------------------------------------------------
(* The theorems.                                                           *)

(* The state of encode_group keeps its types: the byte never exceeds 254.  *)
THEOREM CodecTypeCorrect == CodecSpec => []CodecTypeOK
<1>1. CodecInv => CodecTypeOK
  BY DEF CodecInv
<1> QED BY <1>1, CodecInitInv, CodecStepInv, PTL DEF CodecSpec

(* Whatever the group, every stored code is the nearest one, ties to even, *)
(* clipped at six, with its value's sign and no negative zero (codec.h:52- *)
(* 69 and :107-121).                                                       *)
THEOREM CodesAreNearest == CodecSpec => []Rounded
<1>1. CodecInv => Rounded
  BY DEF CodecInv
<1> QED BY <1>1, CodecInitInv, CodecStepInv, PTL DEF CodecSpec

(* Whatever finite floats a group has, its largest value is stored as 4 or *)
(* 6 unless the scale is the least one, and no value exceeds 9.5 times the *)
(* scale (codec.h:88-105).                                                 *)
THEOREM ScalesFit == CodecSpec => []ScaleFits
BY CodecInitInv, CodecStepInv, ScaleFitsHolds, PTL DEF CodecSpec

(* Whatever finite floats a group has, the bytes decode to finite floats;  *)
(* values of the GPU's domain pass its check of the scale byte, and what   *)
(* passes it is finite in half precision (codec.cpp:89-96, runtime_hip.hip:*)
(* 35-37 and :134-137).                                                    *)
THEOREM EncodedIsAccepted == CodecSpec => []DecodersAccept
BY CodecInitInv, CodecStepInv, DecodersAcceptHolds, PTL DEF CodecSpec
--------------------------------------------------------------------------------
(* The half conversions.                                                    *)

(* 2^(a + n) = 2^a 2^n, by the least exponent for which it would fail.     *)
LEMMA PowerSum == ASSUME NEW a \in Nat, NEW n \in Nat PROVE 2^(a + n) = 2^a * 2^n
<1> DEFINE Fails(j) == 2^(a + j) # 2^a * 2^j
           T == {j \in Nat : Fails(j)}
<1>1. SUFFICES ASSUME T # {} PROVE FALSE
  OBVIOUS
<1>2. PICK j \in T : \A y \in T : j <= y
  <2> HIDE DEF Fails
  <2>1. T \in SUBSET Nat OBVIOUS
  <2> HIDE DEF T
  <2> QED BY <1>1, <2>1, LeastNumber
<1>3. CASE j = 0
  <2>1. 2^0 = 1 /\ a + 0 = a OBVIOUS
  <2> QED BY <1>3, <2>1, PowerPositive
<1>4. CASE j # 0
  <2>1. PICK i \in Nat : j = i + 1
    <3>1. j - 1 \in Nat /\ j = (j - 1) + 1 BY <1>4
    <3> QED BY <3>1
  <2>2. 2^(a + i) = 2^a * 2^i
    <3>1. ~(j <= i) BY <2>1
    <3> QED BY <3>1, <1>2
  <2>3. 2^(i + 1) = 2 * 2^i /\ 2^((a + i) + 1) = 2 * 2^(a + i)
    <3>1. a + i \in Nat OBVIOUS
    <3> QED BY <3>1, PowerNext
  <2>4. a + j = (a + i) + 1 BY <2>1
  <2>5. 2^(a + j) = 2 * (2^a * 2^i) BY <2>2, <2>3, <2>4
  <2>6. 2^a \in Nat /\ 2^i \in Nat BY PowerPositive
  <2>7. 2^a * (2 * 2^i) = 2 * (2^a * 2^i) BY <2>6
  <2> QED BY <1>2, <2>1, <2>3, <2>5, <2>7
<1> QED BY <1>3, <1>4

(* Quotient and remainder.                                                 *)
LEMMA DivMod ==
  ASSUME NEW n \in Nat, NEW d \in Nat \ {0}
  PROVE  n \div d \in Nat /\ n % d \in 0..(d - 1) /\ n = (n \div d) * d + (n % d)
OBVIOUS

(* Quotient and remainder are unique.                                      *)
LEMMA Quotient ==
  ASSUME NEW d \in Nat \ {0}, NEW q \in Nat, NEW r \in 0..(d - 1)
  PROVE  (q * d + r) \div d = q /\ (q * d + r) % d = r
<1> DEFINE n == q * d + r
           p == n \div d
           s == n % d
<1>1. n \in Nat BY SMT
<1>2. p \in Nat /\ s \in 0..(d - 1) /\ n = p * d + s BY <1>1
<1>3. q * d + r = p * d + s BY <1>2
<1> HIDE DEF n, p, s
<1>4. ASSUME NEW x \in Nat, NEW y \in Nat, x < y PROVE x * d + d <= y * d /\ x * d \in Nat
  <2>1. PICK e \in Nat : y = x + 1 + e
    <3>1. y - x - 1 \in Nat /\ y = x + 1 + (y - x - 1) BY <1>4
    <3> QED BY <3>1
  <2>2. e * d \in Nat /\ x * d \in Nat /\ y * d = x * d + d + e * d
    BY <2>1
  <2> QED BY <2>2
<1>5. ~(p < q)
  <2>1. SUFFICES ASSUME p < q PROVE FALSE OBVIOUS
  <2>2. p * d + d <= q * d /\ p * d \in Nat BY <1>2, <1>4, <2>1
  <2>3. q * d \in Nat OBVIOUS
  <2> QED BY <1>2, <1>3, <2>2, <2>3
<1>6. ~(q < p)
  <2>1. SUFFICES ASSUME q < p PROVE FALSE OBVIOUS
  <2>2. q * d + d <= p * d /\ q * d \in Nat BY <1>2, <1>4, <2>1
  <2>3. p * d \in Nat BY <1>2
  <2> QED BY <1>2, <1>3, <2>2, <2>3
<1>7. p = q BY <1>2, <1>5, <1>6
<1>8. q * d \in Nat /\ s = r BY <1>2, <1>3, <1>7
<1> QED BY <1>7, <1>8 DEF p, s, n
--------------------------------------------------------------------------------
Delta == Bias - HalfBias
Dropped == Bits - HalfBits
Codes == 2^HalfBits
Unit == 2^(Delta + Dropped)

LEMMA Fields ==
  /\ {Bits, HalfBits, Top, HalfTop, Bias, HalfBias} \subseteq Nat \ {0}
  /\ Dropped \in Nat \ {0} /\ Delta \in Nat /\ Delta > HalfBits /\ Bits = HalfBits + Dropped
  /\ Codes \in Nat \ {0} /\ Codes % 2 = 0 /\ Unit \in Nat \ {0} /\ Infinity = HalfTop * Codes
  /\ HalfTop + Delta < Top /\ Infinity \in Nat
  /\ 2^Bits = Codes * 2^Dropped
<1>1. /\ {Bits, HalfBits, Top, HalfTop, Bias, HalfBias} \subseteq Nat \ {0}
      /\ HalfBits < Bits /\ Bias - HalfBias > HalfBits /\ HalfTop + Bias - HalfBias < Top
  BY FieldAssumption
<1>2. /\ Dropped \in Nat \ {0} /\ Delta \in Nat /\ Delta > HalfBits /\ Bits = HalfBits + Dropped
      /\ HalfTop + Delta < Top
  BY <1>1 DEF Dropped, Delta
<1>3. Codes \in Nat \ {0}
  BY <1>1, PowerPositive DEF Codes
<1>4. Codes % 2 = 0
  <2>1. PICK j \in Nat : HalfBits = j + 1
    <3>1. HalfBits - 1 \in Nat /\ HalfBits = (HalfBits - 1) + 1 BY <1>1
    <3> QED BY <3>1
  <2>2. Codes = 2 * 2^j /\ 2^j \in Nat BY <2>1, PowerNext, PowerPositive DEF Codes
  <2>3. \A x \in Nat : (2 * x) % 2 = 0 OBVIOUS
  <2> QED BY <2>2, <2>3
<1>5. Unit \in Nat \ {0}
  <2>1. Delta + Dropped \in Nat BY <1>2
  <2> QED BY <2>1, PowerPositive DEF Unit
<1>6. Infinity = HalfTop * Codes
  BY DEF Infinity, Codes
<1>7. Infinity \in Nat
  BY <1>1, <1>3, <1>6
<1>8. 2^Bits = Codes * 2^Dropped
  BY <1>1, <1>2, PowerSum DEF Codes
<1> QED BY <1>1, <1>2, <1>3, <1>4, <1>5, <1>6, <1>7, <1>8

(* The value of a half by its fields.                                      *)
LEMMA SubnormalValue ==
  ASSUME NEW m \in 0..(Codes - 1)
  PROVE  HalfValue(m) = m * Unit /\ m \div Codes = 0 /\ m % Codes = m
<1>1. m \div Codes = 0 /\ m % Codes = m
  <2>1. 0 * Codes + m = m BY Fields
  <2>2. 0 \in Nat /\ Codes \in Nat \ {0} BY Fields
  <2> QED BY <2>1, <2>2, Quotient
<1> QED BY <1>1 DEF HalfValue, Codes, Unit, Delta, Dropped

LEMMA NormalValue ==
  ASSUME NEW e \in Nat, NEW m \in 0..(Codes - 1)
  PROVE  HalfValue((e + 1) * Codes + m) = (Codes + m) * 2^e * Unit
<1> DEFINE h == (e + 1) * Codes + m
<1>1. h \div Codes = e + 1 /\ h % Codes = m
  <2>1. e + 1 \in Nat /\ Codes \in Nat \ {0} BY Fields
  <2> QED BY <2>1, Quotient
<1>2. e + 1 # 0 /\ (e + 1) - 1 = e OBVIOUS
<1> HIDE DEF h
<1>3. h \div 2^HalfBits = e + 1 /\ h % 2^HalfBits = m
  BY <1>1 DEF Codes
<1>4. HalfValue(h) = (2^HalfBits + m) * 2^((e + 1) - 1) * 2^(Bias - HalfBias + Bits - HalfBits)
  BY <1>2, <1>3 DEF HalfValue
<1>5. Bias - HalfBias + Bits - HalfBits = Delta + Dropped
  BY Fields DEF Delta, Dropped
<1> QED BY <1>2, <1>4, <1>5 DEF h, Codes, Unit

(* Every half is zero or subnormal, or has the fields of a normal one.     *)
LEMMA HalfFields ==
  ASSUME NEW h \in Nat
  PROVE  \/ h \in 0..(Codes - 1)
         \/ \E e \in Nat : \E m \in 0..(Codes - 1) : h = (e + 1) * Codes + m
<1> DEFINE q == h \div Codes
           m == h % Codes
<1>0. Codes \in Nat \ {0} BY Fields
<1>1. q \in Nat /\ m \in 0..(Codes - 1) /\ h = q * Codes + m
  BY <1>0
<1> HIDE DEF q, m
<1>2. CASE q = 0
  <2>1. 0 * Codes = 0 BY <1>0
  <2> QED BY <1>0, <1>1, <1>2, <2>1
<1>3. CASE q # 0
  <2>1. q - 1 \in Nat /\ h = ((q - 1) + 1) * Codes + m BY <1>1, <1>3
  <2> QED BY <1>1, <2>1
<1> QED BY <1>2, <1>3

(* The distance to the next half.                                          *)
LEMMA NextHalf ==
  /\ \A h \in 0..(Codes - 1) :
       HalfValue(h) = h * Unit /\ HalfValue(h + 1) = HalfValue(h) + Unit
  /\ \A e \in Nat : \A m \in 0..(Codes - 1) :
       LET h == (e + 1) * Codes + m IN
       HalfValue(h) = (Codes + m) * 2^e * Unit /\ HalfValue(h + 1) = HalfValue(h) + 2^e * Unit
<1>0. Codes \in Nat \ {0} /\ Unit \in Nat \ {0} /\ 0 \in 0..(Codes - 1)
  BY Fields
<1>1. ASSUME NEW h \in 0..(Codes - 1)
      PROVE  HalfValue(h) = h * Unit /\ HalfValue(h + 1) = HalfValue(h) + Unit
  <2>1. HalfValue(h) = h * Unit BY SubnormalValue
  <2>2. CASE h + 1 < Codes
    <3>1. h + 1 \in 0..(Codes - 1) BY <1>0, <2>2
    <3>2. HalfValue(h + 1) = (h + 1) * Unit BY <3>1, SubnormalValue
    <3>3. (h + 1) * Unit = h * Unit + Unit BY <1>0
    <3> QED BY <2>1, <3>2, <3>3
  <2>3. CASE ~(h + 1 < Codes)
    <3>1. h + 1 = Codes /\ (0 + 1) * Codes + 0 = Codes BY <1>0, <2>3
    <3>2. HalfValue((0 + 1) * Codes + 0) = (Codes + 0) * 2^0 * Unit BY <1>0, NormalValue
    <3>3. 2^0 = 1 OBVIOUS
    <3>4. (Codes + 0) * 1 * Unit = h * Unit + Unit
      <4>1. (h + 1) * Unit = h * Unit + Unit BY <1>0
      <4> QED BY <3>1, <4>1, <1>0
    <3> QED BY <2>1, <3>1, <3>2, <3>3, <3>4
  <2> QED BY <2>1, <2>2, <2>3
<1>2. ASSUME NEW e \in Nat, NEW m \in 0..(Codes - 1), NEW h, h = (e + 1) * Codes + m
      PROVE  /\ HalfValue(h) = (Codes + m) * 2^e * Unit
             /\ HalfValue(h + 1) = HalfValue(h) + 2^e * Unit
  <2>0. 2^e \in Nat BY PowerPositive
  <2>1. HalfValue(h) = (Codes + m) * 2^e * Unit BY <1>2, NormalValue
  <2>2. CASE m + 1 < Codes
    <3>1. m + 1 \in 0..(Codes - 1) /\ h + 1 = (e + 1) * Codes + (m + 1) BY <1>0, <1>2, <2>2
    <3>2. HalfValue(h + 1) = (Codes + (m + 1)) * 2^e * Unit BY <3>1, NormalValue
    <3>3. (Codes + (m + 1)) * 2^e * Unit = (Codes + m) * 2^e * Unit + 2^e * Unit BY <1>0, <2>0
    <3> QED BY <2>1, <3>2, <3>3
  <2>3. CASE ~(m + 1 < Codes)
    <3>1. m + 1 = Codes BY <1>0, <2>3
    <3>2. e + 1 \in Nat /\ h + 1 = ((e + 1) + 1) * Codes + 0 BY <1>0, <1>2, <3>1
    <3>3. HalfValue(h + 1) = (Codes + 0) * 2^(e + 1) * Unit BY <1>0, <3>2, NormalValue
    <3>4. 2^(e + 1) = 2 * 2^e BY PowerNext
    <3>5. (Codes + 0) * (2 * 2^e) * Unit = (Codes + m) * 2^e * Unit + 2^e * Unit
      <4> DEFINE p == 2^e
      <4>1. p \in Nat BY <2>0
      <4> HIDE DEF p
      <4>2. (Codes + 0) * (2 * p) * Unit = (Codes + Codes) * p * Unit BY <4>1, <1>0
      <4>3. (Codes + (m + 1)) * p * Unit = (Codes + m) * p * Unit + p * Unit BY <4>1, <1>0
      <4> QED BY <3>1, <4>2, <4>3 DEF p
    <3> QED BY <2>1, <3>3, <3>4, <3>5
  <2> QED BY <2>1, <2>2, <2>3
<1> QED BY <1>1, <1>2

(* Larger halves have larger values.                                       *)
LEMMA ValuesGrow ==
  ASSUME NEW h \in Nat
  PROVE  HalfValue(h) \in Nat /\ HalfValue(h + 1) \in Nat /\ HalfValue(h) < HalfValue(h + 1)
<1>0. Codes \in Nat \ {0} /\ Unit \in Nat \ {0}
  BY Fields
<1>1. CASE h \in 0..(Codes - 1)
  <2>1. HalfValue(h) = h * Unit /\ HalfValue(h + 1) = HalfValue(h) + Unit BY <1>1, NextHalf
  <2>2. h * Unit \in Nat BY <1>0
  <2> QED BY <1>0, <2>1, <2>2
<1>2. CASE \E e \in Nat : \E m \in 0..(Codes - 1) : h = (e + 1) * Codes + m
  <2>1. PICK e \in Nat, m \in 0..(Codes - 1) : h = (e + 1) * Codes + m BY <1>2
  <2> DEFINE p == 2^e
  <2>2. HalfValue(h) = (Codes + m) * p * Unit /\ HalfValue(h + 1) = HalfValue(h) + p * Unit
    BY <2>1, NextHalf
  <2>3. p \in Nat \ {0} BY PowerPositive
  <2> HIDE DEF p
  <2>4. (Codes + m) * p \in Nat BY <1>0, <2>3
  <2>5. (Codes + m) * p * Unit \in Nat /\ p * Unit \in Nat \ {0} BY <1>0, <2>3, <2>4
  <2> QED BY <2>2, <2>5
<1> QED BY <1>1, <1>2, HalfFields

LEMMA ValuesOrdered ==
  ASSUME NEW h \in Nat, NEW r \in Nat, h <= r
  PROVE  HalfValue(h) <= HalfValue(r)
<1> DEFINE Fails(n) == ~(HalfValue(h) <= HalfValue(h + n))
           T == {n \in Nat : Fails(n)}
<1>1. T = {}
  <2>1. SUFFICES ASSUME T # {} PROVE FALSE
    OBVIOUS
  <2>2. PICK n \in T : \A y \in T : n <= y
    <3> HIDE DEF Fails
    <3>1. T \in SUBSET Nat OBVIOUS
    <3> HIDE DEF T
    <3> QED BY <2>1, <3>1, LeastNumber
  <2>3. CASE n = 0
    <3>1. h + 0 = h OBVIOUS
    <3> QED BY <2>2, <2>3, <3>1, ValuesGrow
  <2>4. CASE n # 0
    <3>1. PICK i \in Nat : n = i + 1
      <4>1. n - 1 \in Nat /\ n = (n - 1) + 1 BY <2>4
      <4> QED BY <4>1
    <3>2. HalfValue(h) <= HalfValue(h + i)
      <4>1. ~(n <= i) BY <3>1
      <4> QED BY <4>1, <2>2
    <3>3. h + i \in Nat /\ h + n = (h + i) + 1 BY <3>1
    <3>4. HalfValue(h + i) < HalfValue(h + n) /\ HalfValue(h + i) \in Nat /\ HalfValue(h + n) \in Nat
      BY <3>3, ValuesGrow
    <3> QED BY <2>2, <3>2, <3>4, ValuesGrow
  <2> QED BY <2>3, <2>4
<1>2. r - h \in Nat /\ h + (r - h) = r
  OBVIOUS
<1> HIDE DEF Fails
<1>3. ~Fails(r - h)
  BY <1>1, <1>2
<1> QED BY <1>2, <1>3 DEF Fails

LEMMA StrictlyOrdered ==
  ASSUME NEW h \in Nat, NEW r \in Nat, h < r
  PROVE  HalfValue(h) \in Nat /\ HalfValue(r) \in Nat /\ HalfValue(h) < HalfValue(r)
<1>1. h + 1 \in Nat /\ h + 1 <= r
  OBVIOUS
<1>2. HalfValue(h + 1) <= HalfValue(r)
  BY <1>1, ValuesOrdered
<1> QED BY <1>2, ValuesGrow

(* Of two neighbours that enclose a value, the one that round to nearest   *)
(* even takes is the nearest of all halves.                                *)
LEMMA NearestNeighbour ==
  ASSUME NEW r \in Nat, r < Infinity,
         NEW w \in Nat \ {0}, NEW mid \in Nat \ {0}, NEW rem \in 0..(2 * mid - 1),
         HalfValue(r + 1) = HalfValue(r) + 2 * mid * w,
         FloatValue(float) = HalfValue(r) + rem * w,
         half = r + IF RoundsUp(r, rem, mid) THEN 1 ELSE 0
  PROVE  /\ half \in 0..Infinity
         /\ FloatValue(float) < HalfValue(Infinity)
         /\ \A h \in 0..Infinity :
              Off(half) < Off(h) \/ (Off(half) = Off(h) /\ (half % 2 = 0 \/ h = half))
<1> DEFINE v == HalfValue(r)
           a == rem * w
           t == mid * w
           x == FloatValue(float)
<1>1. v \in Nat /\ a \in Nat /\ t \in Nat \ {0} /\ a < 2 * t
      /\ (rem > mid <=> a > t) /\ (rem = mid <=> a = t)
  <2>1. v \in Nat BY ValuesGrow
  <2>2. a \in Nat /\ t \in Nat \ {0} /\ 2 * mid \in Nat /\ rem \in Nat /\ 2 * t = 2 * mid * w
    BY SMT
  <2>3. ASSUME NEW i \in Nat, NEW j \in Nat, i < j PROVE i * w < j * w
    <3>1. PICK e \in Nat : j = i + 1 + e
      <4>1. j - i - 1 \in Nat /\ j = i + 1 + (j - i - 1) BY <2>3
      <4> QED BY <4>1
    <3>2. j * w = i * w + w + e * w /\ e * w \in Nat /\ i * w \in Nat BY <3>1
    <3> QED BY <3>2
  <2>4. a < 2 * t
    <3>1. rem < 2 * mid BY <2>2
    <3> QED BY <2>2, <2>3, <3>1
  <2>5. rem < mid => a < t BY <2>2, <2>3
  <2>6. mid < rem => t < a BY <2>2, <2>3
  <2>7. rem = mid => a = t OBVIOUS
  <2> HIDE DEF a, t, v
  <2> QED BY <2>1, <2>2, <2>4, <2>5, <2>6, <2>7
<1>2. HalfValue(r + 1) = v + 2 * t /\ x = v + a
  <2>1. 2 * mid * w = 2 * t BY SMT
  <2> QED BY <2>1
<1>3. half = r + IF a > t \/ (a = t /\ r % 2 # 0) THEN 1 ELSE 0
  BY <1>1 DEF RoundsUp
<1>4. half \in {r, r + 1} /\ half \in 0..Infinity /\ r + 1 <= Infinity /\ Infinity \in Nat
  BY <1>3, Fields
<1> HIDE DEF v, a, t, x
<1>5. x < HalfValue(Infinity)
  <2>1. HalfValue(r + 1) <= HalfValue(Infinity) /\ HalfValue(Infinity) \in Nat
    <3>1. r + 1 \in Nat OBVIOUS
    <3> QED BY <1>4, <3>1, ValuesOrdered, ValuesGrow
  <2> QED BY <1>1, <1>2, <2>1
<1>6. \A h : Off(h) = Magnitude(HalfValue(h) - (v + a))
  BY <1>2 DEF Off, x
<1>7. Off(r) = a /\ Off(r + 1) = 2 * t - a
  BY <1>1, <1>2, <1>6 DEF Magnitude, v
<1>8. ASSUME NEW h \in 0..Infinity
      PROVE  Off(half) < Off(h) \/ (Off(half) = Off(h) /\ (half % 2 = 0 \/ h = half))
  <2>1. h \in Nat BY <1>4
  <2>2. CASE h < r
    <3>1. HalfValue(h) \in Nat /\ HalfValue(h) < v BY <2>1, <2>2, StrictlyOrdered DEF v
    <3>2. Off(h) = v + a - HalfValue(h) BY <1>1, <1>6, <3>1 DEF Magnitude
    <3>3. Off(half) <= a /\ Off(half) \in Int BY <1>1, <1>3, <1>7
    <3> QED BY <1>1, <3>1, <3>2, <3>3
  <2>3. CASE h > r + 1
    <3>1. HalfValue(h) \in Nat /\ HalfValue(h) > v + 2 * t
      BY <2>1, <2>3, <1>2, StrictlyOrdered
    <3>2. Off(h) = HalfValue(h) - (v + a) BY <1>1, <1>6, <3>1 DEF Magnitude
    <3>3. Off(half) <= 2 * t - a /\ Off(half) \in Int BY <1>1, <1>3, <1>7
    <3> QED BY <1>1, <3>1, <3>2, <3>3
  <2>4. CASE h \in {r, r + 1}
    <3>1. CASE a < t
      BY <1>1, <1>3, <1>7, <2>4, <3>1
    <3>2. CASE a > t
      BY <1>1, <1>3, <1>7, <2>4, <3>2
    <3>3. CASE a = t
      <4>1. half % 2 = 0
        <5>1. CASE r % 2 = 0
          <6>1. half = r BY <1>1, <1>3, <3>3, <5>1
          <6> QED BY <5>1, <6>1
        <5>2. CASE r % 2 # 0
          <6>1. half = r + 1 BY <1>3, <3>3, <5>2
          <6>2. (r + 1) % 2 = 0 BY <5>2
          <6> QED BY <6>1, <6>2
        <5> QED BY <5>1, <5>2
      <4>2. Off(half) = Off(h)
        BY <1>1, <1>4, <1>7, <2>4, <3>3
      <4> QED BY <4>1, <4>2
    <3> QED BY <1>1, <3>1, <3>2, <3>3
  <2> QED BY <2>1, <2>2, <2>3, <2>4
<1> QED BY <1>4, <1>5, <1>8 DEF x

--------------------------------------------------------------------------------
(* Narrowing, by the range of the exponent.                                *)

Nearest ==
  /\ half \in 0..Infinity
  /\ FloatValue(float) < HalfValue(Infinity) =>
       \A h \in 0..Infinity :
         Off(half) < Off(h) \/ (Off(half) = Off(h) /\ (half % 2 = 0 \/ h = half))
  /\ FloatValue(float) >= HalfValue(Infinity) => half = Infinity

LEMMA ShiftedBits ==
  ASSUME NEW m \in Nat, NEW shift \in Nat \ {0}
  PROVE  /\ 2^(shift - 1) \in Nat \ {0} /\ 2^shift = 2 * 2^(shift - 1)
         /\ m \div 2^shift \in Nat /\ m % 2^shift \in 0..(2 * 2^(shift - 1) - 1)
         /\ m = (m \div 2^shift) * 2^shift + (m % 2^shift)
<1>1. PICK i \in Nat : shift = i + 1
  <2>1. shift - 1 \in Nat /\ shift = (shift - 1) + 1 OBVIOUS
  <2> QED BY <2>1
<1>2. shift - 1 = i /\ 2^shift = 2 * 2^i /\ 2^i \in Nat \ {0}
  BY <1>1, PowerNext, PowerPositive
<1> DEFINE p == 2^shift
<1>3. p \in Nat \ {0} /\ p = 2 * 2^i BY <1>2
<1> HIDE DEF p
<1>4. m \div p \in Nat /\ m % p \in 0..(p - 1) /\ m = (m \div p) * p + (m % p)
  BY <1>3, DivMod, Zenon
<1> QED BY <1>2, <1>3, <1>4 DEF p

LEMMA NormalIsNearest ==
  ASSUME NEW i \in Nat, i + 1 < HalfTop,
         float.exponent = i + 1 + Delta, float.mantissa \in 0..(2^Bits - 1),
         half = Normal(float.mantissa, i + 1)
  PROVE  Nearest
<1> DEFINE m == float.mantissa
           p == 2^Dropped
           q == m \div p
           rem == m % p
           mid == 2^(Dropped - 1)
           r == (i + 1) * Codes + q
           w == 2^(i + Delta)
<1>1. /\ Codes \in Nat \ {0} /\ Codes % 2 = 0 /\ Unit \in Nat \ {0} /\ Infinity = HalfTop * Codes
      /\ HalfTop \in Nat \ {0} /\ Delta \in Nat /\ Dropped \in Nat \ {0}
      /\ 2^Bits = Codes * p /\ HalfBits \in Nat /\ Infinity \in Nat
  BY Fields
<1>2. m \in Nat /\ m < Codes * p
  <2>1. Codes * p \in Nat BY <1>1, PowerPositive
  <2> QED BY <1>1, <2>1
<1>3. /\ mid \in Nat \ {0} /\ p = 2 * mid /\ q \in Nat /\ rem \in 0..(2 * mid - 1)
      /\ m = q * p + rem
  BY <1>1, <1>2, ShiftedBits
<1>4. i + Delta \in Nat /\ w \in Nat \ {0}
  BY <1>1, PowerPositive
<1>5. 2^i * Unit = p * w
  <2>1. Unit = 2^Delta * p /\ w = 2^i * 2^Delta BY <1>1, PowerSum DEF Unit
  <2>2. \A x, y, z \in Nat : x * (y * z) = z * (x * y) OBVIOUS
  <2>3. 2^i \in Nat /\ 2^Delta \in Nat /\ p \in Nat BY <1>1, PowerPositive
  <2> HIDE DEF p, w
  <2> QED BY <2>1, <2>2, <2>3
<1>6. FloatValue(float) = (2^Bits + m) * w
  <2>1. float.exponent # 0 /\ float.exponent - 1 = i + Delta BY <1>1
  <2> QED BY <2>1 DEF FloatValue
<1>7. half = IF q + (IF RoundsUp(q, rem, mid) THEN 1 ELSE 0) = Codes /\ (i + 1) + 1 >= HalfTop THEN Infinity
             ELSE IF q + (IF RoundsUp(q, rem, mid) THEN 1 ELSE 0) = Codes THEN ((i + 1) + 1) * Codes
             ELSE (i + 1) * Codes + (q + IF RoundsUp(q, rem, mid) THEN 1 ELSE 0)
  BY DEF Normal, Shifted, Codes, Dropped
<1> HIDE DEF m, p, q, rem, mid, w
<1>8. q < Codes
  <2>1. SUFFICES ASSUME Codes <= q PROVE FALSE BY <1>1, <1>3
  <2>2. PICK e \in Nat : q = Codes + e
    <3>1. q - Codes \in Nat /\ q = Codes + (q - Codes) BY <1>1, <1>3, <2>1
    <3> QED BY <3>1
  <2>3. p \in Nat /\ q * p = Codes * p + e * p /\ e * p \in Nat /\ Codes * p \in Nat BY <1>1, <1>3, <2>2
  <2> QED BY <1>2, <1>3, <2>3
<1>9. r \in Nat /\ r % 2 = q % 2
  <2>1. PICK c \in Nat : Codes = 2 * c
    <3>1. Codes \div 2 \in Nat /\ Codes = 2 * (Codes \div 2) BY <1>1
    <3> QED BY <3>1
  <2>2. (i + 1) * Codes = 2 * ((i + 1) * c) /\ (i + 1) * c \in Nat BY <2>1
  <2>3. \A x \in Nat : (2 * x + q) % 2 = q % 2 BY <1>3
  <2> QED BY <1>3, <2>2, <2>3
<1>10. r + 1 <= Infinity
  <2>1. PICK e \in Nat : HalfTop = i + 2 + e
    <3>1. HalfTop - i - 2 \in Nat /\ HalfTop = i + 2 + (HalfTop - i - 2) BY <1>1
    <3> QED BY <3>1
  <2>2. HalfTop * Codes = (i + 1) * Codes + Codes + e * Codes /\ e * Codes \in Nat /\ (i + 1) * Codes \in Nat
    BY <1>1, <2>1
  <2> QED BY <1>1, <1>3, <1>8, <2>2
<1>11. half = r + IF RoundsUp(r, rem, mid) THEN 1 ELSE 0
  <2>1. RoundsUp(r, rem, mid) <=> RoundsUp(q, rem, mid) BY <1>9 DEF RoundsUp
  <2>2. ((i + 1) + 1) * Codes = (i + 1) * Codes + Codes BY <1>1
  <2>3. (i + 1) + 1 >= HalfTop => HalfTop = (i + 1) + 1 BY <1>1
  <2> QED BY <1>1, <1>3, <1>7, <1>8, <2>1, <2>2, <2>3
<1>12. HalfValue(r) = (Codes + q) * 2^i * Unit /\ HalfValue(r + 1) = HalfValue(r) + 2^i * Unit
  <2>1. q \in 0..(Codes - 1) BY <1>1, <1>3, <1>8
  <2> QED BY <2>1, NextHalf
<1>13. HalfValue(r) = (Codes + q) * (p * w)
  <2>1. 2^i \in Nat BY PowerPositive
  <2>2. (Codes + q) * 2^i * Unit = (Codes + q) * (2^i * Unit) BY <1>1, <1>3, <2>1
  <2> QED BY <1>5, <1>12, <2>2
<1>14. HalfValue(r + 1) = HalfValue(r) + 2 * mid * w
  BY <1>3, <1>5, <1>12
<1>15. FloatValue(float) = HalfValue(r) + rem * w
  <2>1. FloatValue(float) = (Codes * p + (q * p + rem)) * w BY <1>1, <1>3, <1>6
  <2>2. rem \in Nat /\ p \in Nat BY <1>3
  <2>3. (Codes * p + (q * p + rem)) * w = (Codes + q) * (p * w) + rem * w
    BY <1>1, <1>3, <1>4, <2>2
  <2> QED BY <1>13, <2>1, <2>3
<1> HIDE DEF r
<1>16. r < Infinity BY <1>1, <1>9, <1>10
<1>17. /\ half \in 0..Infinity
       /\ FloatValue(float) < HalfValue(Infinity)
       /\ \A h \in 0..Infinity :
              Off(half) < Off(h) \/ (Off(half) = Off(h) /\ (half % 2 = 0 \/ h = half))
  BY <1>3, <1>4, <1>9, <1>11, <1>14, <1>15, <1>16, NearestNeighbour
<1>18. ~(FloatValue(float) >= HalfValue(Infinity))
  <2>1. HalfValue(r) \in Nat /\ HalfValue(Infinity) \in Nat /\ rem * w \in Nat
    BY <1>1, <1>3, <1>4, <1>9, ValuesGrow
  <2> QED BY <1>15, <1>17, <2>1
<1> QED BY <1>17, <1>18 DEF Nearest

LEMMA SubnormalIsNearest ==
  ASSUME NEW j \in 0..HalfBits,
         float.exponent = Delta - j, float.mantissa \in 0..(2^Bits - 1),
         half = Subnormal(float.mantissa, -j)
  PROVE  Nearest
<1> DEFINE m == float.mantissa + 2^Bits
           shift == Dropped + 1 + j
           p == 2^shift
           q == m \div p
           rem == m % p
           mid == 2^(shift - 1)
           w == 2^(Delta - j - 1)
<1>1. /\ Codes \in Nat \ {0} /\ Unit \in Nat \ {0} /\ Infinity = HalfTop * Codes
      /\ HalfTop \in Nat \ {0} /\ Delta \in Nat /\ Delta > HalfBits /\ Dropped \in Nat \ {0}
      /\ 2^Bits = Codes * 2^Dropped /\ HalfBits \in Nat /\ Infinity \in Nat /\ Bits = HalfBits + Dropped
  BY Fields
<1>2. j \in Nat /\ shift \in Nat \ {0} /\ Delta - j - 1 \in Nat /\ 2^Bits \in Nat
      /\ float.mantissa \in Nat
  <2>1. 2^Bits \in Nat BY <1>1, PowerPositive
  <2> QED BY <1>1, <2>1
<1>3. m \in Nat /\ m < 2 * (Codes * 2^Dropped)
  <2> DEFINE z == 2^Bits
  <2>1. z \in Nat /\ float.mantissa \in 0..(z - 1) /\ m = float.mantissa + z /\ z = Codes * 2^Dropped
    BY <1>1, <1>2
  <2> HIDE DEF z, m
  <2>2. m \in Nat /\ m < 2 * z BY <2>1
  <2> QED BY <2>1, <2>2
<1>4. /\ mid \in Nat \ {0} /\ p = 2 * mid /\ q \in Nat /\ rem \in 0..(2 * mid - 1)
      /\ m = q * p + rem
  BY <1>2, <1>3, ShiftedBits
<1>5. w \in Nat \ {0}
  BY <1>2, PowerPositive
<1>6. Unit = p * w
  <2>1. shift + (Delta - j - 1) = Delta + Dropped BY <1>1, <1>2
  <2>2. 2^(shift + (Delta - j - 1)) = p * w BY <1>2, PowerSum
  <2> QED BY <2>1, <2>2 DEF Unit
<1>7. FloatValue(float) = m * w
  <2>1. float.exponent # 0 /\ float.exponent - 1 = Delta - j - 1 BY <1>1, <1>2
  <2>2. float.mantissa + 2^Bits = 2^Bits + float.mantissa BY <1>2
  <2> QED BY <2>1, <2>2 DEF FloatValue
<1>8. half = q + IF RoundsUp(q, rem, mid) THEN 1 ELSE 0
  <2>1. ~(-j < -HalfBits) BY <1>1
  <2>2. Bits - HalfBits + 1 - (-j) = shift BY <1>1, <1>2 DEF Dropped
  <2> QED BY <2>1, <2>2 DEF Subnormal, Shifted
<1>9. 2 * 2^Dropped <= p
  <2>1. Dropped + 1 \in Nat /\ Dropped + 1 <= shift BY <1>1, <1>2
  <2>2. 2^(Dropped + 1) <= p BY <1>2, <2>1, PowerMonotone
  <2>3. 2^(Dropped + 1) = 2 * 2^Dropped BY <1>1, PowerNext
  <2> QED BY <2>2, <2>3
<1>10. 2^Dropped \in Nat \ {0} BY <1>1, PowerPositive
<1> HIDE DEF m, p, q, rem, mid, w, shift
<1>11. q < Codes
  <2>1. SUFFICES ASSUME Codes <= q PROVE FALSE BY <1>1, <1>4
  <2>2. PICK e \in Nat : q = Codes + e
    <3>1. q - Codes \in Nat /\ q = Codes + (q - Codes) BY <1>1, <1>4, <2>1
    <3> QED BY <3>1
  <2>3. p \in Nat /\ q * p = Codes * p + e * p /\ e * p \in Nat /\ Codes * p \in Nat BY <1>1, <1>4, <2>2
  <2> DEFINE x == 2^Dropped
  <2>4. x \in Nat /\ 2 * x <= p /\ m < 2 * (Codes * x) BY <1>3, <1>9, <1>10
  <2> HIDE DEF x
  <2>5. PICK y \in Nat : p = 2 * x + y
    <3>1. p - 2 * x \in Nat /\ p = 2 * x + (p - 2 * x) BY <2>3, <2>4
    <3> QED BY <3>1
  <2>6. Codes * p = 2 * (Codes * x) + Codes * y /\ Codes * y \in Nat /\ Codes * x \in Nat
    BY <1>1, <2>4, <2>5
  <2> QED BY <1>3, <1>4, <2>3, <2>4, <2>6
<1>12. q < Infinity
  <2>1. PICK e \in Nat : HalfTop = 1 + e
    <3>1. HalfTop - 1 \in Nat /\ HalfTop = 1 + (HalfTop - 1) BY <1>1
    <3> QED BY <3>1
  <2>2. HalfTop * Codes = Codes + e * Codes /\ e * Codes \in Nat BY <1>1, <2>1
  <2> QED BY <1>1, <1>4, <1>11, <2>2
<1>13. HalfValue(q) = q * Unit /\ HalfValue(q + 1) = HalfValue(q) + Unit
  <2>1. q \in 0..(Codes - 1) BY <1>1, <1>4, <1>11
  <2> QED BY <2>1, NextHalf
<1>14. HalfValue(q + 1) = HalfValue(q) + 2 * mid * w
  BY <1>4, <1>6, <1>13
<1>15. FloatValue(float) = HalfValue(q) + rem * w
  <2>1. rem \in Nat /\ p \in Nat BY <1>4
  <2>2. (q * p + rem) * w = q * (p * w) + rem * w BY <1>4, <1>5, <2>1
  <2> QED BY <1>4, <1>6, <1>7, <1>13, <2>2
<1>17. /\ half \in 0..Infinity
       /\ FloatValue(float) < HalfValue(Infinity)
       /\ \A h \in 0..Infinity :
              Off(half) < Off(h) \/ (Off(half) = Off(h) /\ (half % 2 = 0 \/ h = half))
  BY <1>4, <1>5, <1>8, <1>12, <1>14, <1>15, NearestNeighbour
<1>18. ~(FloatValue(float) >= HalfValue(Infinity))
  <2>1. HalfValue(q) \in Nat /\ HalfValue(Infinity) \in Nat /\ rem * w \in Nat
    BY <1>1, <1>4, <1>5, ValuesGrow
  <2> QED BY <1>15, <1>17, <2>1
<1> QED BY <1>17, <1>18 DEF Nearest

(* Below half of the least half.                                           *)
LEMMA TinyIsZero ==
  ASSUME float.exponent \in Nat, float.exponent + HalfBits < Delta,
         float.mantissa \in 0..(2^Bits - 1), half = 0
  PROVE  Nearest
<1> DEFINE x == FloatValue(float)
           m == float.mantissa
           mid == 2^(Delta + Dropped - 1)
<1>1. /\ Codes \in Nat \ {0} /\ Unit \in Nat \ {0} /\ Infinity = HalfTop * Codes
      /\ HalfTop \in Nat \ {0} /\ Delta \in Nat /\ Delta > HalfBits /\ Dropped \in Nat \ {0}
      /\ HalfBits \in Nat /\ Infinity \in Nat /\ Bits = HalfBits + Dropped
  BY Fields
<1>2. Delta + Dropped - 1 \in Nat /\ Bits \in Nat /\ Bits <= Delta + Dropped - 1
  BY <1>1
<1>3. mid \in Nat \ {0} /\ Unit = 2 * mid
  <2>1. mid \in Nat \ {0} BY <1>2, PowerPositive
  <2>2. 2^((Delta + Dropped - 1) + 1) = 2 * mid BY <1>2, PowerNext
  <2>3. (Delta + Dropped - 1) + 1 = Delta + Dropped BY <1>1
  <2> QED BY <2>1, <2>2, <2>3 DEF Unit
<1>4. 2^Bits \in Nat /\ m \in Nat /\ m < 2^Bits
  <2>1. 2^Bits \in Nat BY <1>2, PowerPositive
  <2> QED BY <2>1
<1>5. x \in Nat /\ x < mid
  <2>1. CASE float.exponent = 0
    <3>1. x = m BY <2>1 DEF FloatValue
    <3>2. 2^Bits <= mid BY <1>2, PowerMonotone
    <3> HIDE DEF x, mid, m
    <3> QED BY <3>1, <3>2, <1>3, <1>4
  <2>2. CASE float.exponent # 0
    <3> DEFINE i == float.exponent - 1
               z == 2^Bits
               v == 2^i
    <3>1. i \in Nat /\ Bits + 1 + i <= Delta + Dropped - 1 /\ Bits + 1 \in Nat /\ Bits + 1 + i \in Nat
      BY <2>2, <1>1
    <3>2. x = (z + m) * v BY <2>2 DEF FloatValue
    <3>3. 2^(Bits + 1 + i) = 2^(Bits + 1) * v BY <3>1, PowerSum
    <3>4. 2^(Bits + 1) = 2 * z BY <1>2, PowerNext
    <3>5. 2^(Bits + 1 + i) <= mid BY <1>2, <3>1, PowerMonotone
    <3>6. v \in Nat \ {0} /\ z \in Nat /\ m < z BY <1>4, <3>1, PowerPositive
    <3>7. 2 * z * v <= mid BY <3>3, <3>4, <3>5
    <3> HIDE DEF x, mid, m, v, z, i
    <3>8. PICK e \in Nat : z = m + 1 + e
      <4>1. z - m - 1 \in Nat /\ z = m + 1 + (z - m - 1) BY <3>6, <1>4
      <4> QED BY <4>1
    <3>9. 2 * z * v = (z + m) * v + v + e * v /\ e * v \in Nat /\ (z + m) * v \in Nat
      <4>1. 2 * z * v = (z + (m + 1 + e)) * v BY <3>8, <3>6
      <4> QED BY <4>1, <3>6, <3>8, <1>4
    <3> QED BY <3>2, <3>6, <3>7, <3>9, <1>3
  <2> QED BY <2>1, <2>2
<1> HIDE DEF x, mid
<1>6. 0 < Infinity
  <2>1. PICK e \in Nat : HalfTop = 1 + e
    <3>1. HalfTop - 1 \in Nat /\ HalfTop = 1 + (HalfTop - 1) BY <1>1
    <3> QED BY <3>1
  <2>2. HalfTop * Codes = Codes + e * Codes /\ e * Codes \in Nat BY <1>1, <2>1
  <2> QED BY <1>1, <2>2
<1>7. HalfValue(0) = 0 /\ HalfValue(0 + 1) = HalfValue(0) + Unit
  <2>1. 0 \in 0..(Codes - 1) /\ 0 * Unit = 0 BY <1>1
  <2> QED BY <2>1, NextHalf
<1>8. HalfValue(0 + 1) = HalfValue(0) + 2 * mid * 1 /\ FloatValue(float) = HalfValue(0) + x * 1
  BY <1>3, <1>5, <1>7 DEF x
<1>9. half = 0 + IF RoundsUp(0, x, mid) THEN 1 ELSE 0
  BY <1>3, <1>5 DEF RoundsUp
<1>10. x \in 0..(2 * mid - 1) /\ 1 \in Nat \ {0} /\ 0 \in Nat
  BY <1>3, <1>5
<1>11. /\ half \in 0..Infinity
       /\ FloatValue(float) < HalfValue(Infinity)
       /\ \A h \in 0..Infinity :
              Off(half) < Off(h) \/ (Off(half) = Off(h) /\ (half % 2 = 0 \/ h = half))
  BY <1>3, <1>6, <1>8, <1>9, <1>10, NearestNeighbour
<1>12. ~(FloatValue(float) >= HalfValue(Infinity))
  <2>1. HalfValue(Infinity) \in Nat BY <1>1, ValuesGrow
  <2> QED BY <1>5, <1>11, <2>1 DEF x
<1> QED BY <1>11, <1>12 DEF Nearest

(* Beyond the largest exponent of a half.                                  *)
LEMMA HugeIsInfinity ==
  ASSUME float.exponent \in Nat, float.exponent >= HalfTop + Delta,
         float.mantissa \in 0..(2^Bits - 1), half = Infinity
  PROVE  Nearest
<1> DEFINE m == float.mantissa
           p == 2^Dropped
           i == HalfTop - 1
           e == float.exponent - 1
<1>1. /\ Codes \in Nat \ {0} /\ Unit \in Nat \ {0} /\ Infinity = HalfTop * Codes
      /\ HalfTop \in Nat \ {0} /\ Delta \in Nat /\ Dropped \in Nat \ {0}
      /\ Infinity \in Nat /\ 2^Bits = Codes * p /\ Bits \in Nat
  BY Fields
<1>2. i \in Nat /\ e \in Nat /\ i + Delta \in Nat /\ i + Delta <= e /\ float.exponent # 0
  BY <1>1
<1>3. HalfValue(Infinity) = Codes * 2^i * Unit
  <2>1. Infinity = (i + 1) * Codes + 0 BY <1>1
  <2>2. 0 \in 0..(Codes - 1) /\ Codes + 0 = Codes BY <1>1
  <2> QED BY <1>2, <2>1, <2>2, NormalValue
<1>4. FloatValue(float) = (2^Bits + m) * 2^e
  BY <1>2 DEF FloatValue
<1>5. 2^(i + Delta) = 2^i * 2^Delta /\ Unit = 2^Delta * p /\ 2^(i + Delta) <= 2^e
  BY <1>1, <1>2, PowerSum, PowerMonotone DEF Unit
<1>6. 2^i \in Nat /\ 2^Delta \in Nat /\ p \in Nat /\ 2^e \in Nat /\ m \in Nat /\ 2^(i + Delta) \in Nat
  <2>1. 2^Bits \in Nat BY <1>1, PowerPositive
  <2> QED BY <1>1, <1>2, <2>1, PowerPositive
<1> DEFINE a == 2^i
           b == 2^Delta
           c == 2^e
<1>7. a \in Nat /\ b \in Nat /\ c \in Nat /\ a * b <= c /\ HalfValue(Infinity) = Codes * a * (b * p)
      /\ FloatValue(float) = (Codes * p + m) * c
  BY <1>1, <1>3, <1>4, <1>5, <1>6
<1> HIDE DEF a, b, c, p, m
<1>8. Codes * a * (b * p) <= (Codes * p + m) * c
  <2>1. PICK y \in Nat : c = a * b + y
    <3>1. a * b \in Nat BY <1>7
    <3>2. c - a * b \in Nat /\ c = a * b + (c - a * b) BY <1>7, <3>1
    <3> QED BY <3>2
  <2> DEFINE d == Codes * p
             f == a * b
  <2>2. d \in Nat /\ f \in Nat /\ Codes * a * (b * p) = d * f BY <1>1, <1>6, <1>7
  <2>3. c = f + y BY <2>1
  <2> HIDE DEF d, f
  <2>4. (d + m) * c = d * f + d * y + m * c /\ d * y \in Nat /\ m * c \in Nat /\ d * f \in Nat
    BY <1>6, <1>7, <2>2, <2>3
  <2> QED BY <2>2, <2>4 DEF d
<1>9. FloatValue(float) >= HalfValue(Infinity) /\ FloatValue(float) \in Int /\ HalfValue(Infinity) \in Int
  <2>1. HalfValue(Infinity) \in Nat BY <1>1, ValuesGrow
  <2>2. (Codes * p + m) * c \in Nat BY <1>1, <1>6, <1>7
  <2> QED BY <1>7, <1>8, <2>1, <2>2
<1> QED BY <1>1, <1>9 DEF Nearest

LEMMA InputFields ==
  ASSUME float \in Inputs
  PROVE  float.exponent \in 0..Top /\ float.mantissa \in 0..(2^Bits - 1)
  BY FieldAssumption

LEMMA NarrowIsNearest ==
  ASSUME float \in Inputs, float.exponent # Top, half = f32_to_f16_bits(float)
  PROVE  Nearest
<1> DEFINE x == float.exponent
           e == float.exponent - Bias + HalfBias
<1>1. /\ HalfTop \in Nat \ {0} /\ Delta \in Nat /\ Delta > HalfBits /\ HalfBits \in Nat
      /\ Top \in Nat /\ Bias \in Nat /\ HalfBias \in Nat
  BY Fields
<1>2. x \in Nat /\ float.mantissa \in 0..(2^Bits - 1) /\ e = x - Delta /\ e \in Int
  BY <1>1, InputFields DEF Delta
<1>3. half = IF e >= HalfTop THEN Infinity
             ELSE IF e <= 0 THEN Subnormal(float.mantissa, e)
             ELSE Normal(float.mantissa, e)
  BY DEF f32_to_f16_bits
<1>4. CASE e >= HalfTop
  <2>1. x >= HalfTop + Delta /\ half = Infinity BY <1>1, <1>2, <1>3, <1>4
  <2> QED BY <1>2, <2>1, HugeIsInfinity
<1>5. CASE e < HalfTop /\ e > 0
  <2>1. PICK i \in Nat : e = i + 1
    <3>1. e - 1 \in Nat /\ e = (e - 1) + 1 BY <1>2, <1>5
    <3> QED BY <3>1
  <2>2. half = Normal(float.mantissa, i + 1)
    <3>1. ~(e >= HalfTop) /\ ~(e <= 0) BY <1>1, <1>2, <1>5
    <3>2. half = Normal(float.mantissa, e) BY <1>3, <3>1
    <3> QED BY <2>1, <3>2
  <2>3. x = i + 1 + Delta /\ i + 1 < HalfTop BY <1>1, <1>2, <1>5, <2>1
  <2> QED BY <1>2, <2>2, <2>3, NormalIsNearest
<1>6. CASE e <= 0 /\ e >= -HalfBits
  <2>1. PICK j \in 0..HalfBits : e = -j
    <3>1. -e \in 0..HalfBits /\ e = -(-e) BY <1>1, <1>2, <1>6
    <3> QED BY <3>1
  <2>2. half = Subnormal(float.mantissa, -j)
    <3>1. ~(e >= HalfTop) BY <1>1, <1>2, <1>6
    <3>2. half = Subnormal(float.mantissa, e) BY <1>3, <1>6, <3>1
    <3> QED BY <2>1, <3>2
  <2>3. x = Delta - j BY <1>1, <1>2, <2>1
  <2> QED BY <1>2, <2>2, <2>3, SubnormalIsNearest
<1>7. CASE e < -HalfBits
  <2>1. ~(e >= HalfTop) /\ e <= 0 /\ x + HalfBits < Delta BY <1>1, <1>2, <1>7
  <2>2. half = 0 BY <1>3, <1>7, <2>1 DEF Subnormal
  <2> QED BY <1>2, <2>1, <2>2, TinyIsZero
<1> QED BY <1>1, <1>2, <1>4, <1>5, <1>6, <1>7
--------------------------------------------------------------------------------
(* Widening.                                                               *)

IsExact(h, f) ==
  /\ f.exponent # Top => FloatValue(f) = HalfValue(h)
  /\ f32_to_f16_bits(f) = h

(* Bits that are all zero do not round up.                                 *)
LEMMA NothingToRound ==
  ASSUME NEW q \in Nat, NEW shift \in Nat \ {0}
  PROVE  Shifted(q * 2^shift, shift) = q
<1> DEFINE p == 2^shift
<1>1. p \in Nat \ {0} /\ 2^(shift - 1) \in Nat \ {0}
  <2>1. shift - 1 \in Nat OBVIOUS
  <2> QED BY <2>1, PowerPositive
<1>2. (q * p) \div p = q /\ (q * p) % p = 0
  <2> HIDE DEF p
  <2>1. 0 \in 0..(p - 1) /\ q * p + 0 = q * p BY <1>1
  <2> QED BY <1>1, <2>1, Quotient
<1>3. ~RoundsUp(q, 0, 2^(shift - 1))
  BY <1>1 DEF RoundsUp
<1> QED BY <1>2, <1>3 DEF Shifted

LEMMA ZeroWidens == IsExact(0, f16_bits_to_f32(0))
<1> DEFINE f == [exponent |-> 0, mantissa |-> 0]
<1>1. /\ HalfTop \in Nat \ {0} /\ Delta \in Nat /\ Delta > HalfBits /\ HalfBits \in Nat
      /\ Top \in Nat \ {0} /\ Bias \in Nat /\ HalfBias \in Nat /\ Codes \in Nat \ {0} /\ Unit \in Nat
  BY Fields
<1>2. 0 \in 0..(Codes - 1) /\ 0 * Unit = 0 BY <1>1
<1>3. HalfValue(0) = 0 /\ 0 \div Codes = 0 /\ 0 % Codes = 0
  BY <1>2, SubnormalValue
<1>4. f16_bits_to_f32(0) = f
  BY <1>3 DEF f16_bits_to_f32, Codes
<1>5. FloatValue(f) = 0
  BY DEF FloatValue
<1>6. f.exponent - Bias + HalfBias = -Delta /\ f.exponent # Top
  BY <1>1 DEF Delta
<1>7. ~(-Delta >= HalfTop) /\ -Delta <= 0 /\ -Delta < -HalfBits
  BY <1>1
<1>8. f32_to_f16_bits(f) = 0
  BY <1>6, <1>7 DEF f32_to_f16_bits, Subnormal
<1> QED BY <1>3, <1>4, <1>5, <1>8 DEF IsExact

LEMMA SubnormalWidens ==
  ASSUME NEW m \in 1..(Codes - 1)
  PROVE  IsExact(m, f16_bits_to_f32(m))
<1> DEFINE Enough(k) == Codes <= m * 2^k
           T == {k \in Nat : Enough(k)}
           Right(k) == 2^HalfBits <= m * 2^k /\ m * 2^k < 2^(HalfBits + 1)
<1>1. /\ HalfTop \in Nat \ {0} /\ Delta \in Nat /\ Delta > HalfBits /\ HalfBits \in Nat \ {0}
      /\ Top \in Nat \ {0} /\ Bias \in Nat /\ HalfBias \in Nat /\ Codes \in Nat \ {0} /\ Unit \in Nat
      /\ Dropped \in Nat \ {0} /\ HalfTop + Delta < Top /\ Bits = HalfBits + Dropped
      /\ 2^Bits = Codes * 2^Dropped /\ m \in Nat /\ m >= 1 /\ m < Codes
  BY Fields
<1>2. HalfBits \in T
  <2>1. Codes <= m * Codes
    <3>1. PICK y \in Nat : m = 1 + y
      <4>1. m - 1 \in Nat /\ m = 1 + (m - 1) BY <1>1
      <4> QED BY <4>1
    <3>2. m * Codes = Codes + y * Codes /\ y * Codes \in Nat BY <1>1, <3>1
    <3> QED BY <1>1, <3>2
  <2> QED BY <1>1, <2>1 DEF Codes
<1>3. PICK n \in T : \A y \in T : n <= y
  <2> HIDE DEF Enough
  <2>1. T \in SUBSET Nat /\ T # {} BY <1>2
  <2> HIDE DEF T
  <2> QED BY <2>1, LeastNumber
<1>4. n \in Nat /\ n <= HalfBits /\ Codes <= m * 2^n
  BY <1>2, <1>3
<1>5. n # 0
  <2>1. 2^0 = 1 OBVIOUS
  <2>2. n = 0 => m * 2^n = m BY <1>1, <2>1
  <2> QED BY <1>1, <1>4, <2>2
<1>6. Right(n)
  <2>1. PICK i \in Nat : n = i + 1
    <3>1. n - 1 \in Nat /\ n = (n - 1) + 1 BY <1>4, <1>5
    <3> QED BY <3>1
  <2>2. ~(Codes <= m * 2^i)
    <3>1. ~(n <= i) BY <2>1
    <3>2. i \notin T BY <3>1, <1>3
    <3> QED BY <3>2
  <2>3. 2^n = 2 * 2^i /\ 2^i \in Nat /\ 2^(HalfBits + 1) = 2 * Codes
    BY <1>1, <2>1, PowerNext, PowerPositive DEF Codes
  <2>4. m * (2 * 2^i) = 2 * (m * 2^i) /\ m * 2^i \in Nat BY <1>1, <2>3
  <2>5. m * 2^n < 2 * Codes BY <1>1, <2>2, <2>3, <2>4
  <2> QED BY <1>4, <2>3, <2>5 DEF Codes
<1>7. n \in 1..HalfBits
  BY <1>1, <1>4, <1>5
<1> DEFINE k == CHOOSE j \in 1..HalfBits : Right(j)
           f == [exponent |-> Bias - HalfBias + 1 - k,
                 mantissa |-> (m * 2^k - 2^HalfBits) * 2^(Bits - HalfBits)]
<1>8. k \in 1..HalfBits /\ Right(k)
  BY <1>6, <1>7
<1>9. f16_bits_to_f32(m) = f
  <2>1. m \div Codes = 0 /\ m % Codes = m BY <1>1, SubnormalValue
  <2>2. m # 0 BY <1>1
  <2> QED BY <2>1, <2>2 DEF f16_bits_to_f32, Codes, Widened
<1> HIDE DEF k
<1> DEFINE p == 2^Dropped
           v == 2^k
           w == 2^(Delta - k)
<1>10. /\ p \in Nat /\ v \in Nat /\ w \in Nat /\ k \in Nat /\ k # 0 /\ k <= HalfBits
       /\ Delta - k \in Nat /\ Codes <= m * v /\ 2^Bits = Codes * p
  BY <1>1, <1>8, PowerPositive DEF Codes
<1>11. Unit = p * (v * w)
  <2>1. Delta = k + (Delta - k) BY <1>1, <1>10
  <2>2. 2^Delta = v * w BY <1>10, <2>1, PowerSum
  <2>3. Unit = 2^Delta * p BY <1>1, PowerSum DEF Unit
  <2>4. \A x, y \in Nat : x * y = y * x OBVIOUS
  <2>5. v * w \in Nat BY <1>10
  <2> QED BY <1>10, <2>2, <2>3, <2>4, <2>5
<1>12. f.exponent = Delta + 1 - k /\ f.mantissa = (m * v - Codes) * p
  BY DEF Delta, Dropped, Codes
<1>13. 2^Bits + f.mantissa = (m * v) * p /\ f.mantissa + 2^Bits = (m * v) * p
  <2> HIDE DEF p, v, w, f
  <2>1. m * v \in Nat BY <1>1, <1>10
  <2> DEFINE x == m * v
  <2>2. x \in Nat /\ f.mantissa = (x - Codes) * p BY <1>12, <2>1
  <2> HIDE DEF x
  <2>3. Codes * p + (x - Codes) * p = x * p /\ (x - Codes) * p + Codes * p = x * p
    BY <1>1, <1>10, <2>2
  <2> QED BY <1>10, <2>2, <2>3 DEF x
<1>14. FloatValue(f) = HalfValue(m)
  <2>1. f.exponent # 0 /\ f.exponent - 1 = Delta - k BY <1>1, <1>10, <1>12
  <2>2. FloatValue(f) = (m * v) * p * w BY <1>13, <2>1 DEF FloatValue
  <2>3. HalfValue(m) = m * Unit BY <1>1, SubnormalValue
  <2> HIDE DEF p, v, w, f
  <2>4. (m * v) * p * w = m * (p * (v * w)) BY <1>1, <1>10
  <2> QED BY <1>11, <2>2, <2>3, <2>4
<1>15. f32_to_f16_bits(f) = m
  <2>1. f.exponent # Top /\ f.exponent - Bias + HalfBias = 1 - k
    BY <1>1, <1>10, <1>12 DEF Delta
  <2>2. ~(1 - k >= HalfTop) /\ 1 - k <= 0 /\ ~(1 - k < -HalfBits)
    BY <1>1, <1>10
  <2>3. f32_to_f16_bits(f) = Shifted(f.mantissa + 2^Bits, Bits - HalfBits + 1 - (1 - k))
    BY <2>1, <2>2 DEF f32_to_f16_bits, Subnormal
  <2>4. Bits - HalfBits + 1 - (1 - k) = Dropped + k BY <1>1, <1>10 DEF Dropped
  <2>5. f.mantissa + 2^Bits = m * 2^(Dropped + k)
    <3>1. 2^(Dropped + k) = p * v BY <1>1, <1>10, PowerSum
    <3> HIDE DEF p, v, f
    <3>2. (m * v) * p = m * (p * v) BY <1>1, <1>10
    <3> QED BY <1>13, <3>1, <3>2
  <2>6. Dropped + k \in Nat \ {0} BY <1>1, <1>10
  <2> QED BY <1>1, <2>3, <2>4, <2>5, <2>6, NothingToRound
<1> HIDE DEF f
<1> QED BY <1>9, <1>14, <1>15 DEF IsExact

LEMMA NormalWidens ==
  ASSUME NEW i \in Nat, i + 1 < HalfTop, NEW m \in 0..(Codes - 1)
  PROVE  IsExact((i + 1) * Codes + m, f16_bits_to_f32((i + 1) * Codes + m))
<1> DEFINE h == (i + 1) * Codes + m
           p == 2^Dropped
           f == [exponent |-> (i + 1) + Bias - HalfBias, mantissa |-> m * p]
<1>1. /\ HalfTop \in Nat \ {0} /\ Delta \in Nat /\ HalfBits \in Nat \ {0}
      /\ Top \in Nat \ {0} /\ Bias \in Nat /\ HalfBias \in Nat /\ Codes \in Nat \ {0} /\ Unit \in Nat
      /\ Dropped \in Nat \ {0} /\ HalfTop + Delta < Top /\ 2^Bits = Codes * p
  BY Fields
<1>2. p \in Nat /\ 2^i \in Nat /\ 2^Delta \in Nat
  BY <1>1, PowerPositive
<1>3. h \div Codes = i + 1 /\ h % Codes = m
  <2>1. i + 1 \in Nat OBVIOUS
  <2> QED BY <1>1, <2>1, Quotient
<1>4. f16_bits_to_f32(h) = f
  <2>1. i + 1 # 0 /\ i + 1 # HalfTop BY <1>1
  <2> HIDE DEF h
  <2> QED BY <1>3, <2>1 DEF f16_bits_to_f32, Codes, Dropped
<1>5. f.exponent = i + 1 + Delta /\ f.mantissa = m * p
  BY <1>1 DEF Delta
<1>6. FloatValue(f) = HalfValue(h)
  <2>1. f.exponent # 0 /\ f.exponent - 1 = i + Delta BY <1>1, <1>5
  <2>2. FloatValue(f) = (Codes * p + m * p) * 2^(i + Delta) BY <1>1, <1>5, <2>1 DEF FloatValue
  <2>3. 2^(i + Delta) = 2^i * 2^Delta /\ Unit = 2^Delta * p BY <1>1, PowerSum DEF Unit
  <2>4. HalfValue(h) = (Codes + m) * 2^i * Unit BY NormalValue
  <2> DEFINE a == 2^i
             b == 2^Delta
  <2>5. a \in Nat /\ b \in Nat /\ FloatValue(f) = (Codes * p + m * p) * (a * b)
        /\ HalfValue(h) = (Codes + m) * a * (b * p)
    BY <1>2, <2>2, <2>3, <2>4
  <2> HIDE DEF a, b, p, f, h
  <2>6. (Codes * p + m * p) * (a * b) = (Codes + m) * a * (b * p)
    BY <1>1, <1>2, <2>5
  <2> QED BY <2>5, <2>6
<1>7. f32_to_f16_bits(f) = h
  <2>1. f.exponent # Top /\ f.exponent - Bias + HalfBias = i + 1
    BY <1>1, <1>5 DEF Delta
  <2>2. ~(i + 1 >= HalfTop) /\ ~(i + 1 <= 0) BY <1>1
  <2>3. Shifted(f.mantissa, Dropped) = m
    BY <1>1, <1>5, NothingToRound
  <2>4. m # 2^HalfBits BY <1>1 DEF Codes
  <2>5. Normal(f.mantissa, i + 1) = (i + 1) * 2^HalfBits + m
    BY <2>3, <2>4 DEF Normal, Dropped
  <2> QED BY <2>1, <2>2, <2>5 DEF f32_to_f16_bits, Codes
<1> HIDE DEF f, h
<1> QED BY <1>4, <1>6, <1>7 DEF IsExact, h

(* Infinity and the one NaN that narrowing makes.                          *)
LEMMA SpecialWidens ==
  ASSUME NEW h \in {Infinity, NaN}
  PROVE  IsExact(h, f16_bits_to_f32(h))
<1>1. /\ HalfTop \in Nat \ {0} /\ HalfBits \in Nat \ {0} /\ Codes \in Nat \ {0}
      /\ Infinity = HalfTop * Codes /\ Dropped \in Nat \ {0}
  BY Fields
<1>2. PICK m \in 0..(Codes - 1) : h = HalfTop * Codes + m /\ (m = 0 <=> h = Infinity)
  <2>1. CASE h = Infinity
    <3>1. 0 \in 0..(Codes - 1) /\ HalfTop * Codes + 0 = h BY <1>1, <2>1
    <3> QED BY <2>1, <3>1
  <2>2. CASE h = NaN
    <3> DEFINE z == 2^(HalfBits - 1)
    <3>1. z \in Nat \ {0} /\ Codes = 2 * z BY <1>1, ShiftedBits DEF Codes
    <3>2. h = HalfTop * Codes + z BY <1>1, <2>2 DEF NaN
    <3> HIDE DEF z
    <3>3. z \in 0..(Codes - 1) /\ z # 0 /\ h # Infinity
      <4>1. HalfTop * Codes \in Nat BY <1>1
      <4> QED BY <1>1, <3>1, <3>2, <4>1
    <3> QED BY <3>2, <3>3
  <2> QED BY <2>1, <2>2
<1>3. h \div Codes = HalfTop /\ h % Codes = m
  BY <1>1, <1>2, Quotient
<1> DEFINE p == 2^Dropped
           f == [exponent |-> Top, mantissa |-> m * p]
<1>4. f16_bits_to_f32(h) = f
  BY <1>1, <1>3 DEF f16_bits_to_f32, Codes, Dropped
<1>5. m * p = 0 <=> m = 0
  <2>1. p \in Nat \ {0} BY <1>1, PowerPositive
  <2> HIDE DEF p
  <2> QED BY <2>1, <1>1
<1>6. f32_to_f16_bits(f) = IF m = 0 THEN Infinity ELSE NaN
  BY <1>5 DEF f32_to_f16_bits
<1>7. f.exponent = Top
  OBVIOUS
<1> HIDE DEF f
<1> QED BY <1>2, <1>4, <1>6, <1>7 DEF IsExact

(* Every half that narrowing makes widens exactly.                         *)
LEMMA WidenIsExact ==
  ASSUME NEW h, h \in 0..Infinity \/ h = NaN
  PROVE  IsExact(h, f16_bits_to_f32(h))
<1>1. /\ HalfTop \in Nat \ {0} /\ Codes \in Nat \ {0} /\ Infinity = HalfTop * Codes /\ Infinity \in Nat
  BY Fields
<1>2. CASE h \in {Infinity, NaN}
  BY <1>2, SpecialWidens
<1>3. CASE h \notin {Infinity, NaN}
  <2>1. h \in Nat /\ h < Infinity BY <1>1, <1>3
  <2>2. CASE h = 0
    BY <2>2, ZeroWidens
  <2>3. CASE h # 0 /\ h \in 0..(Codes - 1)
    <3>1. h \in 1..(Codes - 1) BY <1>1, <2>3
    <3> QED BY <3>1, SubnormalWidens
  <2>4. CASE \E e \in Nat : \E m \in 0..(Codes - 1) : h = (e + 1) * Codes + m
    <3>1. PICK e \in Nat, m \in 0..(Codes - 1) : h = (e + 1) * Codes + m BY <2>4
    <3>2. e + 1 < HalfTop
      <4>1. SUFFICES ASSUME HalfTop <= e + 1 PROVE FALSE BY <1>1
      <4>2. PICK y \in Nat : e + 1 = HalfTop + y
        <5>1. e + 1 - HalfTop \in Nat /\ e + 1 = HalfTop + (e + 1 - HalfTop) BY <1>1, <4>1
        <5> QED BY <5>1
      <4>3. (e + 1) * Codes = HalfTop * Codes + y * Codes /\ y * Codes \in Nat BY <1>1, <4>2
      <4> QED BY <1>1, <2>1, <3>1, <4>3
    <3> QED BY <3>1, <3>2, NormalWidens
  <2> QED BY <2>1, <2>2, <2>3, <2>4, HalfFields
<1> QED BY <1>2, <1>3
--------------------------------------------------------------------------------
HalfInv ==
  /\ at \in {"float", "half", "back"} /\ float \in Inputs
  /\ at # "float" => half = f32_to_f16_bits(float)
  /\ at = "back" => back = f16_bits_to_f32(half)

LEMMA HalfStepInv == HalfInv /\ [HalfNext]_halfVars => HalfInv'
<1> SUFFICES ASSUME HalfInv, [HalfNext]_halfVars PROVE HalfInv'
  OBVIOUS
<1>1. CASE Narrow
  BY <1>1 DEF HalfInv, Narrow
<1>2. CASE Widen
  BY <1>2 DEF HalfInv, Widen
<1>3. CASE UNCHANGED halfVars
  BY <1>3 DEF HalfInv, halfVars
<1> QED BY <1>1, <1>2, <1>3 DEF HalfNext

LEMMA HalfInitInv == HalfInit => HalfInv
BY DEF HalfInit, HalfInv

LEMMA NearestHolds == HalfInv => NearestHalf
<1> SUFFICES ASSUME HalfInv, at # "float"
             PROVE  IF float.exponent = Top THEN half = IF float.mantissa = 0 THEN Infinity ELSE NaN
                    ELSE Nearest
  BY DEF NearestHalf, Nearest
<1>1. float \in Inputs /\ half = f32_to_f16_bits(float)
  BY DEF HalfInv
<1>2. CASE float.exponent = Top
  BY <1>1, <1>2 DEF f32_to_f16_bits
<1>3. CASE float.exponent # Top
  BY <1>1, <1>3, NarrowIsNearest
<1> QED BY <1>2, <1>3

LEMMA RoundedOnceHolds == HalfInv => RoundedOnce
<1> SUFFICES ASSUME HalfInv, at = "back"
             PROVE  /\ back.exponent # Top => FloatValue(back) = HalfValue(half)
                    /\ f32_to_f16_bits(back) = half
  BY DEF RoundedOnce
<1>1. float \in Inputs /\ half = f32_to_f16_bits(float) /\ back = f16_bits_to_f32(half)
  BY DEF HalfInv
<1>2. half \in 0..Infinity \/ half = NaN
  <2>1. CASE float.exponent = Top
    <3>1. half \in {Infinity, NaN} BY <1>1, <2>1 DEF f32_to_f16_bits
    <3>2. Infinity \in 0..Infinity BY Fields
    <3> QED BY <3>1, <3>2
  <2>2. CASE float.exponent # Top
    BY <1>1, <2>2, NarrowIsNearest DEF Nearest
  <2> QED BY <2>1, <2>2
<1>3. IsExact(half, back)
  BY <1>1, <1>2, WidenIsExact
<1> QED BY <1>3 DEF IsExact

(* For any field widths, any float is narrowed to the nearest half, ties   *)
(* to even, through carries, subnormals and overflow (runtime_cpu.cpp:54-  *)
(* 95).                                                                    *)
THEOREM HalvesAreNearest == HalfSpec => []NearestHalf
BY HalfInitInv, HalfStepInv, NearestHolds, PTL DEF HalfSpec

(* For any field widths, widening a narrowed float is exact and narrowing  *)
(* it again changes nothing (runtime_cpu.cpp:97-126).                      *)
THEOREM RoundingIsStable == HalfSpec => []RoundedOnce
BY HalfInitInv, HalfStepInv, RoundedOnceHolds, PTL DEF HalfSpec
===============================================================================
