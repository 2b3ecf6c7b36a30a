---------------------------- MODULE ExtendPlanProofs ---------------------------
(***************************************************************************)
(* What the plan of forward_extend computes, for any chunk size and any    *)
(* number of requests.  Induction is over sets of numbers: a set that has  *)
(* 0 and with each number the next is Nat, as its complement has no least  *)
(* element.                                                                *)
(***************************************************************************)
EXTENDS ExtendPlan, Integers, WellFoundedInduction, TLAPS

--------------------------------------------------------------------------------
(* Numbers.                                                                *)

Less == {ss \in Nat \X Nat : ss[1] < ss[2]}

LEMMA LessIsWellFounded == IsWellFoundedOn(Less, Nat)
BY NatLessThanWellFounded DEF OpToRel, Less

LEMMA Induction ==
  ASSUME NEW T \in SUBSET Nat, 0 \in T, \A n \in T : n + 1 \in T
  PROVE  T = Nat
<1>1. SUFFICES ASSUME Nat \ T # {} PROVE FALSE
  OBVIOUS
<1>2. PICK x \in Nat \ T : \A y \in Nat \ T : ~(<<y, x>> \in Less)
  BY <1>1, LessIsWellFounded, WFMin
<1>3. x \in Nat /\ x # 0 OBVIOUS
<1>4. x - 1 \in Nat /\ <<x - 1, x>> \in Less BY <1>3 DEF Less
<1>5. x - 1 \in T BY <1>2, <1>4
<1>6. (x - 1) + 1 = x BY <1>3
<1> QED BY <1>5, <1>6

(* Integer division by its two inequalities.                               *)
LEMMA Division ==
  ASSUME NEW n \in Nat, NEW d \in Nat \ {0}
  PROVE  /\ n \div d \in Nat /\ n % d \in 0..(d - 1)
         /\ n = (n \div d) * d + (n % d)
OBVIOUS

LEMMA Multiples ==
  ASSUME NEW a \in Nat, NEW b \in Nat, NEW d \in Nat, a < b
  PROVE  a * d \in Nat /\ b * d \in Nat /\ a * d + d <= b * d
<1>1. PICK e \in Nat : b = a + 1 + e
  <2>1. b - a - 1 \in Nat /\ b = a + 1 + (b - a - 1) OBVIOUS
  <2> QED BY <2>1
<1>2. e * d \in Nat /\ a * d \in Nat /\ b * d \in Nat
  OBVIOUS
<1>3. b * d = a * d + d + e * d
  BY <1>1
<1> QED BY <1>2, <1>3

--------------------------------------------------------------------------------
(* Where each request's queries begin.                                     *)

(* The recursive definition of Offsets defines a function on every list.   *)
LEMMA OffsetsAre ==
  ASSUME NEW ext, Len(ext) \in Nat
  PROVE  Offsets(ext) = [i \in 0..Len(ext) |-> IF i = 0 THEN 0 ELSE Offsets(ext)[i - 1] + ext[i]]
<1> DEFINE Solves(f, n) == f = [i \in 0..n |-> IF i = 0 THEN 0 ELSE f[i - 1] + ext[i]]
           T == {n \in Nat : \E f : Solves(f, n)}
<1>1. 0 \in T
  <2> DEFINE f == [i \in 0..0 |-> 0]
  <2>1. Solves(f, 0) OBVIOUS
  <2> QED BY <2>1
<1>2. ASSUME NEW n \in T PROVE n + 1 \in T
  <2>1. PICK f : Solves(f, n) OBVIOUS
  <2> DEFINE g == [i \in 0..(n + 1) |-> IF i = n + 1 THEN f[n] + ext[n + 1] ELSE f[i]]
             h == [i \in 0..(n + 1) |-> IF i = 0 THEN 0 ELSE g[i - 1] + ext[i]]
  <2>2. n \in Nat OBVIOUS
  <2>3. ASSUME NEW i \in 0..(n + 1) PROVE g[i] = h[i]
    <3>1. CASE i = 0
      <4>1. f[0] = 0 BY <2>1, <2>2
      <4> QED BY <2>2, <3>1, <4>1
    <3>2. CASE i = n + 1
      <4>1. g[n] = f[n] BY <2>2
      <4> QED BY <2>2, <3>2, <4>1
    <3>3. CASE i # 0 /\ i # n + 1
      <4>1. i \in 0..n /\ i - 1 \in 0..(n + 1) /\ i - 1 # n + 1 BY <2>2, <3>3
      <4>2. f[i] = f[i - 1] + ext[i] BY <2>1, <3>3, <4>1
      <4> QED BY <3>3, <4>1, <4>2
    <3> QED BY <3>1, <3>2, <3>3
  <2>4. g = h BY <2>3
  <2>5. Solves(g, n + 1) BY <2>4
  <2> HIDE DEF g, h, Solves
  <2> QED BY <2>2, <2>5
<1>3. T = Nat
  <2> HIDE DEF T
  <2>1. T \in SUBSET Nat BY DEF T
  <2> QED BY <1>1, <1>2, <2>1, Induction
<1>4. PICK f : Solves(f, Len(ext)) BY <1>3
<1> QED BY <1>4 DEF Offsets

(* They grow as long as no request has a negative number of queries.       *)
LEMMA OffsetsGrow ==
  ASSUME NEW ext, Len(ext) \in Nat, NEW m \in 0..Len(ext), \A a \in 1..m : ext[a] \in Nat
  PROVE  /\ \A b \in 0..m : Offsets(ext)[b] \in Nat
         /\ \A b \in 0..m : \A a \in 0..b : Offsets(ext)[a] <= Offsets(ext)[b]
         /\ \A b \in 1..m : Offsets(ext)[b] = Offsets(ext)[b - 1] + ext[b]
<1> DEFINE off == Offsets(ext)
           T == {b \in Nat : b <= m => /\ off[b] \in Nat /\ \A a \in 0..b : off[a] \in Nat /\ off[a] <= off[b]}
<1>1. off = [i \in 0..Len(ext) |-> IF i = 0 THEN 0 ELSE off[i - 1] + ext[i]]
  BY OffsetsAre
<1> HIDE DEF off
<1>2. off[0] = 0 /\ \A b \in 1..m : off[b] = off[b - 1] + ext[b]
  <2>1. m \in Nat /\ m <= Len(ext) OBVIOUS
  <2>2. off[0] = 0 BY <1>1
  <2>3. ASSUME NEW b \in 1..m PROVE off[b] = off[b - 1] + ext[b]
    <3>1. b \in 0..Len(ext) /\ b # 0 BY <2>1
    <3> QED BY <1>1, <3>1
  <2> QED BY <2>2, <2>3
<1>3. 0 \in T
  <2>1. \A a \in 0..0 : a = 0 OBVIOUS
  <2> QED BY <1>2, <2>1
<1>4. ASSUME NEW b \in T PROVE b + 1 \in T
  <2> SUFFICES ASSUME b + 1 <= m
               PROVE  off[b + 1] \in Nat /\ \A a \in 0..(b + 1) : off[a] \in Nat /\ off[a] <= off[b + 1]
    OBVIOUS
  <2>1. b \in Nat /\ b <= m /\ b + 1 \in 1..m /\ (b + 1) - 1 = b OBVIOUS
  <2>2. off[b] \in Nat /\ \A a \in 0..b : off[a] \in Nat /\ off[a] <= off[b] BY <2>1
  <2>3. off[b + 1] = off[b] + ext[b + 1] /\ ext[b + 1] \in Nat BY <1>2, <2>1
  <2>4. ASSUME NEW a \in 0..(b + 1) PROVE off[a] \in Nat /\ off[a] <= off[b + 1]
    <3>1. a \in 0..b \/ a = b + 1 BY <2>1
    <3> QED BY <2>2, <2>3, <3>1
  <2> QED BY <2>2, <2>3, <2>4
<1>5. T = Nat
  <2> HIDE DEF T
  <2>1. T \in SUBSET Nat BY DEF T
  <2> QED BY <1>3, <1>4, <2>1, Induction
<1>6. ASSUME NEW b \in 0..m
      PROVE  off[b] \in Nat /\ \A a \in 0..b : off[a] <= off[b]
  <2>1. b \in Nat /\ b <= m OBVIOUS
  <2>2. b \in T BY <1>5, <2>1
  <2> QED BY <2>1, <2>2
<1> QED BY <1>2, <1>6 DEF off

(* Every query before the end of the first m requests is of one of them.   *)
LEMMA OffsetsCover ==
  ASSUME NEW ext, Len(ext) \in Nat, NEW m \in 0..Len(ext), \A a \in 1..m : ext[a] \in Nat,
         NEW q \in Nat, q < Offsets(ext)[m]
  PROVE  \E i \in 1..m : q - Offsets(ext)[i - 1] \in 0..(ext[i] - 1)
<1> DEFINE off == Offsets(ext)
           T == {b \in Nat : b <= m /\ q < off[b] => \E i \in 1..m : q - off[i - 1] \in 0..(ext[i] - 1)}
<1>1. /\ \A b \in 0..m : off[b] \in Nat
      /\ \A b \in 1..m : off[b] = off[b - 1] + ext[b]
  BY OffsetsGrow
<1>2. off[0] = 0 BY OffsetsAre
<1> HIDE DEF off
<1>3. 0 \in T BY <1>2
<1>4. ASSUME NEW b \in T PROVE b + 1 \in T
  <2> SUFFICES ASSUME b + 1 <= m, q < off[b + 1]
               PROVE  \E i \in 1..m : q - off[i - 1] \in 0..(ext[i] - 1)
    OBVIOUS
  <2>1. b \in Nat /\ b <= m /\ b \in 0..m /\ b + 1 \in 1..m /\ (b + 1) - 1 = b OBVIOUS
  <2>2. CASE q < off[b] BY <2>1, <2>2
  <2>3. CASE ~(q < off[b])
    <3>1. off[b] \in Nat /\ off[b + 1] = off[b] + ext[b + 1] /\ ext[b + 1] \in Nat BY <1>1, <2>1
    <3>2. q - off[b] \in 0..(ext[b + 1] - 1) BY <2>3, <3>1
    <3> QED BY <2>1, <3>2
  <2> QED BY <2>2, <2>3
<1>5. T = Nat
  <2> HIDE DEF T
  <2>1. T \in SUBSET Nat BY DEF T
  <2> QED BY <1>3, <1>4, <2>1, Induction
<1>6. m \in T /\ q < off[m] BY <1>5 DEF off
<1> QED BY <1>6 DEF off

--------------------------------------------------------------------------------
(* What a query is computed from.                                          *)

LEMMA ChunkStart ==
  ASSUME NEW k \in Nat
  PROVE  \E s \in 0..k : s % Chunk = 0 /\ k - s \in 0..(Chunk - 1)
<1> DEFINE d == k \div Chunk
           s == d * Chunk
<1>1. Chunk \in Nat \ {0} BY ChunkAssumption
<1>2. d \in Nat /\ k % Chunk \in 0..(Chunk - 1) /\ k = d * Chunk + (k % Chunk)
  BY <1>1, Division
<1> HIDE DEF d
<1>3. s \in Nat BY <1>1, <1>2
<1>4. s \div Chunk \in Nat /\ s % Chunk \in 0..(Chunk - 1) /\ s = (s \div Chunk) * Chunk + (s % Chunk)
  <2> HIDE DEF s
  <2> QED BY <1>1, <1>3, Division
<1> DEFINE e == s \div Chunk
           r == s % Chunk
<1>5. e \in Nat /\ r \in 0..(Chunk - 1) /\ d * Chunk = e * Chunk + r BY <1>4
<1>6. r = 0
  <2> HIDE DEF e, r
  <2>1. d * Chunk \in Nat /\ e * Chunk \in Nat BY <1>1, <1>2, <1>5
  <2>2. ~(d < e) BY <1>1, <1>2, <1>5, <2>1, Multiples
  <2>3. ~(e < d) BY <1>1, <1>2, <1>5, <2>1, Multiples
  <2>4. d = e BY <1>2, <1>5, <2>2, <2>3
  <2> QED BY <1>5, <2>1, <2>4
<1>7. s \in 0..k /\ k - s \in 0..(Chunk - 1)
  <2> HIDE DEF e, r
  <2> QED BY <1>1, <1>2, <1>3
<1> QED BY <1>6, <1>7

(* Output row q of the batch is query k of request i, and of no other.     *)
RowOfQuery(ext, n, i, k, q) ==
  /\ n \in Nat /\ Len(ext) = n /\ i \in 1..n /\ q \in Nat
  /\ \A a \in 1..n : ext[a] \in Nat
  /\ \A a \in 0..n : Offsets(ext)[a] \in Nat
  /\ k \in 0..(ext[i] - 1) /\ q = Offsets(ext)[i - 1] + k
  /\ q <= Offsets(ext)[n] /\ ext[i] <= Offsets(ext)[n]
  /\ \A a \in 1..n : q - Offsets(ext)[a - 1] \in 0..(ext[a] - 1) => a = i

(* The plan computes query k of request i from that request alone, up to   *)
(* the query's own position, whatever chunk it falls in.                   *)
LEMMA AssignedIs ==
  ASSUME NEW ext, NEW prefix, NEW n, NEW i, NEW k, NEW q, RowOfQuery(ext, n, i, k, q),
         prefix[i] \in Nat
  PROVE  Assigned(ext, prefix, q) = {<<i, prefix[i] + k + 1>>}
<1> USE DEF RowOfQuery
<1> DEFINE off == Offsets(ext)
           A == { b \in (1..Len(ext)) \X (0..off[Len(ext)]) :
                    /\ b[2] \in ChunkStarts(ext[b[1]])
                    /\ q - off[b[1] - 1] \in Covered(ext[b[1]], b[2]) }
           v(a) == <<a[1], CausalLength(prefix[a[1]], a[2], q - off[a[1] - 1])>>
<1>1. Assigned(ext, prefix, q) = {v(a) : a \in A} BY DEF Assigned
<1>2. Chunk \in Nat \ {0} /\ k \in Nat /\ i \in Nat \ {0} BY ChunkAssumption
<1>3. off[i - 1] \in Nat /\ q - off[i - 1] = k
  <2>1. i - 1 \in 0..n BY <1>2
  <2> QED BY <1>2, <2>1
<1> HIDE DEF off
<1>4. ASSUME NEW a \in A PROVE v(a) = <<i, prefix[i] + k + 1>>
  <2> DEFINE y == a[1]
             s == a[2]
             z == q - off[y - 1]
  <2>1. y \in 1..n /\ s \in ChunkStarts(ext[y]) /\ z \in Covered(ext[y], s) OBVIOUS
  <2>2. off[y - 1] \in Nat /\ ext[y] \in Nat
    <3>0. n \in Nat /\ \A x \in 1..n : x - 1 \in 0..n OBVIOUS
    <3>1. y - 1 \in 0..n BY <2>1, <3>0, Zenon
    <3> QED BY <2>1, <3>1 DEF off
  <2> HIDE DEF y, s
  <2>3. s \in 0..(ext[y] - 1) BY <2>1 DEF ChunkStarts
  <2>4. z \in 0..(ext[y] - 1)
    <3> DEFINE e == ext[y]
    <3>1. s \in Nat /\ e \in Nat /\ z \in s..(s + Count(e, s) - 1) BY <2>1, <2>2, <2>3 DEF Covered
    <3> HIDE DEF z, e
    <3>2. Count(e, s) \in Int /\ Count(e, s) <= e - s BY <1>2, <3>1 DEF Count
    <3>3. z \in 0..(e - 1) BY <3>1, <3>2
    <3> QED BY <3>3 DEF e
  <2>5. y = i BY <2>1, <2>4 DEF off
  <2>6. z = k BY <1>3, <2>5
  <2>7. CausalLength(prefix[y], s, z) = prefix[i] + k + 1
    <3>1. prefix[i] \in Nat /\ s \in Int BY <2>2, <2>3
    <3> HIDE DEF z
    <3>2. \A c, m \in Nat, x \in Int : CausalLength(c, x, m) = c + m + 1
      BY DEF CausalLength
    <3>3. prefix[y] = prefix[i] BY <2>5
    <3>4. CausalLength(prefix[i], s, k) = prefix[i] + k + 1
      <4> HIDE DEF s
      <4> QED BY <1>2, <3>1, <3>2
    <3> QED BY <2>6, <3>3, <3>4, Zenon
  <2>8. v(a) = <<y, CausalLength(prefix[y], s, z)>> BY DEF y, s
  <2> QED BY <2>5, <2>7, <2>8
<1>5. \E a \in A : TRUE
  <2>1. PICK s \in 0..k : s % Chunk = 0 /\ k - s \in 0..(Chunk - 1) BY <1>2, ChunkStart
  <2>2. ext[i] \in Nat /\ s \in Nat /\ s <= k /\ k < ext[i] BY <1>2
  <2>3. s \in ChunkStarts(ext[i]) BY <2>1, <2>2 DEF ChunkStarts
  <2>4. k \in Covered(ext[i], s) BY <1>2, <2>1, <2>2 DEF Covered, Count
  <2>5. s \in 0..off[n]
    <3>1. off[n] \in Nat /\ ext[i] <= off[n] BY DEF off
    <3> QED BY <2>2, <3>1
  <2>6. <<i, s>> \in A BY <1>3, <2>3, <2>4, <2>5
  <2> QED BY <2>6
<1> HIDE DEF A, v
<1> QED BY <1>1, <1>4, <1>5
================================================================================
