------------------------------ MODULE ArgumentProofs ------------------------------
(***************************************************************************)
(* Theorems of the checks that calls go through before they do anything.   *)
(* IndexRange, for any width of an int, any block size and any shapes:     *)
(* accepted shapes fit, and the grids cover the lanes.  CodecCalls, for    *)
(* any dimensions, groups and calls: nothing is written unless the call    *)
(* succeeds, no sum of an accepted rotation overflows, and its loops       *)
(* compute Sylvester's matrix times the input.                             *)
(***************************************************************************)
EXTENDS IndexRange, CodecCalls, FiniteSetTheorems, WellFoundedInduction, TLAPS

--------------------------------------------------------------------------------
(* Arithmetic.                                                             *)

(* Integer division by its two inequalities.                               *)
LEMMA Division ==
  ASSUME NEW n \in Nat, NEW d \in Nat \ {0}
  PROVE  /\ n \div d \in Nat /\ n % d \in 0..(d - 1)
         /\ n = (n \div d) * d + (n % d)
OBVIOUS

(* Multiplying by a positive number preserves and reflects order.          *)
LEMMA Ordered ==
  ASSUME NEW a \in Nat, NEW b \in Nat, NEW c \in Nat \ {0}
  PROVE  (a * c < b * c <=> a < b) /\ (a * c <= b * c <=> a <= b)
OBVIOUS

(* Comparing with a quotient compares the product.                         *)
LEMMA QuotientTest ==
  ASSUME NEW n \in Nat, NEW a \in Nat, NEW d \in Nat \ {0}
  PROVE  a > n \div d <=> a * d > n
<1> DEFINE q == n \div d
<1>1. q \in Nat /\ q * d <= n /\ n < (q + 1) * d
  BY Division
<1>2. CASE a > q
  <2>1. (q + 1) * d <= a * d
    BY <1>1, <1>2, Ordered
  <2> QED
    BY <1>1, <1>2, <2>1
<1>3. CASE a <= q
  <2>1. a * d <= q * d
    BY <1>1, <1>3, Ordered
  <2> QED
    BY <1>1, <1>3, <2>1
<1> QED
  BY <1>1, <1>2, <1>3

(* A factor of at least one does not shrink a product.                     *)
LEMMA Grows ==
  ASSUME NEW a \in Nat, NEW c \in Nat \ {0}
  PROVE  a * c \in Nat /\ a <= a * c
OBVIOUS

(* exceeds_narrow_index_range says whether the product exceeds INT_MAX.    *)
LEMMA NarrowExact ==
  ASSUME NEW a \in Nat, NEW b \in Nat \ {0}, NEW c \in Nat \ {0}
  PROVE  ExceedsNarrow(a, b, c) <=> a * b * c > IntMax
<1>1. IntMax \in Nat
  BY WidthAssumption
<1>2. a > IntMax \div b <=> a * b > IntMax
  BY <1>1, QuotientTest
<1>3. a * b \in Nat /\ (a * b > IntMax \div c <=> a * b * c > IntMax)
  BY <1>1, QuotientTest
<1>4. a * b <= a * b * c /\ a * b * c \in Nat
  BY <1>3, Grows
<1>5. CASE a = 0
  BY <1>1, <1>5 DEF ExceedsNarrow
<1>6. CASE a # 0
  BY <1>1, <1>2, <1>3, <1>4, <1>6 DEF ExceedsNarrow
<1> QED
  BY <1>5, <1>6

(* The grid of n threads: enough blocks, and less than one block too many. *)
LEMMA GridBounds ==
  ASSUME NEW n \in Nat
  PROVE  Grid(n) \in Nat /\ n <= Grid(n) * Threads /\ Grid(n) * Threads <= n + Threads - 1
<1>1. Threads \in Nat /\ Threads > 1
  BY WidthAssumption
<1> DEFINE m == n + Threads - 1
<1>2. m \in Nat /\ Threads \in Nat \ {0}
  BY <1>1
<1> HIDE DEF m
<1>3. m \div Threads \in Nat /\ m % Threads \in 0..(Threads - 1)
      /\ m = (m \div Threads) * Threads + (m % Threads)
  BY <1>2, Division
<1>4. (m \div Threads) * Threads \in Nat
  BY <1>2, <1>3
<1> USE DEF m
<1> QED
  BY <1>1, <1>3, <1>4 DEF Grid

(* Items times a head dimension fitting an int leaves room for a block.    *)
LEMMA RoomForBlock ==
  ASSUME NEW n \in Nat \ {0}, NEW d \in HeadDims, n * d <= IntMax
  PROVE  n + Threads <= IntMax
<1>1. /\ Threads \in Nat /\ Threads > 1 /\ Threads < IntMax /\ IntMax \in Nat
      /\ d \in Nat /\ d >= Threads
  BY WidthAssumption
<1>2. n * Threads <= n * d
  BY <1>1, Ordered
<1>3. n > 1 => n + Threads <= n * Threads
  BY <1>1
<1> QED
  BY <1>1, <1>2, <1>3

(* Each pair of lane and head is one item.                                 *)
LEMMA ItemOf ==
  ASSUME NEW lanes \in Nat, NEW heads \in Nat \ {0},
         NEW l \in 0..(lanes - 1), NEW h \in 0..(heads - 1)
  PROVE  /\ l * heads + h \in Nat /\ l * heads + h < lanes * heads
         /\ (l * heads + h) \div heads = l /\ (l * heads + h) % heads = h
         /\ \A u \in Nat : u \div heads = l /\ u % heads = h => u = l * heads + h
<1> DEFINE t == l * heads + h
<1>1. l * heads \in Nat /\ t \in Nat
  OBVIOUS
<1>2. (l + 1) * heads <= lanes * heads /\ (l + 1) * heads = l * heads + heads
  <2>1. l + 1 \in Nat /\ l + 1 <= lanes
    OBVIOUS
  <2> QED
    BY <2>1, Ordered
<1>3. t < lanes * heads
  BY <1>1, <1>2
<1>4. t \div heads = l
  <2> DEFINE q == t \div heads
  <2>0. q \in Nat /\ t % heads \in 0..(heads - 1) /\ t = q * heads + (t % heads)
    BY <1>1, Division
  <2>1. /\ q \in Nat /\ q * heads \in Nat /\ q * heads <= t /\ t < q * heads + heads
        /\ (q + 1) * heads = q * heads + heads
    <3> HIDE DEF q, t
    <3> QED
      BY <2>0
  <2>2. q * heads < (l + 1) * heads /\ l * heads < (q + 1) * heads
    BY <1>1, <1>2, <2>1
  <2>3. q < l + 1 /\ l < q + 1
    BY <2>1, <2>2, Ordered
  <2> QED
    BY <2>1, <2>3
<1>5. t % heads = h
  BY <1>1, <1>4, Division
<1>6. ASSUME NEW u \in Nat, u \div heads = l, u % heads = h PROVE u = t
  BY <1>6, Division
<1> QED
  BY <1>1, <1>3, <1>4, <1>5, <1>6
--------------------------------------------------------------------------------
(* The invariant: the checks passed so far, as facts about the call.       *)
Positive ==
  /\ shape.slots \in Nat \ {0} /\ shape.kv \in Nat \ {0} /\ shape.heads \in Nat \ {0}
  /\ shape.lanes \in Nat /\ shape.dim \in HeadDims
  /\ shape.op = "attend" => shape.width \in Nat

RangeInv ==
  /\ RangeTypeOK /\ RangeExact /\ GridCovers /\ ObjectWritesFit
  /\ shape \in Shapes
  /\ reached = "common" =>
       /\ shape.lanes \in Nat
       /\ shape.op = "attend" => shape.heads \in Nat \ {0} /\ shape.width \in Nat
  /\ reached \in {"shape", "validate"} =>
       Positive /\ shape.slots * shape.kv * shape.dim <= IntMax
  /\ reached = "validate" =>
       /\ shape.lanes # 0
       /\ shape.lanes * shape.heads * shape.dim <= IntMax
       /\ shape.op = "attend" => shape.lanes * shape.width <= IntMax

(* Positive extents are natural numbers.                                   *)
LEMMA Extents ==
  ASSUME Positive
  PROVE  /\ shape.slots \in Nat \ {0} /\ shape.kv \in Nat \ {0} /\ shape.heads \in Nat \ {0}
         /\ shape.lanes \in Nat /\ shape.dim \in Nat \ {0} /\ IntMax \in Nat
<1>1. ASSUME NEW d \in HeadDims PROVE d \in Nat \ {0}
  <2>1. d \in Nat /\ Threads \in Nat /\ Threads > 1 /\ d >= Threads
    BY WidthAssumption
  <2> QED
    BY <2>1
<1>2. shape.dim \in HeadDims
  BY DEF Positive
<1>3. shape.dim \in Nat \ {0}
  <2> DEFINE d == shape.dim
  <2>1. d \in HeadDims
    BY <1>2
  <2> HIDE DEF d
  <2>2. d \in Nat \ {0}
    BY <1>1, <2>1
  <2> QED
    BY <2>2 DEF d
<1>4. IntMax \in Nat
  BY WidthAssumption
<1> QED
  BY <1>3, <1>4 DEF Positive

(* Calls have the fields of a call, and a write one head a K/V head.       *)
LEMMA CallTypes ==
  ASSUME shape \in Shapes
  PROVE  /\ shape.op \in {"write", "attend"}
         /\ {shape.slots, shape.kv, shape.dim, shape.lanes, shape.heads, shape.width} \subseteq Int
         /\ shape.op = "write" => shape.heads = shape.kv
         /\ shape \in Shape
BY ShapesAssumption DEF Shape

(* The invariant holds when a call arrives.                                *)
LEMMA RangeInitInv == RangeInit => RangeInv
BY CallTypes DEF RangeInit, RangeInv, RangeTypeOK, RangeExact, GridCovers, ObjectWritesFit, Launched

(* The check of the arguments refuses no write the object lets through.    *)
LEMMA ArgumentsInv == RangeInv /\ CheckArguments => RangeInv'
<1> SUFFICES ASSUME RangeInv, CheckArguments PROVE RangeInv'
  OBVIOUS
<1>1. shape' = shape /\ blocks' = blocks /\ shape \in Shapes /\ reached = "arguments"
  BY DEF CheckArguments, Refuse, GoOn, RangeInv
<1>2. CASE BadArguments
  <2>1. reached' = "refused" /\ why' = "arguments"
    BY <1>1, <1>2 DEF CheckArguments, Refuse
  <2>2. ~ObjectWrites
    BY <1>1, <1>2, CallTypes DEF BadArguments, ObjectWrites
  <2> QED
    BY <1>1, <2>1, <2>2 DEF RangeInv, RangeTypeOK, RangeExact, GridCovers, ObjectWritesFit, ObjectWrites, Launched
<1>3. CASE ~BadArguments
  <2>1. reached' = "common" /\ why' = why
    BY <1>1, <1>3 DEF CheckArguments, GoOn
  <2>2. /\ shape.lanes \in Nat
        /\ shape.op = "attend" => shape.heads \in Nat \ {0} /\ shape.width \in Nat
    BY <1>1, <1>3, CallTypes DEF BadArguments
  <2> QED
    BY <1>1, <2>1, <2>2 DEF RangeInv, RangeTypeOK, RangeExact, GridCovers, ObjectWritesFit, Launched
<1> QED
  BY <1>2, <1>3

(* The check of the cache: what passes has positive extents that fit.      *)
LEMMA CommonInv == RangeInv /\ CheckCommon => RangeInv'
<1> SUFFICES ASSUME RangeInv, CheckCommon PROVE RangeInv'
  OBVIOUS
<1>1. /\ shape' = shape /\ blocks' = blocks /\ shape \in Shapes /\ reached = "common"
      /\ shape.lanes \in Nat
      /\ shape.op = "attend" => shape.heads \in Nat \ {0} /\ shape.width \in Nat
  BY DEF CheckCommon, Refuse, GoOn, RangeInv
<1> DEFINE bad == \/ shape.slots <= 0 \/ shape.kv <= 0 \/ shape.dim \notin HeadDims
                  \/ ExceedsNarrow(shape.slots, shape.kv, shape.dim)
<1>2. ASSUME shape.slots > 0, shape.kv > 0, shape.dim \in HeadDims
      PROVE  /\ shape.slots \in Nat \ {0} /\ shape.kv \in Nat \ {0} /\ shape.dim \in Nat \ {0}
             /\ ExceedsNarrow(shape.slots, shape.kv, shape.dim)
                  <=> shape.slots * shape.kv * shape.dim > IntMax
  <2>1. shape.slots \in Nat \ {0} /\ shape.kv \in Nat \ {0} /\ shape.dim \in Nat \ {0}
    BY <1>1, <1>2, CallTypes, WidthAssumption
  <2> QED
    BY <2>1, NarrowExact
<1>3. CASE bad
  <2>1. reached' = "refused" /\ why' = "common"
    BY <1>1, <1>3 DEF CheckCommon, Refuse
  <2>2. ~ObjectWrites
    <3>1. ASSUME ObjectWrites PROVE FALSE
      <4>1. shape.slots > 0 /\ shape.kv > 0 /\ shape.dim \in HeadDims
            /\ shape.slots * shape.kv * shape.dim <= IntMax
        BY <3>1 DEF ObjectWrites
      <4>2. shape.slots * shape.kv * shape.dim > IntMax
        BY <1>1, <1>2, <1>3, <4>1, CallTypes
      <4>3. shape.slots * shape.kv * shape.dim \in Int /\ IntMax \in Int
        BY <1>1, CallTypes, WidthAssumption
      <4> QED
        BY <4>1, <4>2, <4>3
    <3> QED
      BY <3>1
  <2> QED
    BY <1>1, <2>1, <2>2 DEF RangeInv, RangeTypeOK, RangeExact, GridCovers, ObjectWritesFit, ObjectWrites, Launched
<1>4. CASE ~bad
  <2>1. reached' = "shape" /\ why' = why
    BY <1>1, <1>4 DEF CheckCommon, GoOn
  <2>2. Positive /\ shape.slots * shape.kv * shape.dim <= IntMax /\ shape.dim \in Nat
    <3>1. shape.slots > 0 /\ shape.kv > 0 /\ shape.dim \in HeadDims
      BY <1>1, <1>4, CallTypes
    <3>2. shape.slots * shape.kv * shape.dim \in Int /\ IntMax \in Int
      BY <1>1, CallTypes, WidthAssumption
    <3> QED
      BY <1>1, <1>2, <1>4, <3>1, <3>2, CallTypes DEF Positive
  <2> QED
    BY <1>1, <2>1, <2>2 DEF RangeInv, RangeTypeOK, RangeExact, GridCovers, ObjectWritesFit, Launched, Positive
<1> QED
  BY <1>3, <1>4
(* The products of a call whose arguments and cache have passed.           *)
LEMMA ProductsTested ==
  ASSUME Positive
  PROVE  /\ ExceedsNarrow(shape.lanes, shape.heads, shape.dim)
              <=> shape.lanes * shape.heads * shape.dim > IntMax
         /\ shape.op = "attend" =>
              (ExceedsNarrow(shape.lanes, shape.width, 1) <=> shape.lanes * shape.width > IntMax)
         /\ shape.lanes * shape.heads * shape.dim \in Nat
         /\ shape.op = "attend" => shape.lanes * shape.width \in Nat
<1>1. /\ shape.lanes \in Nat /\ shape.heads \in Nat \ {0} /\ shape.dim \in Nat \ {0}
      /\ IntMax \in Nat
  BY Extents
<1>2. ASSUME shape.op = "attend"
      PROVE  /\ ExceedsNarrow(shape.lanes, shape.width, 1) <=> shape.lanes * shape.width > IntMax
             /\ shape.lanes * shape.width \in Nat
  <2>1. shape.width \in Nat /\ shape.lanes * shape.width \in Nat
    BY <1>1, <1>2 DEF Positive
  <2>2. CASE shape.width = 0
    <3>1. shape.lanes * shape.width = 0
      BY <1>1, <2>2
    <3> QED
      BY <1>1, <2>1, <2>2, <3>1 DEF ExceedsNarrow
  <2>3. CASE shape.width # 0
    <3>1. ExceedsNarrow(shape.lanes, shape.width, 1) <=> shape.lanes * shape.width * 1 > IntMax
      BY <1>1, <2>1, <2>3, NarrowExact
    <3>2. shape.lanes * shape.width * 1 = shape.lanes * shape.width
      BY <2>1
    <3> QED
      BY <2>1, <3>1, <3>2
  <2> QED
    BY <2>2, <2>3
<1>3. shape.lanes * shape.heads * shape.dim \in Nat
  BY <1>1
<1> QED
  BY <1>1, <1>2, <1>3, NarrowExact

(* A write of no more lanes than slots is no larger than the cache.        *)
LEMMA WriteNotLarger ==
  ASSUME Positive, shape.op = "write", shape.heads = shape.kv, shape.lanes \in 0..shape.slots
  PROVE  shape.lanes * shape.heads * shape.dim <= shape.slots * shape.kv * shape.dim
<1>1. /\ shape.lanes \in Nat /\ shape.slots \in Nat /\ shape.kv \in Nat \ {0}
      /\ shape.dim \in Nat \ {0} /\ shape.lanes <= shape.slots
  BY Extents
<1>2. shape.lanes * shape.kv <= shape.slots * shape.kv
  BY <1>1, Ordered
<1>3. shape.lanes * shape.kv \in Nat /\ shape.slots * shape.kv \in Nat
  BY <1>1
<1> QED
  BY <1>1, <1>2, <1>3, Ordered

(* The grid of n threads that times a head dimension fit an int.           *)
LEMMA GridFits ==
  ASSUME NEW n \in Nat \ {0}, NEW d \in HeadDims, n * d <= IntMax
  PROVE  n + Threads <= IntMax /\ Grid(n) \in Nat /\ Grid(n) * Threads <= IntMax
         /\ n <= Grid(n) * Threads
<1>1. /\ n + Threads <= IntMax /\ Grid(n) \in Nat
      /\ n <= Grid(n) * Threads /\ Grid(n) * Threads <= n + Threads - 1
  BY RoomForBlock, GridBounds
<1>2. Threads \in Nat /\ IntMax \in Nat /\ Grid(n) * Threads \in Nat
  BY <1>1, WidthAssumption
<1> QED
  BY <1>1, <1>2

(* The check of the shape, and the first launch.                           *)
LEMMA ShapeInv == RangeInv /\ CheckShape => RangeInv'
<1> SUFFICES ASSUME RangeInv, CheckShape PROVE RangeInv'
  OBVIOUS
<1>1. /\ shape' = shape /\ shape \in Shapes /\ reached = "shape" /\ Positive
      /\ shape.slots * shape.kv * shape.dim <= IntMax
  BY DEF CheckShape, Refuse, GoOn, RangeInv
<1>2. /\ shape.lanes \in Nat /\ shape.heads \in Nat \ {0} /\ shape.dim \in Nat \ {0}
      /\ shape.slots \in Nat \ {0} /\ shape.kv \in Nat \ {0} /\ IntMax \in Nat
  BY <1>1, Extents
<1>3. CASE shape.lanes = 0
  <2>1. reached' = "empty" /\ why' = why /\ blocks' = blocks
    BY <1>1, <1>3 DEF CheckShape, GoOn
  <2> QED
    BY <1>1, <2>1 DEF RangeInv, RangeTypeOK, RangeExact, GridCovers, ObjectWritesFit, Launched, Positive
<1>4. CASE shape.lanes # 0 /\ TooLarge
  <2>1. reached' = "refused" /\ why' = "shape" /\ blocks' = blocks
    BY <1>1, <1>4 DEF CheckShape, Refuse
  <2>2. \/ shape.lanes * shape.heads * shape.dim > IntMax
        \/ shape.op = "attend" /\ shape.lanes * shape.width > IntMax
    BY <1>1, <1>4, ProductsTested DEF TooLarge
  <2>3. ASSUME ObjectWrites PROVE FALSE
    <3>1. shape.op = "write" /\ shape.lanes \in 0..shape.slots /\ shape.heads = shape.kv
      BY <1>1, <2>3, CallTypes DEF ObjectWrites
    <3>2. shape.lanes * shape.heads * shape.dim <= shape.slots * shape.kv * shape.dim
      BY <1>1, <3>1, WriteNotLarger
    <3>3. shape.lanes * shape.heads * shape.dim \in Nat /\ shape.slots * shape.kv * shape.dim \in Nat
      BY <1>2
    <3> QED
      BY <1>1, <1>2, <2>2, <3>1, <3>2, <3>3
  <2> QED
    BY <1>1, <2>1, <2>2, <2>3 DEF RangeInv, RangeTypeOK, RangeExact, GridCovers, ObjectWritesFit, ObjectWrites, Launched
<1>5. CASE shape.lanes # 0 /\ ~TooLarge
  <2>1. reached' = "validate" /\ why' = why /\ blocks' = Grid(shape.lanes)
    BY <1>1, <1>5 DEF CheckShape
  <2>2. /\ shape.lanes * shape.heads * shape.dim <= IntMax
        /\ shape.op = "attend" => shape.lanes * shape.width <= IntMax
    BY <1>1, <1>2, <1>5, ProductsTested DEF TooLarge
  <2>3. shape.lanes * shape.dim <= IntMax
    <3>1. shape.lanes <= shape.lanes * shape.heads /\ shape.lanes * shape.heads \in Nat
      BY <1>2, Grows
    <3>2. shape.lanes * shape.dim <= shape.lanes * shape.heads * shape.dim
      BY <1>2, <3>1, Ordered
    <3>3. shape.lanes * shape.dim \in Nat /\ shape.lanes * shape.heads * shape.dim \in Nat
      BY <1>2, <3>1
    <3> QED
      BY <1>2, <2>2, <3>2, <3>3
  <2>4. /\ shape.lanes + Threads <= IntMax /\ Grid(shape.lanes) \in Nat
        /\ Grid(shape.lanes) * Threads <= IntMax /\ shape.lanes <= Grid(shape.lanes) * Threads
    BY <1>1, <1>2, <1>5, <2>3, GridFits DEF Positive
  <2>5. GridCovers'
    BY <1>1, <2>1, <2>4 DEF GridCovers, Launched, Total
  <2>6. RangeTypeOK' /\ RangeExact' /\ ObjectWritesFit'
    BY <1>1, <1>2, <2>1, <2>2, <2>4 DEF RangeInv, RangeTypeOK, RangeExact, ObjectWritesFit, Launched
  <2> QED
    BY <1>1, <1>5, <2>1, <2>2, <2>5, <2>6 DEF RangeInv, Positive
<1> QED
  BY <1>3, <1>4, <1>5

(* The second launch: one thread for each lane and head.                   *)
LEMMA LaunchInv == RangeInv /\ LaunchKernel => RangeInv'
<1> SUFFICES ASSUME RangeInv, LaunchKernel PROVE RangeInv'
  OBVIOUS
<1> DEFINE n == shape.lanes * shape.heads
<1>1. /\ shape' = shape /\ why' = why /\ reached = "validate" /\ reached' = "kernel"
      /\ blocks' = Grid(n) /\ shape \in Shapes /\ Positive /\ shape.lanes # 0
      /\ n * shape.dim <= IntMax
  BY DEF LaunchKernel, RangeInv
<1>2. /\ shape.lanes \in Nat \ {0} /\ shape.heads \in Nat \ {0} /\ shape.dim \in HeadDims
      /\ n \in Nat \ {0}
  <2>1. shape.lanes \in Nat \ {0} /\ shape.heads \in Nat \ {0} /\ shape.dim \in HeadDims
    BY <1>1 DEF Positive
  <2>2. shape.lanes <= n /\ n \in Nat
    BY <2>1, Grows
  <2> QED
    BY <2>1, <2>2
<1>3. /\ n + Threads <= IntMax /\ Grid(n) \in Nat /\ Grid(n) * Threads <= IntMax
      /\ n <= Grid(n) * Threads
  <2> HIDE DEF n
  <2> QED
    BY <1>1, <1>2, GridFits
<1>4. ASSUME NEW l \in 0..(shape.lanes - 1), NEW h \in 0..(shape.heads - 1)
      PROVE  \E t \in 0..(Grid(n) * Threads - 1) :
               /\ t < n /\ t \div shape.heads = l /\ t % shape.heads = h
               /\ \A u \in 0..(n - 1) : u \div shape.heads = l /\ u % shape.heads = h => u = t
  <2> DEFINE t == l * shape.heads + h
  <2>1. /\ t \in Nat /\ t < n /\ t \div shape.heads = l /\ t % shape.heads = h
        /\ \A u \in Nat : u \div shape.heads = l /\ u % shape.heads = h => u = t
    <3>1. shape.lanes \in Nat /\ shape.heads \in Nat \ {0}
      BY <1>2
    <3> DEFINE lanes == shape.lanes
               heads == shape.heads
    <3>2. lanes \in Nat /\ heads \in Nat \ {0} /\ l \in 0..(lanes - 1) /\ h \in 0..(heads - 1)
      BY <3>1, <1>4
    <3> HIDE DEF lanes, heads
    <3>3. /\ l * heads + h \in Nat /\ l * heads + h < lanes * heads
          /\ (l * heads + h) \div heads = l /\ (l * heads + h) % heads = h
          /\ \A u \in Nat : u \div heads = l /\ u % heads = h => u = l * heads + h
      BY <3>2, ItemOf
    <3> QED
      BY <3>3 DEF lanes, heads
  <2>2. Grid(n) * Threads \in Nat
    BY <1>3, WidthAssumption
  <2> HIDE DEF t, n
  <2>3. t \in 0..(Grid(n) * Threads - 1) /\ \A u \in 0..(n - 1) : u \in Nat
    BY <1>2, <1>3, <2>1, <2>2
  <2> QED
    BY <2>1, <2>3
<1>5. GridCovers'
  BY <1>1, <1>3, <1>4 DEF GridCovers, Launched, Total
<1>6. RangeTypeOK' /\ RangeExact' /\ ObjectWritesFit'
  BY <1>1, <1>3 DEF RangeInv, RangeTypeOK, RangeExact, ObjectWritesFit, Launched
<1> QED
  BY <1>1, <1>5, <1>6 DEF RangeInv

(* Every step preserves the invariant.                                     *)
LEMMA RangeStepInv == RangeInv /\ [RangeNext]_rangeVars => RangeInv'
<1> SUFFICES ASSUME RangeInv, [RangeNext]_rangeVars PROVE RangeInv'
  OBVIOUS
<1>1. CASE UNCHANGED rangeVars
  BY <1>1 DEF rangeVars, RangeInv, RangeTypeOK, RangeExact, GridCovers, ObjectWritesFit,
              ObjectWrites, Launched, Total, Positive
<1> QED
  BY <1>1, ArgumentsInv, CommonInv, ShapeInv, LaunchInv DEF RangeNext

(* The checks passed so far say of the call what the invariant says.       *)
THEOREM RangeInvariant == RangeSpec => []RangeInv
<1> QED
  BY RangeInitInv, RangeStepInv, PTL DEF RangeSpec

(* Types, and positive extents past the checks of arguments and cache.     *)
THEOREM RangeTypeCorrect == RangeSpec => []RangeTypeOK
<1>1. RangeInv => RangeTypeOK
  BY DEF RangeInv
<1> QED
  BY <1>1, RangeInvariant, PTL

(* The check by division is exact for every width of an int.               *)
THEOREM RangesAreExact == RangeSpec => []RangeExact
<1>1. RangeInv => RangeExact
  BY DEF RangeInv
<1> QED
  BY <1>1, RangeInvariant, PTL

(* Every lane and head has exactly one thread, and no int overflows.       *)
THEOREM GridsCover == RangeSpec => []GridCovers
<1>1. RangeInv => GridCovers
  BY DEF RangeInv
<1> QED
  BY <1>1, RangeInvariant, PTL

(* No write of the cache object is refused for its shape.                  *)
THEOREM ObjectWritesAreAccepted == RangeSpec => []ObjectWritesFit
<1>1. RangeInv => ObjectWritesFit
  BY DEF RangeInv
<1> QED
  BY <1>1, RangeInvariant, PTL
--------------------------------------------------------------------------------
(* Calls of the codec.                                                     *)

(* Powers of two are positive: 2^n counts the subsets of 1..n.             *)
LEMMA PowerCounts ==
  ASSUME NEW n \in Nat
  PROVE  IsFiniteSet(SUBSET (1..n)) /\ Cardinality(SUBSET (1..n)) = 2^n
<1>1. IsFiniteSet(1..n) /\ Cardinality(1..n) = n
  BY FS_Interval
<1> QED BY <1>1, FS_SUBSET

LEMMA PowerPositive == ASSUME NEW n \in Nat PROVE 2^n \in Nat \ {0}
<1>1. IsFiniteSet(SUBSET (1..n)) /\ Cardinality(SUBSET (1..n)) = 2^n
  BY PowerCounts
<1>2. Cardinality(SUBSET (1..n)) \in Nat
  BY <1>1, FS_CardinalityType
<1>3. Cardinality(SUBSET (1..n)) # 0
  BY <1>1, FS_EmptySet
<1> QED BY <1>1, <1>2, <1>3

(* Half of the subsets of 1..n+1 are those of 1..n, the others have n+1    *)
(* besides.                                                                *)
LEMMA PowerNext == ASSUME NEW n \in Nat PROVE 2^(n + 1) = 2 * 2^n
<1> DEFINE A == SUBSET (1..n)
           B == {S \in SUBSET (1..(n + 1)) : n + 1 \in S}
           f == [S \in A |-> S \cup {n + 1}]
<1>1. 1..(n + 1) = (1..n) \cup {n + 1} /\ n + 1 \notin 1..n
  OBVIOUS
<1>2. A \cup B = SUBSET (1..(n + 1)) /\ A \cap B = {}
  BY <1>1
<1>3. f \in Bijection(A, B)
  <2>1. \A S \in A : S \cup {n + 1} \in B
    BY <1>1
  <2>2. \A S, T \in A : S \cup {n + 1} = T \cup {n + 1} => S = T
    BY <1>1
  <2>3. \A T \in B : T \ {n + 1} \in A /\ (T \ {n + 1}) \cup {n + 1} = T
    BY <1>1
  <2>4. f \in [A -> B] BY <2>1
  <2>5. \A S, T \in A : f[S] = f[T] => S = T BY <2>2
  <2>6. \A T \in B : \E S \in A : f[S] = T BY <2>3
  <2> HIDE DEF A, B, f
  <2>7. f \in Injection(A, B) BY <2>4, <2>5 DEF Injection, IsInjective
  <2>8. f \in Surjection(A, B) BY <2>4, <2>6 DEF Surjection
  <2> QED BY <2>7, <2>8 DEF Bijection
<1>4. IsFiniteSet(A) /\ Cardinality(A) = 2^n
  BY PowerCounts
<1>5. ExistsBijection(A, B)
  BY <1>3 DEF ExistsBijection
<1> HIDE DEF A, B, f
<1>6. IsFiniteSet(B) /\ Cardinality(B) = 2^n
  BY <1>4, <1>5, FS_Bijection
<1>7. Cardinality(A \cap B) = 0
  BY <1>2, FS_EmptySet
<1>8. Cardinality(A \cup B) = 2^n + 2^n - 0
  BY <1>4, <1>6, <1>7, FS_Union
<1>9. n + 1 \in Nat OBVIOUS
<1>10. Cardinality(A \cup B) = 2^(n + 1)
  BY <1>2, <1>9, PowerCounts
<1> QED BY <1>8, <1>10, PowerPositive

(* A set of numbers has a least one.                                       *)
LEMMA LeastNumber ==
  ASSUME NEW T \in SUBSET Nat, T # {}
  PROVE  \E x \in T : \A y \in T : x <= y
<1> DEFINE Less == {ss \in Nat \X Nat : ss[1] < ss[2]}
<1>1. IsWellFoundedOn(Less, Nat)
  BY NatLessThanWellFounded DEF OpToRel
<1>2. PICK x \in T : \A y \in T : ~(<<y, x>> \in Less)
  BY <1>1, WFMin
<1>3. ASSUME NEW y \in T PROVE x <= y
  <2>1. x \in Nat /\ y \in Nat OBVIOUS
  <2>2. ~(<<y, x>> \in Less) BY <1>2
  <2>3. ~(y < x)
    <3>1. SUFFICES ASSUME y < x PROVE <<y, x>> \in Less
      BY <2>2
    <3>2. <<y, x>> \in Nat \X Nat /\ <<y, x>>[1] = y /\ <<y, x>>[2] = x BY <2>1
    <3> QED BY <3>1, <3>2
  <2> QED BY <2>1, <2>3
<1> QED BY <1>3
--------------------------------------------------------------------------------
(* What each check that was passed says of the call.                       *)
Sized == call.op = "decode" => call.bytes = Expected
Passed ==
  /\ at = "python" => call.python
  /\ at = "python size" => call.python /\ call.dim \in Dimensions
  /\ at \in {"pointers", "dimension"} => (call.python => call.dim \in Dimensions /\ Sized)
  /\ at \notin {"python", "python size", "pointers", "returned"} => ~call.null
  /\ at \in {"size", "values", "range", "store", "copy", "rotate"} => call.dim \in Dimensions
  /\ at \in {"size", "store"} => call.op # "rotate"
  /\ at \in {"range", "copy", "rotate"} => call.op = "rotate"
  /\ at = "values" => (call.op # "rotate" => Bytes = Expected) /\ call.bad \cap 1..(group - 1) = {}
  /\ at = "range" => call.bad = {}
  /\ at \in {"store", "copy", "rotate"} \/ status = "ok" => Fault(call) = "ok"

(* What is in the caller's buffer.                                         *)
Stored ==
  /\ at = "store" => group <= Groups + 1 /\ output = 1..(group - 1)
  /\ at = "rotate" \/ status = "ok" => output = 1..Groups
  /\ at \notin {"store", "rotate"} /\ status # "ok" => output = {}

Stages == {"python", "python size", "pointers", "dimension", "size", "values", "range",
           "store", "copy", "rotate", "returned"}

CallsTypeOK ==
  /\ call \in Calls /\ at \in Stages /\ group \in Nat \ {0}
  /\ status # "none" <=> at = "returned"

ChecksInv == CallsTypeOK /\ Passed /\ Stored

(* What the assumption says of one call.                                   *)
LEMMA CallFacts ==
  ASSUME NEW c \in Calls
  PROVE  /\ c.op \in {"encode", "decode", "rotate"}
         /\ c.dim \in Nat /\ c.bytes \in Nat /\ c.bad \subseteq 1..(c.dim \div GroupSize)
         /\ c.dim \div GroupSize \in Nat
         /\ c.python => ~c.null
         /\ c.op = "rotate" => c.x \in [0..(c.dim - 1) -> -FloatMax..FloatMax]
<1>1. GroupSize \in Nat \ {0} BY CallsAssumption
<1>2. {c.dim, c.bytes} \subseteq Nat BY CallsAssumption
<1>3. c.dim \in Nat BY <1>2
<1>4. c.dim \div GroupSize \in Nat BY <1>1, <1>3
<1> QED BY <1>2, <1>4, CallsAssumption

(* The first check is reached with an untouched buffer.                    *)
LEMMA ChecksInit == CallInit => ChecksInv
BY CallsAssumption DEF CallInit, ChecksInv, CallsTypeOK, Passed, Stored, Stages, Sized

(* Largest is a bound, and no more than any other.                         *)
LEMMA LargestIs ==
  ASSUME NEW x, NEW B \in Nat, \A j \in DOMAIN x : x[j] \in Int /\ -B <= x[j] /\ x[j] <= B
  PROVE  /\ Largest(x) \in Nat /\ Largest(x) <= B
         /\ \A j \in DOMAIN x : -Largest(x) <= x[j] /\ x[j] <= Largest(x)
<1> DEFINE Amount(y) == IF y < 0 THEN -y ELSE y
           V == {x[j] : j \in DOMAIN x}
           A == {Amount(y) : y \in V} \cup {0}
           T == {n \in Nat : \E a \in A : n = B - a}
<1>1. \A y \in Int : -B <= y /\ y <= B => Amount(y) \in 0..B
  BY SMT
<1>2. \A m \in Nat, y \in Int : Amount(y) <= m => -m <= y /\ y <= m
  BY SMT
<1>3. \A y \in V : y \in Int /\ Amount(y) \in 0..B
  BY <1>1
<1> HIDE DEF Amount
<1>4. A # {} /\ \A a \in A : a \in 0..B
  BY <1>3
<1>5. \A j \in DOMAIN x : x[j] \in Int /\ Amount(x[j]) \in A
  OBVIOUS
<1>6. Largest(x) = Max(A)
  BY DEF Largest, Amount
<1> HIDE DEF A
<1>7. \A a \in A : B - a \in T
  BY <1>4
<1>8. T # {} /\ T \in SUBSET Nat
  BY <1>4, <1>7
<1>9. PICK n \in T : \A y \in T : n <= y
  BY <1>8, LeastNumber
<1>10. PICK m \in A : n = B - m
  BY <1>9
<1>11. \A a \in A : a <= m
  BY <1>4, <1>7, <1>9, <1>10
<1>12. m \in A /\ \A a \in A : m >= a
  BY <1>4, <1>11
<1>13. Max(A) \in A /\ \A a \in A : Max(A) >= a
  BY <1>12 DEF Max
<1>14. Max(A) \in Nat /\ Max(A) <= B
  BY <1>4, <1>13
<1>15. \A j \in DOMAIN x : Amount(x[j]) <= Max(A)
  BY <1>4, <1>5, <1>13
<1> QED BY <1>2, <1>5, <1>6, <1>14, <1>15

(* The largest magnitude of a vector to rotate, and the test of its range. *)
LEMMA RangeTest ==
  ASSUME NEW c \in Calls, c.op = "rotate", c.dim \in Dimensions
  PROVE  /\ Largest(c.x) \in Nat /\ c.dim \in Nat \ {0}
         /\ \A j \in 0..(c.dim - 1) : c.x[j] \in Int /\ -Largest(c.x) <= c.x[j] /\ c.x[j] <= Largest(c.x)
         /\ Largest(c.x) > FloatMax \div c.dim <=> Largest(c.x) * c.dim > FloatMax
<1>1. FloatMax \in Nat /\ c.x \in [0..(c.dim - 1) -> -FloatMax..FloatMax]
  BY CallsAssumption, CallFacts
<1>2. DOMAIN c.x = 0..(c.dim - 1)
  BY <1>1
<1>3. \A j \in DOMAIN c.x : c.x[j] \in Int /\ -FloatMax <= c.x[j] /\ c.x[j] <= FloatMax
  <2>1. \A j \in DOMAIN c.x : c.x[j] \in -FloatMax..FloatMax BY <1>1
  <2>2. \A y \in -FloatMax..FloatMax : y \in Int /\ -FloatMax <= y /\ y <= FloatMax BY <1>1
  <2> QED BY <2>1, <2>2
<1>4. /\ Largest(c.x) \in Nat
      /\ \A j \in DOMAIN c.x : -Largest(c.x) <= c.x[j] /\ c.x[j] <= Largest(c.x)
  BY <1>1, <1>3, LargestIs
<1>5. c.dim \in Nat \ {0}
  <2>1. PICK k \in 0..c.dim : c.dim = 2^k BY CallsAssumption
  <2>2. k \in Nat BY CallFacts
  <2> QED BY <2>1, <2>2, PowerPositive
<1> QED BY <1>1, <1>2, <1>3, <1>4, <1>5, QuotientTest

(* No step changes the call, nor what is derived from it.                  *)
LEMMA CallKept ==
  ASSUME call' = call
  PROVE  /\ Groups' = Groups /\ Expected' = Expected /\ Bytes' = Bytes
         /\ Sized' = Sized /\ Fault(call)' = Fault(call)
BY DEF Groups, Expected, Bytes, Sized, Fault

(* A call that passed every check has no fault.                            *)
LEMMA NoFault ==
  ASSUME call \in Calls, ~call.null, call.dim \in Dimensions, call.bad = {}
  PROVE  /\ call.op # "rotate" /\ Bytes = Expected => Fault(call) = "ok"
         /\ call.op = "rotate" /\ ~(Largest(call.x) * call.dim > FloatMax) => Fault(call) = "ok"
BY DEF Fault, Bytes, Expected, Groups

(* A call is refused.                                                      *)
LEMMA Refused ==
  ASSUME ChecksInv, at \notin {"store", "rotate", "returned"},
         NEW s, s \notin {"ok", "none"}, Return(s)
  PROVE  ChecksInv'
<1>1. /\ at' = "returned" /\ status' = s /\ call' = call /\ output' = output /\ group' = group
      /\ status = "none" /\ output = {}
  BY DEF Return, ChecksInv, CallsTypeOK, Stored, loopVars
<1>2. Passed' BY <1>1, CallKept DEF Passed
<1>3. Stored' BY <1>1, CallKept DEF Stored
<1>4. CallsTypeOK' BY <1>1 DEF ChecksInv, CallsTypeOK, Stages
<1> QED BY <1>2, <1>3, <1>4 DEF ChecksInv

(* A call goes on to its next check.                                       *)
LEMMA WentOn ==
  ASSUME ChecksInv, at \notin {"store", "rotate", "returned"},
         NEW next, next \in Stages \ {"rotate", "returned"}, Pass(next), Passed'
  PROVE  ChecksInv'
<1>1. /\ at' = next /\ status' = "none" /\ call' = call /\ output' = {} /\ group' = 1
      /\ status = "none"
  BY DEF Pass, ChecksInv, CallsTypeOK, Stored, loopVars
<1>2. Groups \in Nat BY CallFacts DEF Groups, ChecksInv, CallsTypeOK
<1>3. Stored' BY <1>1, <1>2, CallKept DEF Stored
<1>4. CallsTypeOK'
  <2>1. next \in Stages /\ next # "returned" BY Zenon
  <2>2. call \in Calls BY DEF ChecksInv, CallsTypeOK
  <2> QED BY <1>1, <2>1, <2>2 DEF CallsTypeOK
<1> QED BY <1>3, <1>4 DEF ChecksInv

(* One lemma for each check and loop.                                      *)
LEMMA PythonSizeKeeps == ASSUME ChecksInv, PythonSize PROVE ChecksInv'
<1> USE DEF ChecksInv
<1>1. PICK here \in {"python", "python size"} :
        \/ here = "python" /\ Check(here, call.dim \notin Dimensions, "unsupported dimension", "python size")
        \/ here = "python size" /\ Check(here, call.op = "decode" /\ call.bytes # Expected, "buffer size", "pointers")
  BY DEF PythonSize
<1>2. at = here /\ at \notin {"store", "rotate", "returned"}
  BY <1>1 DEF Check
<1>3. CASE Return("unsupported dimension") \/ Return("buffer size")
  BY <1>2, <1>3, Refused
<1>4. CASE here = "python" /\ call.dim \in Dimensions /\ Pass("python size")
  <2>1. Passed' BY <1>2, <1>4, CallKept DEF Passed, Pass
  <2> QED BY <1>2, <1>4, <2>1, WentOn DEF Stages
<1>5. CASE here = "python size" /\ ~(call.op = "decode" /\ call.bytes # Expected) /\ Pass("pointers")
  <2>1. Passed' BY <1>2, <1>5, CallKept DEF Passed, Pass, Sized
  <2> QED BY <1>2, <1>5, <2>1, WentOn DEF Stages
<1> QED BY <1>1, <1>3, <1>4, <1>5 DEF Check

LEMMA PointersKeep == ASSUME ChecksInv, Pointers PROVE ChecksInv'
<1>1. at = "pointers" BY DEF Pointers, Check
<1>2. CASE Return("invalid argument") BY <1>1, <1>2, Refused
<1>3. CASE ~call.null /\ Pass("dimension")
  <2>1. Passed' BY <1>1, <1>3, CallKept DEF ChecksInv, Passed, Pass
  <2> QED BY <1>1, <1>3, <2>1, WentOn DEF Stages
<1> QED BY <1>2, <1>3 DEF Pointers, Check

LEMMA DimensionKeeps == ASSUME ChecksInv, Dimension PROVE ChecksInv'
<1>1. at = "dimension" BY DEF Dimension, Check
<1>2. CASE Return("unsupported dimension") BY <1>1, <1>2, Refused
<1>3. CASE call.dim \in Dimensions /\ Pass(IF call.op = "rotate" THEN "values" ELSE "size")
  <2>1. CASE call.op = "rotate"
    <3>1. Pass("values") /\ 1..(1 - 1) = {} BY <1>3, <2>1
    <3>2. Passed' BY <1>1, <1>3, <2>1, <3>1, CallKept DEF ChecksInv, Passed, Pass
    <3> QED BY <1>1, <3>1, <3>2, WentOn DEF Stages
  <2>2. CASE call.op # "rotate"
    <3>1. Pass("size") BY <1>3, <2>2
    <3>2. Passed' BY <1>1, <1>3, <2>2, <3>1, CallKept DEF ChecksInv, Passed, Pass
    <3> QED BY <1>1, <3>1, <3>2, WentOn DEF Stages
  <2> QED BY <2>1, <2>2
<1> QED BY <1>2, <1>3 DEF Dimension, Check

LEMMA SizeKeeps == ASSUME ChecksInv, Size PROVE ChecksInv'
<1>1. at = "size" BY DEF Size, Check
<1>2. CASE Return("buffer size") BY <1>1, <1>2, Refused
<1>3. CASE Bytes = Expected /\ Pass("values")
  <2>1. 1..(1 - 1) = {} OBVIOUS
  <2>2. Passed' BY <1>1, <1>3, <2>1, CallKept DEF ChecksInv, Passed, Pass
  <2> QED BY <1>1, <1>3, <2>2, WentOn DEF Stages
<1> QED BY <1>2, <1>3 DEF Size, Check

LEMMA ValuesKeep == ASSUME ChecksInv, Values PROVE ChecksInv'
<1>1. at = "values" /\ call \in Calls /\ group \in Nat \ {0} /\ status = "none"
  BY DEF Values, ChecksInv, CallsTypeOK
<1>2. Groups \in Nat /\ call.bad \subseteq 1..Groups
  BY <1>1, CallFacts DEF Groups
<1>3. ~call.null /\ call.dim \in Dimensions /\ (call.op # "rotate" => Bytes = Expected)
      /\ call.bad \cap 1..(group - 1) = {}
  BY <1>1 DEF ChecksInv, Passed
<1>4. CASE Return("malformed encoding") \/ Return("non-finite input")
  BY <1>1, <1>4, Refused
<1>5. CASE group > Groups /\ Pass(IF call.op = "rotate" THEN "range" ELSE "store")
  <2>1. 1..Groups \subseteq 1..(group - 1) BY <1>1, <1>2, <1>5
  <2>2. call.bad = {} BY <1>2, <1>3, <2>1
  <2>3. CASE call.op = "rotate"
    <3>1. Pass("range") BY <1>5, <2>3
    <3>2. Passed' BY <1>1, <1>3, <2>2, <2>3, <3>1, CallKept DEF ChecksInv, Passed, Pass
    <3> QED BY <1>1, <3>1, <3>2, WentOn DEF Stages
  <2>4. CASE call.op # "rotate"
    <3>1. Pass("store") BY <1>5, <2>4
    <3>2. Fault(call) = "ok" BY <1>1, <1>3, <2>2, <2>4, NoFault
    <3>3. Passed' BY <1>1, <1>3, <2>4, <3>1, <3>2, CallKept DEF ChecksInv, Passed, Pass
    <3> QED BY <1>1, <3>1, <3>3, WentOn DEF Stages
  <2> QED BY <2>3, <2>4
<1>6. CASE group \notin call.bad /\ group' = group + 1 /\ UNCHANGED <<at, call, output, loopVars, status>>
  <2>1. 1..(group' - 1) = 1..(group - 1) \cup {group} BY <1>1, <1>6
  <2>2. call.bad \cap 1..(group' - 1) = {} BY <1>3, <1>6, <2>1
  <2>3. Passed' BY <1>1, <1>3, <1>6, <2>2, CallKept DEF ChecksInv, Passed
  <2>4. Stored' BY <1>1, <1>6, CallKept DEF ChecksInv, Stored
  <2>5. CallsTypeOK' BY <1>1, <1>6 DEF ChecksInv, CallsTypeOK
  <2> QED BY <2>3, <2>4, <2>5 DEF ChecksInv
<1> QED BY <1>4, <1>5, <1>6 DEF Values

LEMMA RangeKeeps == ASSUME ChecksInv, RangeIsSafe PROVE ChecksInv'
<1>1. at = "range" /\ call \in Calls /\ status = "none"
  BY DEF RangeIsSafe, Check, ChecksInv, CallsTypeOK
<1>2. ~call.null /\ call.dim \in Dimensions /\ call.op = "rotate" /\ call.bad = {}
  BY <1>1 DEF ChecksInv, Passed
<1>3. CASE Return("value out of range") BY <1>1, <1>3, Refused
<1>4. CASE ~(Largest(call.x) > FloatMax \div call.dim) /\ Pass("copy")
  <2>1. Fault(call) = "ok" BY <1>1, <1>2, <1>4, RangeTest, NoFault
  <2>2. Passed' BY <1>1, <1>2, <1>4, <2>1, CallKept DEF ChecksInv, Passed, Pass
  <2> QED BY <1>1, <1>4, <2>2, WentOn DEF Stages
<1> QED BY <1>3, <1>4 DEF RangeIsSafe, Check

LEMMA StoreKeeps == ASSUME ChecksInv, Store PROVE ChecksInv'
<1>1. /\ at = "store" /\ call \in Calls /\ group \in Nat \ {0} /\ status = "none"
      /\ group <= Groups + 1 /\ output = 1..(group - 1) /\ Fault(call) = "ok"
  BY DEF Store, ChecksInv, CallsTypeOK, Stored, Passed
<1>2. Groups \in Nat
  BY <1>1, CallFacts DEF Groups
<1>3. CASE group > Groups /\ Return("ok")
  <2>1. output = 1..Groups BY <1>1, <1>2, <1>3
  <2>2. /\ at' = "returned" /\ status' = "ok" /\ call' = call /\ output' = output /\ group' = group
    BY <1>3 DEF Return
  <2>3. Passed' BY <1>1, <2>2, CallKept DEF Passed
  <2>4. Stored' BY <2>1, <2>2, CallKept DEF Stored
  <2>5. CallsTypeOK' BY <1>1, <2>2 DEF ChecksInv, CallsTypeOK, Stages
  <2> QED BY <2>3, <2>4, <2>5 DEF ChecksInv
<1>4. CASE group <= Groups /\ output' = output \cup {group} /\ group' = group + 1
           /\ UNCHANGED <<at, call, loopVars, status>>
  <2>1. output' = 1..(group' - 1) /\ group' <= Groups + 1 BY <1>1, <1>2, <1>4
  <2>2. Passed' BY <1>1, <1>4, CallKept DEF ChecksInv, Passed
  <2>3. Stored' BY <1>1, <1>4, <2>1, CallKept DEF Stored
  <2>4. CallsTypeOK' BY <1>1, <1>4 DEF ChecksInv, CallsTypeOK
  <2> QED BY <2>2, <2>3, <2>4 DEF ChecksInv
<1> QED BY <1>1, <1>2, <1>3, <1>4 DEF Store

LEMMA CopyKeeps == ASSUME ChecksInv, Copy PROVE ChecksInv'
<1>1. /\ at = "copy" /\ call \in Calls /\ status = "none" /\ Fault(call) = "ok"
      /\ at' = "rotate" /\ output' = 1..Groups /\ call' = call /\ group' = group /\ status' = status
  BY DEF Copy, ChecksInv, CallsTypeOK, Passed
<1>2. Passed' BY <1>1, CallKept DEF ChecksInv, Passed
<1>3. Stored' BY <1>1, CallKept DEF Stored
<1>4. CallsTypeOK' BY <1>1 DEF ChecksInv, CallsTypeOK, Stages
<1> QED BY <1>2, <1>3, <1>4 DEF ChecksInv

LEMMA RotateKeeps == ASSUME ChecksInv, Rotate PROVE ChecksInv'
<1>1. /\ at = "rotate" /\ call \in Calls /\ status = "none" /\ Fault(call) = "ok" /\ output = 1..Groups
      /\ call' = call /\ output' = output /\ group' = group
      /\ (at' = at /\ status' = status) \/ (at' = "returned" /\ status' = "ok")
  BY DEF Rotate, Return, ChecksInv, CallsTypeOK, Passed, Stored
<1>2. Passed' BY <1>1, CallKept DEF ChecksInv, Passed
<1>3. Stored' BY <1>1, CallKept DEF Stored
<1>4. CallsTypeOK' BY <1>1 DEF ChecksInv, CallsTypeOK, Stages
<1> QED BY <1>2, <1>3, <1>4 DEF ChecksInv

LEMMA ChecksStep == ChecksInv /\ [CallNext]_callVars => ChecksInv'
<1>1. SUFFICES ASSUME ChecksInv, [CallNext]_callVars PROVE ChecksInv'
  OBVIOUS
<1>2. CASE UNCHANGED callVars
  BY <1>1, <1>2, CallKept DEF callVars, ChecksInv, CallsTypeOK, Passed, Stored
<1> QED BY <1>1, <1>2, PythonSizeKeeps, PointersKeep, DimensionKeeps, SizeKeeps, ValuesKeep,
     RangeKeeps, StoreKeeps, CopyKeeps, RotateKeeps DEF CallNext

LEMMA ChecksHold == ChecksInv => AllOrNothing
BY DEF ChecksInv, CallsTypeOK, Passed, Stored, AllOrNothing

(* Whatever group of a call is at fault and whichever check finds it, the  *)
(* caller's buffer is written to only by a call without any fault, and     *)
(* then in full (codec.cpp:64-72, :85-108, :120-126; native.py:59-83).     *)
THEOREM CallsAreAllOrNothing == CallSpec => []AllOrNothing
BY ChecksInit, ChecksStep, ChecksHold, PTL DEF CallSpec
--------------------------------------------------------------------------------
(* The rotation.                                                           *)
IsPower(q) == \E k \in Nat : q = 2^k

(* The pairs combined at the present width.                                *)
Done(j) ==
  \/ j < base
  \/ base <= j /\ j < base + offset
  \/ base + width <= j /\ j < base + width + offset

(* Where the loops stand: the blocks of a width divide the dimension.      *)
Aligned ==
  \E q, m \in Nat :
    /\ IsPower(q) /\ call.dim = width * q /\ base = (2 * width) * m
    /\ width < call.dim => base + 2 * width <= call.dim /\ offset < width
    /\ width >= call.dim => base = 0 /\ offset = 0

(* Each pass over a width at most doubles a magnitude.                     *)
Bounded ==
  \A j \in 0..(call.dim - 1) :
    /\ row[j] \in Int
    /\ ~Done(j) => -(width * Largest(call.x)) <= row[j] /\ row[j] <= width * Largest(call.x)
    /\ Done(j) => -((2 * width) * Largest(call.x)) <= row[j] /\ row[j] <= (2 * width) * Largest(call.x)

RotationInv ==
  /\ ChecksInv
  /\ {width, base, offset} \subseteq Nat /\ width # 0
  /\ at \notin {"rotate", "returned"} => row = <<>> /\ width = 1 /\ base = 0 /\ offset = 0
  /\ at = "rotate" => DOMAIN row = 0..(call.dim - 1) /\ Aligned /\ Bounded
  /\ NoOverflow

(* A power of two other than one is twice another.                         *)
LEMMA HalfPower ==
  ASSUME NEW q \in Nat, IsPower(q), q # 1
  PROVE  \E p \in Nat \ {0} : IsPower(p) /\ q = 2 * p
<1>1. PICK k \in Nat : q = 2^k BY DEF IsPower
<1>2. k # 0
  <2>1. 2^0 = 1 OBVIOUS
  <2> QED BY <1>1, <2>1
<1>3. PICK i \in Nat : k = i + 1
  <2>1. k - 1 \in Nat /\ k = (k - 1) + 1 BY <1>2
  <2> QED BY <2>1
<1>4. 2^k = 2 * 2^i /\ 2^i \in Nat \ {0} BY <1>3, PowerNext, PowerPositive
<1> QED BY <1>1, <1>4 DEF IsPower

(* Before the copy there is nothing to bound.                              *)
LEMMA EmptyRow == Largest(<<>>) <= FloatMax
<1>1. FloatMax \in Nat BY CallsAssumption
<1>2. \A j \in DOMAIN <<>> : <<>>[j] \in Int /\ -0 <= <<>>[j] /\ <<>>[j] <= 0
  OBVIOUS
<1>3. Largest(<<>>) \in Nat /\ Largest(<<>>) <= 0 BY <1>2, LargestIs
<1> QED BY <1>1, <1>3

LEMMA RotationInit == CallInit => RotationInv
<1>1. SUFFICES ASSUME CallInit PROVE RotationInv OBVIOUS
<1>2. ChecksInv BY <1>1, ChecksInit
<1>3. NoOverflow BY <1>1, EmptyRow DEF CallInit, NoOverflow
<1> QED BY <1>1, <1>2, <1>3 DEF CallInit, RotationInv

(* The invariant in the midst of the loops.                                *)
Rotating ==
  /\ ChecksInv /\ at = "rotate"
  /\ {width, base, offset} \subseteq Nat /\ width # 0
  /\ DOMAIN row = 0..(call.dim - 1) /\ Aligned /\ Bounded

(* While the loops run every magnitude is at most that of the result.      *)
LEMMA RowFits == Rotating => NoOverflow
<1> SUFFICES ASSUME Rotating PROVE NoOverflow OBVIOUS
<1> USE DEF Rotating
<1>1. call \in Calls /\ call.op = "rotate" /\ call.dim \in Dimensions /\ Fault(call) = "ok"
  BY DEF ChecksInv, CallsTypeOK, Passed
<1>2. FloatMax \in Nat /\ call.dim \in Nat \ {0} /\ Largest(call.x) \in Nat
  BY <1>1, RangeTest, CallsAssumption
<1>3. Largest(call.x) * call.dim <= FloatMax
  BY <1>1, <1>2 DEF Fault
<1> DEFINE M == Largest(call.x)
<1>4. PICK q \in Nat : IsPower(q) /\ call.dim = width * q
                       /\ (width >= call.dim => base = 0 /\ offset = 0)
  BY DEF Aligned
<1> HIDE DEF M
<1>5. ASSUME NEW c \in Nat, c <= call.dim PROVE c * M \in Nat /\ c * M <= FloatMax
  <2>1. PICK e \in Nat : call.dim = c + e
    <3>1. call.dim - c \in Nat /\ call.dim = c + (call.dim - c) BY <1>2, <1>5
    <3> QED BY <3>1
  <2>2. M \in Nat /\ M * call.dim <= FloatMax BY <1>2, <1>3 DEF M
  <2>3. M * (c + e) = c * M + e * M /\ c * M \in Nat /\ e * M \in Nat BY <2>2
  <2> QED BY <1>2, <2>1, <2>2, <2>3
<1>6. width <= call.dim
  <2>1. q # 0 BY <1>2, <1>4
  <2>2. PICK p \in Nat : q = p + 1
    <3>1. q - 1 \in Nat /\ q = (q - 1) + 1 BY <2>1
    <3> QED BY <3>1
  <2>3. width * (p + 1) = width * p + width /\ width * p \in Nat OBVIOUS
  <2> QED BY <1>4, <2>2, <2>3
<1>7. \A j \in DOMAIN row : row[j] \in Int /\ -FloatMax <= row[j] /\ row[j] <= FloatMax
  <2>1. TAKE j \in DOMAIN row
  <2>2. CASE ~Done(j)
    <3>1. width * M \in Nat /\ width * M <= FloatMax BY <1>5, <1>6
    <3>2. row[j] \in Int /\ -(width * M) <= row[j] /\ row[j] <= width * M
      BY <2>2 DEF Bounded, M
    <3> QED BY <1>2, <3>1, <3>2
  <2>3. CASE Done(j)
    <3>1. width < call.dim
      <4>1. j \in Nat BY <1>2
      <4>2. ~(width >= call.dim) BY <1>4, <2>3, <4>1 DEF Done
      <4> QED BY <1>2, <4>2
    <3>2. q # 1 BY <1>4, <3>1
    <3>3. PICK p \in Nat \ {0} : q = 2 * p BY <1>4, <3>2, HalfPower
    <3>4. width * (2 * p) = (2 * width) * p BY <3>3
    <3>5. 2 * width <= (2 * width) * p
      <4>1. PICK e \in Nat : p = e + 1
        <5>1. p - 1 \in Nat /\ p = (p - 1) + 1 OBVIOUS
        <5> QED BY <5>1
      <4>2. (2 * width) * (e + 1) = (2 * width) * e + 2 * width /\ (2 * width) * e \in Nat OBVIOUS
      <4> QED BY <4>1, <4>2
    <3>6. 2 * width <= call.dim /\ 2 * width \in Nat BY <1>4, <3>3, <3>4, <3>5
    <3>7. (2 * width) * M \in Nat /\ (2 * width) * M <= FloatMax BY <1>5, <3>6
    <3>8. row[j] \in Int /\ -((2 * width) * M) <= row[j] /\ row[j] <= (2 * width) * M
      BY <2>3 DEF Bounded, M
    <3> QED BY <1>2, <3>7, <3>8
  <2> QED BY <2>2, <2>3
<1>8. Largest(row) <= FloatMax BY <1>2, <1>7, LargestIs
<1> QED BY <1>8 DEF NoOverflow

(* The copy of the input starts at width one.                              *)
LEMMA CopyBounds == ASSUME RotationInv, Copy PROVE RotationInv'
<1>1. /\ at = "copy" /\ at' = "rotate" /\ row' = call.x /\ call' = call
      /\ width = 1 /\ base = 0 /\ offset = 0 /\ width' = 1 /\ base' = 0 /\ offset' = 0
      /\ call \in Calls /\ ChecksInv
  BY DEF RotationInv, Copy, ChecksInv, CallsTypeOK
<1>2. call.op = "rotate" /\ call.dim \in Dimensions BY <1>1 DEF ChecksInv, Passed
<1>3. /\ call.dim \in Nat \ {0} /\ Largest(call.x) \in Nat
      /\ \A j \in 0..(call.dim - 1) : call.x[j] \in Int /\ -Largest(call.x) <= call.x[j] /\ call.x[j] <= Largest(call.x)
  BY <1>1, <1>2, RangeTest
<1>4. DOMAIN call.x = 0..(call.dim - 1) BY <1>1, <1>2, CallFacts
<1>5. IsPower(call.dim)
  <2>1. PICK k \in 0..call.dim : call.dim = 2^k BY <1>2, CallsAssumption
  <2> QED BY <1>3, <2>1 DEF IsPower
<1>6. Aligned'
  <2>1. /\ call.dim = 1 * call.dim /\ 0 = (2 * 1) * 0 /\ 0 \in Nat
        /\ 1 < call.dim => 0 + 2 * 1 <= call.dim /\ 0 < 1
    BY <1>3
  <2> QED BY <1>1, <1>3, <1>5, <2>1 DEF Aligned
<1>7. Bounded'
  <2>1. SUFFICES ASSUME NEW j \in 0..(call.dim - 1)
                 PROVE  /\ call.x[j] \in Int
                        /\ -(1 * Largest(call.x)) <= call.x[j] /\ call.x[j] <= 1 * Largest(call.x)
                        /\ -((2 * 1) * Largest(call.x)) <= call.x[j] /\ call.x[j] <= (2 * 1) * Largest(call.x)
    BY <1>1 DEF Bounded
  <2>2. \A y \in Int, n \in Nat : -n <= y /\ y <= n =>
          -(1 * n) <= y /\ y <= 1 * n /\ -((2 * 1) * n) <= y /\ y <= (2 * 1) * n
    OBVIOUS
  <2> QED BY <1>3, <2>2
<1>8. ChecksInv' BY <1>1, CopyKeeps
<1>9. DOMAIN row' = 0..(call'.dim - 1) BY <1>1, <1>4
<1>10. NoOverflow'
  <2>1. Rotating' BY <1>1, <1>6, <1>7, <1>8, <1>9 DEF Rotating
  <2> QED BY <2>1, RowFits, PTL
<1> QED BY <1>1, <1>6, <1>7, <1>8, <1>9, <1>10 DEF RotationInv

(* One butterfly and the loop variables after it.                          *)
LEMMA ButterflyBounds ==
  ASSUME RotationInv, Rotate, width < call.dim
  PROVE  DOMAIN row' = 0..(call.dim - 1) /\ Aligned' /\ Bounded' /\ {width', base', offset'} \subseteq Nat /\ width' # 0
<1>1. /\ at = "rotate" /\ call \in Calls /\ call' = call /\ ChecksInv
      /\ width \in Nat \ {0} /\ base \in Nat /\ offset \in Nat
      /\ DOMAIN row = 0..(call.dim - 1) /\ Aligned /\ Bounded
  BY DEF RotationInv, Rotate, Return, ChecksInv, CallsTypeOK
<1>2. call.op = "rotate" /\ call.dim \in Dimensions BY <1>1 DEF ChecksInv, Passed
<1>3. call.dim \in Nat \ {0} /\ Largest(call.x) \in Nat BY <1>1, <1>2, RangeTest
<1>4. row' = Butterfly(base + offset, base + width + offset) /\ Loops
  BY <1>1, <1>3 DEF Rotate
<1>5. PICK q, m \in Nat : IsPower(q) /\ call.dim = width * q /\ base = (2 * width) * m
                          /\ base + 2 * width <= call.dim /\ offset < width
  BY <1>1 DEF Aligned
<1>6. q # 1
  <2>1. width * 1 = width BY <1>1
  <2> QED BY <1>1, <1>3, <1>5, <2>1
<1>7. PICK p \in Nat \ {0} : IsPower(p) /\ q = 2 * p BY <1>5, <1>6, HalfPower
<1>8. call.dim = (2 * width) * p
  <2>1. width * (2 * p) = (2 * width) * p BY <1>1, <1>7
  <2> QED BY <1>5, <1>7, <2>1
<1> DEFINE d == call.dim
           M == Largest(call.x)
           l == base + offset
           r == base + width + offset
           V == width * M
<1>9. l \in 0..(d - 1) /\ r \in 0..(d - 1) /\ l # r /\ ~Done(l) /\ ~Done(r)
  BY <1>1, <1>3, <1>5 DEF Done
<1>10. V \in Nat /\ (2 * width) * M = 2 * V
  BY <1>1, <1>3
<1>11. \A j \in 0..(d - 1) : row[j] \in Int
  BY <1>1 DEF Bounded
<1>12. \A j \in 0..(d - 1) : ~Done(j) => -V <= row[j] /\ row[j] <= V
  BY <1>1 DEF Bounded
<1>13. \A j \in 0..(d - 1) : Done(j) => -(2 * V) <= row[j] /\ row[j] <= 2 * V
  BY <1>1, <1>10 DEF Bounded
<1>14. DOMAIN row' = 0..(d - 1)
  BY <1>1, <1>4 DEF Butterfly
<1>15. \A j \in 0..(d - 1) : row'[j] = IF j = r THEN row[l] - row[r] ELSE IF j = l THEN row[l] + row[r] ELSE row[j]
  BY <1>1, <1>4, <1>9 DEF Butterfly
<1> HIDE DEF V, l, r, M
<1>16. \A j \in 0..(d - 1) : row'[j] \in Int /\ -(2 * V) <= row'[j] /\ row'[j] <= 2 * V
  <2>1. TAKE j \in 0..(d - 1)
  <2>2. CASE j \in {l, r}
    <3>1. row[l] \in Int /\ row[r] \in Int /\ -V <= row[l] /\ row[l] <= V /\ -V <= row[r] /\ row[r] <= V
      BY <1>9, <1>11, <1>12
    <3> QED BY <1>9, <1>10, <1>15, <2>2, <3>1
  <2>3. CASE j \notin {l, r}
    <3>1. row'[j] = row[j] /\ row[j] \in Int BY <1>11, <1>15, <2>3
    <3>2. CASE Done(j) BY <1>13, <3>1, <3>2
    <3>3. CASE ~Done(j)
      <4>1. -V <= row[j] /\ row[j] <= V BY <1>12, <3>3
      <4> QED BY <1>10, <3>1, <4>1
    <3> QED BY <3>2, <3>3
  <2> QED BY <2>2, <2>3
<1>17. \A j \in 0..(d - 1) : ~Done(j) /\ j \notin {l, r} => -V <= row'[j] /\ row'[j] <= V
  BY <1>12, <1>15
<1>18. (2 * width) * M = 2 * V /\ width * M = V BY <1>10 DEF V
<1>19. CASE offset + 1 < width
  <2>1. offset' = offset + 1 /\ base' = base /\ width' = width
    BY <1>4, <1>19 DEF Loops
  <2>2. \A j \in 0..(d - 1) : ~Done(j)' => ~Done(j) /\ j \notin {l, r}
    BY <1>1, <1>3, <2>1 DEF Done, l, r
  <2>3. Bounded'
    BY <1>1, <1>16, <1>17, <1>18, <2>1, <2>2 DEF Bounded, M
  <2>4. Aligned'
    <3>1. call'.dim = width' * q /\ base' = (2 * width') * m BY <1>1, <1>5, <2>1
    <3>2. base' + 2 * width' <= call'.dim /\ offset' < width' BY <1>1, <1>5, <1>19, <2>1
    <3>3. ~(width' >= call'.dim) BY <1>1, <1>3, <2>1
    <3> QED BY <1>5, <3>1, <3>2, <3>3, Zenon DEF Aligned
  <2> QED BY <1>1, <1>14, <2>1, <2>3, <2>4
<1>20. CASE ~(offset + 1 < width) /\ base + 2 * width < call.dim
  <2>1. offset' = 0 /\ base' = base + 2 * width /\ width' = width
    BY <1>4, <1>20 DEF Loops
  <2>2. \A j \in 0..(d - 1) : ~Done(j)' => ~Done(j) /\ j \notin {l, r}
    BY <1>1, <1>3, <1>5, <1>20, <2>1 DEF Done, l, r
  <2>3. Bounded'
    BY <1>1, <1>16, <1>17, <1>18, <2>1, <2>2 DEF Bounded, M
  <2>4. base' = (2 * width) * (m + 1) /\ m + 1 \in Nat
    <3>1. (2 * width) * (m + 1) = (2 * width) * m + 2 * width BY <1>1
    <3> QED BY <1>5, <2>1, <3>1
  <2>5. base' + 2 * width <= call.dim
    <3>1. m + 1 < p
      <4>1. SUFFICES ASSUME p <= m + 1 PROVE FALSE BY <1>7
      <4>2. PICK e \in Nat : m + 1 = p + e
        <5>1. (m + 1) - p \in Nat /\ m + 1 = p + ((m + 1) - p) BY <1>7, <4>1
        <5> QED BY <5>1
      <4>3. (2 * width) * (p + e) = (2 * width) * p + (2 * width) * e /\ (2 * width) * e \in Nat BY <1>1
      <4>4. base' \in Nat BY <1>1, <2>1
      <4> QED BY <1>3, <1>8, <1>20, <2>1, <2>4, <4>2, <4>3, <4>4
    <3>2. PICK e \in Nat : p = m + 2 + e
      <4>1. p - (m + 2) \in Nat /\ p = m + 2 + (p - (m + 2)) BY <3>1
      <4> QED BY <4>1
    <3>3. /\ (2 * width) * (m + 2 + e) = (2 * width) * (m + 1) + 2 * width + (2 * width) * e
          /\ (2 * width) * e \in Nat /\ (2 * width) * (m + 1) \in Nat
      BY <1>1
    <3> QED BY <1>1, <1>8, <2>4, <3>2, <3>3
  <2>6. Aligned'
    <3>1. 0 < width' BY <1>1, <2>1
    <3>2. call'.dim = width' * q /\ base' = (2 * width') * (m + 1) BY <1>1, <1>5, <2>1, <2>4
    <3>3. base' + 2 * width' <= call'.dim /\ offset' < width' BY <1>1, <2>1, <2>5, <3>1
    <3>4. ~(width' >= call'.dim) BY <1>1, <1>3, <2>1
    <3> DEFINE n == m + 1
    <3>5. n \in Nat /\ base' = (2 * width') * n BY <2>4, <3>2
    <3> HIDE DEF n
    <3> QED BY <1>5, <3>2, <3>3, <3>4, <3>5, Zenon DEF Aligned
  <2>7. base + 2 * width \in Nat /\ 0 \in Nat BY <1>1
  <2> QED BY <1>1, <1>14, <2>1, <2>3, <2>6, <2>7
<1>21. CASE ~(offset + 1 < width) /\ ~(base + 2 * width < call.dim)
  <2>1. offset' = 0 /\ base' = 0 /\ width' = 2 * width
    BY <1>4, <1>21 DEF Loops
  <2>2. 2 * width \in Nat \ {0} BY <1>1
  <2>3. \A j \in 0..(d - 1) : ~Done(j)'
    BY <1>3, <2>1, <2>2 DEF Done
  <2>4. Bounded'
    <3>1. width' * Largest(call'.x) = 2 * V BY <1>1, <1>18, <2>1 DEF M
    <3> QED BY <1>1, <1>16, <2>3, <3>1 DEF Bounded
  <2>5. 0 = (2 * width') * 0 /\ 0 \in Nat BY <2>1, <2>2
  <2>6. width' < call.dim => 0 + 2 * width' <= call.dim /\ 0 < width'
    <3>1. SUFFICES ASSUME width' < call.dim PROVE 2 * width' <= call.dim BY <2>1, <2>2
    <3>2. p # 1
      <4>1. (2 * width) * 1 = 2 * width BY <1>1
      <4> QED BY <1>8, <2>1, <2>2, <3>1, <4>1
    <3>3. PICK s \in Nat \ {0} : p = 2 * s BY <1>7, <3>2, HalfPower
    <3>4. PICK e \in Nat : s = e + 1
      <4>1. s - 1 \in Nat /\ s = (s - 1) + 1 OBVIOUS
      <4> QED BY <4>1
    <3>5. (2 * width) * (2 * (e + 1)) = 2 * (2 * width) + (2 * width) * (2 * e) /\ (2 * width) * (2 * e) \in Nat
      BY <1>1
    <3>6. 2 * (2 * width) \in Nat BY <1>1
    <3> QED BY <1>8, <2>1, <3>3, <3>4, <3>5, <3>6
  <2>7. Aligned'
    <3>1. call'.dim = width' * p /\ base' = (2 * width') * 0 BY <1>1, <1>8, <2>1, <2>5
    <3>2. width' < call'.dim => base' + 2 * width' <= call'.dim /\ offset' < width'
      BY <1>1, <2>1, <2>6
    <3>3. p \in Nat /\ 0 \in Nat OBVIOUS
    <3> QED BY <1>7, <2>1, <3>1, <3>2, <3>3, Zenon DEF Aligned
  <2> QED BY <1>1, <1>14, <2>1, <2>2, <2>4, <2>7
<1> QED BY <1>19, <1>20, <1>21

(* One turn of the loops, or their end.                                    *)
LEMMA RotateBounds == ASSUME RotationInv, Rotate PROVE RotationInv'
<1>1. at = "rotate" /\ call \in Calls /\ ChecksInv /\ NoOverflow /\ call' = call /\ status = "none"
  BY DEF RotationInv, Rotate, Return, ChecksInv, CallsTypeOK
<1>2. ChecksInv' BY <1>1, RotateKeeps
<1>3. CASE width >= call.dim
  <2>1. at' = "returned" /\ row' = row /\ width' = width /\ base' = base /\ offset' = offset
    BY <1>3 DEF Rotate, Return, loopVars
  <2>2. NoOverflow' BY <1>1, <2>1 DEF NoOverflow
  <2> QED BY <1>2, <2>1, <2>2 DEF RotationInv
<1>4. CASE ~(width >= call.dim)
  <2>1. call.dim \in Nat BY <1>1, CallFacts
  <2>2. width < call.dim BY <1>4, <2>1 DEF RotationInv
  <2>3. at' = "rotate" BY <1>1, <1>4 DEF Rotate
  <2>4. Rotating' BY <1>1, <1>2, <2>2, <2>3, ButterflyBounds DEF Rotating
  <2>5. NoOverflow' BY <2>4, RowFits, PTL
  <2> QED BY <2>3, <2>4, <2>5 DEF RotationInv, Rotating
<1> QED BY <1>3, <1>4

LEMMA RotationStep == RotationInv /\ [CallNext]_callVars => RotationInv'
<1>1. SUFFICES ASSUME RotationInv, [CallNext]_callVars PROVE RotationInv'
  OBVIOUS
<1>2. ChecksInv' BY <1>1, ChecksStep DEF RotationInv
<1>3. CASE UNCHANGED callVars
  BY <1>1, <1>2, <1>3 DEF callVars, RotationInv, Aligned, Bounded, Done, NoOverflow
<1>4. CASE PythonSize \/ Pointers \/ Dimension \/ Size \/ Values \/ RangeIsSafe \/ Store
  <2>1. at \notin {"rotate", "returned"} /\ at' # "rotate" /\ UNCHANGED loopVars
    BY <1>4 DEF PythonSize, Pointers, Dimension, Size, Values, RangeIsSafe, Store, Check, Return, Pass
  <2>2. UNCHANGED <<row, width, base, offset>> BY <2>1 DEF loopVars
  <2> QED BY <1>1, <1>2, <2>1, <2>2 DEF RotationInv, NoOverflow
<1> QED BY <1>1, <1>3, <1>4, CopyBounds, RotateBounds DEF CallNext

(* For any dimension that is a power of two and any largest float, the     *)
(* test before a rotation bounds every sum of its loops, intermediate ones *)
(* included (codec.cpp:21-29, codec.h:130-142).                            *)
THEOREM SumsFit == CallSpec => []NoOverflow
<1>1. RotationInv => NoOverflow BY DEF RotationInv
<1> QED BY <1>1, RotationInit, RotationStep, PTL DEF CallSpec
--------------------------------------------------------------------------------
(* Sums, with induction over sets of numbers.                              *)

(* A set of numbers with 0 and, with each number, the next has them all.   *)
LEMMA ByInduction ==
  ASSUME NEW T \in SUBSET Nat, 0 \in T, \A n \in T : n + 1 \in T
  PROVE  T = Nat
<1>1. SUFFICES ASSUME Nat \ T # {} PROVE FALSE
  OBVIOUS
<1>2. PICK x \in Nat \ T : \A y \in Nat \ T : x <= y
  BY <1>1, LeastNumber
<1>3. x # 0 /\ x \in Nat OBVIOUS
<1>4. x - 1 \in Nat /\ (x - 1) + 1 = x /\ ~(x <= x - 1) BY <1>3
<1>5. x - 1 \in T BY <1>2, <1>4
<1> QED BY <1>4, <1>5

(* What makes a function the partial sums of f up to n.                    *)
Sums(s, f, n) == s = [k \in 0..n |-> IF k = 0 THEN 0 ELSE s[k - 1] + f[k - 1]]

(* There are partial sums of any length, and they agree where both exist.  *)
LEMMA SumsExist ==
  ASSUME NEW f, NEW n \in Nat
  PROVE  \E s : Sums(s, f, n)
<1> DEFINE T == {m \in Nat : \E s : Sums(s, f, m)}
<1>1. 0 \in T
  <2> DEFINE s == [k \in 0..0 |-> 0]
  <2>1. Sums(s, f, 0) BY DEF Sums
  <2> QED BY <2>1
<1>2. ASSUME NEW m \in T PROVE m + 1 \in T
  <2>1. PICK s : Sums(s, f, m) OBVIOUS
  <2> DEFINE g == [k \in 0..(m + 1) |-> IF k = m + 1 THEN s[m] + f[m] ELSE s[k]]
             h == [k \in 0..(m + 1) |-> IF k = 0 THEN 0 ELSE g[k - 1] + f[k - 1]]
  <2>2. m \in Nat OBVIOUS
  <2>3. ASSUME NEW k \in 0..(m + 1) PROVE g[k] = h[k]
    <3>1. CASE k = 0
      <4>1. s[0] = 0 BY <2>1, <2>2 DEF Sums
      <4> QED BY <2>2, <3>1, <4>1
    <3>2. CASE k = m + 1
      <4>1. g[m] = s[m] /\ k - 1 = m BY <2>2, <3>2
      <4> QED BY <2>2, <3>2, <4>1
    <3>3. CASE k # 0 /\ k # m + 1
      <4>1. k \in 0..m /\ k - 1 \in 0..(m + 1) /\ k - 1 # m + 1 BY <2>2, <3>3
      <4>2. s[k] = s[k - 1] + f[k - 1] BY <2>1, <3>3, <4>1 DEF Sums
      <4> QED BY <3>3, <4>1, <4>2
    <3> QED BY <3>1, <3>2, <3>3
  <2>4. g = h BY <2>3
  <2>5. Sums(g, f, m + 1) BY <2>4 DEF Sums
  <2> HIDE DEF g, h
  <2> QED BY <2>2, <2>5
<1>3. T = Nat
  <2> HIDE DEF T
  <2>1. T \in SUBSET Nat BY DEF T
  <2> QED BY <1>1, <1>2, <2>1, ByInduction
<1> QED BY <1>3

LEMMA SumsAgree ==
  ASSUME NEW f, NEW n \in Nat, NEW m \in Nat, n <= m,
         NEW s, Sums(s, f, n), NEW t, Sums(t, f, m)
  PROVE  s[n] = t[n]
<1> DEFINE T == {k \in Nat : k <= n => s[k] = t[k]}
<1>1. 0 \in T BY DEF Sums
<1>2. ASSUME NEW k \in T PROVE k + 1 \in T
  <2>1. SUFFICES ASSUME k + 1 <= n PROVE s[k + 1] = t[k + 1] OBVIOUS
  <2>2. k \in Nat /\ k <= n /\ s[k] = t[k] BY <2>1
  <2>3. k + 1 \in 0..n /\ k + 1 \in 0..m /\ k + 1 # 0 /\ (k + 1) - 1 = k BY <2>1, <2>2
  <2>4. s[k + 1] = s[k] + f[k] BY <2>3 DEF Sums
  <2>5. t[k + 1] = t[k] + f[k] BY <2>3 DEF Sums
  <2> QED BY <2>2, <2>4, <2>5
<1>3. T = Nat
  <2> HIDE DEF T
  <2>1. T \in SUBSET Nat BY DEF T
  <2> QED BY <1>1, <1>2, <2>1, ByInduction
<1> QED BY <1>3

(* The recursive definition of SumTo adds one number after the other.      *)
LEMMA SumNext ==
  ASSUME NEW f, NEW n \in Nat
  PROVE  SumTo(f, 0) = 0 /\ SumTo(f, n + 1) = SumTo(f, n) + f[n]
<1> DEFINE S(m) == CHOOSE s : s = [k \in 0..m |-> IF k = 0 THEN 0 ELSE s[k - 1] + f[k - 1]]
<1>1. ASSUME NEW m \in Nat PROVE Sums(S(m), f, m) /\ SumTo(f, m) = S(m)[m]
  <2>1. Sums(S(m), f, m) BY SumsExist DEF Sums
  <2> QED BY <2>1 DEF SumTo
<1> HIDE DEF S
<1>2. n + 1 \in Nat /\ n <= n + 1 /\ 0 \in Nat OBVIOUS
<1>3. S(n)[n] = S(n + 1)[n] BY <1>1, <1>2, SumsAgree
<1>4. S(n + 1)[n + 1] = S(n + 1)[n] + f[n]
  <2>1. n + 1 \in 0..(n + 1) /\ n + 1 # 0 /\ (n + 1) - 1 = n OBVIOUS
  <2>2. Sums(S(n + 1), f, n + 1) BY <1>1, <1>2
  <2> QED BY <2>1, <2>2 DEF Sums
<1>5. S(0)[0] = 0
  <2>1. Sums(S(0), f, 0) BY <1>1, <1>2
  <2> QED BY <2>1 DEF Sums
<1> QED BY <1>1, <1>2, <1>3, <1>4, <1>5

(* Sums of integers are integers, and depend on the numbers only.          *)
LEMMA SumTypes ==
  ASSUME NEW f, NEW n \in Nat, \A j \in 0..(n - 1) : f[j] \in Int
  PROVE  SumTo(f, n) \in Int
<1> DEFINE T == {m \in Nat : m <= n => SumTo(f, m) \in Int}
<1>1. 0 \in T BY SumNext
<1>2. ASSUME NEW m \in T PROVE m + 1 \in T
  <2>1. SUFFICES ASSUME m + 1 <= n PROVE SumTo(f, m + 1) \in Int OBVIOUS
  <2>2. m \in Nat /\ m <= n /\ SumTo(f, m) \in Int /\ m \in 0..(n - 1) BY <2>1
  <2>3. f[m] \in Int BY <2>2
  <2> QED BY <2>2, <2>3, SumNext
<1>3. T = Nat
  <2> HIDE DEF T
  <2>1. T \in SUBSET Nat BY DEF T
  <2> QED BY <1>1, <1>2, <2>1, ByInduction
<1> QED BY <1>3

(* h is f followed by s times g, and h is f plus s times g.               *)
Joined(f, g, h, n, s) ==
  \A j \in 0..(n - 1) : h[j] = f[j] /\ h[n + j] = s * g[j] /\ f[j] \in Int /\ g[j] \in Int
Added(f, g, h, n, s) ==
  \A j \in 0..(n - 1) : h[j] = f[j] + s * g[j] /\ f[j] \in Int /\ g[j] \in Int

(* In both cases the sum of h is that of f plus s times that of g.         *)
LEMMA SumSplits ==
  ASSUME NEW f, NEW g, NEW h, NEW n \in Nat, NEW s \in Int, Joined(f, g, h, n, s)
  PROVE  SumTo(h, 2 * n) = SumTo(f, n) + s * SumTo(g, n)
<1>0. \A j \in 0..(n - 1) : h[j] = f[j] /\ h[n + j] = s * g[j] /\ f[j] \in Int /\ g[j] \in Int
  BY DEF Joined
<1> DEFINE T == {k \in Nat : k <= n => SumTo(h, k) = SumTo(f, k)}
           U == {k \in Nat : k <= n => /\ SumTo(g, k) \in Int
                                       /\ SumTo(h, n + k) = SumTo(f, n) + s * SumTo(g, k)}
<1>1. 0 \in T BY SumNext
<1>2. ASSUME NEW k \in T PROVE k + 1 \in T
  <2>1. SUFFICES ASSUME k + 1 <= n PROVE SumTo(h, k + 1) = SumTo(f, k + 1) OBVIOUS
  <2>2. k \in Nat /\ SumTo(h, k) = SumTo(f, k) /\ k \in 0..(n - 1) BY <2>1
  <2>3. h[k] = f[k] BY <1>0, <2>2
  <2> QED BY <2>2, <2>3, SumNext
<1>3. T = Nat
  <2> HIDE DEF T
  <2>1. T \in SUBSET Nat BY DEF T
  <2> QED BY <1>1, <1>2, <2>1, ByInduction
<1>4. SumTo(h, n) = SumTo(f, n) /\ SumTo(f, n) \in Int BY <1>0, <1>3, SumTypes
<1>5. 0 \in U
  <2>1. SumTo(g, 0) = 0 /\ n + 0 = n /\ s * 0 = 0 BY SumNext
  <2> QED BY <1>4, <2>1
<1>6. ASSUME NEW k \in U PROVE k + 1 \in U
  <2>1. SUFFICES ASSUME k + 1 <= n
                 PROVE  /\ SumTo(g, k + 1) \in Int
                        /\ SumTo(h, n + (k + 1)) = SumTo(f, n) + s * SumTo(g, k + 1)
    OBVIOUS
  <2>2. k \in Nat /\ SumTo(g, k) \in Int /\ SumTo(h, n + k) = SumTo(f, n) + s * SumTo(g, k)
        /\ k \in 0..(n - 1)
    BY <2>1
  <2>3. h[n + k] = s * g[k] /\ g[k] \in Int BY <1>0, <2>2
  <2>4. SumTo(g, k + 1) = SumTo(g, k) + g[k] BY <2>2, SumNext
  <2>5. SumTo(h, n + (k + 1)) = SumTo(h, n + k) + h[n + k]
    <3>1. n + k \in Nat /\ n + (k + 1) = (n + k) + 1 BY <2>2
    <3> QED BY <3>1, SumNext
  <2>6. \A a, b \in Int : s * (a + b) = s * a + s * b /\ s * a \in Int OBVIOUS
  <2> QED BY <1>4, <2>2, <2>3, <2>4, <2>5, <2>6
<1>7. U = Nat
  <2> HIDE DEF U
  <2>1. U \in SUBSET Nat BY DEF U
  <2> QED BY <1>5, <1>6, <2>1, ByInduction
<1>8. n + n = 2 * n OBVIOUS
<1> QED BY <1>7, <1>8

LEMMA SumAdds ==
  ASSUME NEW f, NEW g, NEW h, NEW n \in Nat, NEW s \in Int, Added(f, g, h, n, s)
  PROVE  SumTo(h, n) = SumTo(f, n) + s * SumTo(g, n)
<1>0. \A j \in 0..(n - 1) : h[j] = f[j] + s * g[j] /\ f[j] \in Int /\ g[j] \in Int
  BY DEF Added
<1> DEFINE T == {k \in Nat : k <= n => /\ SumTo(f, k) \in Int /\ SumTo(g, k) \in Int
                                       /\ SumTo(h, k) = SumTo(f, k) + s * SumTo(g, k)}
<1>1. 0 \in T
  <2>1. SumTo(f, 0) = 0 /\ SumTo(g, 0) = 0 /\ SumTo(h, 0) = 0 /\ 0 + s * 0 = 0 BY SumNext
  <2> QED BY <2>1
<1>2. ASSUME NEW k \in T PROVE k + 1 \in T
  <2>1. SUFFICES ASSUME k + 1 <= n
                 PROVE  /\ SumTo(f, k + 1) \in Int /\ SumTo(g, k + 1) \in Int
                        /\ SumTo(h, k + 1) = SumTo(f, k + 1) + s * SumTo(g, k + 1)
    OBVIOUS
  <2>2. /\ k \in Nat /\ SumTo(f, k) \in Int /\ SumTo(g, k) \in Int
        /\ SumTo(h, k) = SumTo(f, k) + s * SumTo(g, k) /\ k \in 0..(n - 1)
    BY <2>1
  <2>3. h[k] = f[k] + s * g[k] /\ f[k] \in Int /\ g[k] \in Int BY <1>0, <2>2
  <2>4. /\ SumTo(f, k + 1) = SumTo(f, k) + f[k] /\ SumTo(g, k + 1) = SumTo(g, k) + g[k]
        /\ SumTo(h, k + 1) = SumTo(h, k) + h[k]
    BY <2>2, SumNext
  <2>5. \A a, b \in Int : s * (a + b) = s * a + s * b /\ s * a \in Int OBVIOUS
  <2> QED BY <2>2, <2>3, <2>4, <2>5
<1>3. T = Nat
  <2> HIDE DEF T
  <2>1. T \in SUBSET Nat BY DEF T
  <2> QED BY <1>1, <1>2, <2>1, ByInduction
<1> QED BY <1>3
--------------------------------------------------------------------------------
(* The bits of a number, and the signs of Sylvester's matrix.              *)

(* A power of two is above its exponent.                                   *)
LEMMA PowerAbove == \A n \in Nat : n < 2^n
<1> DEFINE T == {n \in Nat : n < 2^n}
<1>1. 0 \in T
  <2>1. 2^0 = 1 OBVIOUS
  <2> QED BY <2>1
<1>2. ASSUME NEW n \in T PROVE n + 1 \in T
  <2>1. n \in Nat /\ n < 2^n /\ 2^(n + 1) = 2 * 2^n /\ 2^n \in Nat BY PowerNext, PowerPositive
  <2> QED BY <2>1
<1>3. T = Nat
  <2> HIDE DEF T
  <2>1. T \in SUBSET Nat BY DEF T
  <2> QED BY <1>1, <1>2, <2>1, ByInduction
<1> QED BY <1>3

(* A power of two is a multiple of each smaller one.                       *)
LEMMA PowerDivides ==
  ASSUME NEW b \in Nat, NEW e \in Nat
  PROVE  \E q \in Nat \ {0} : 2^(b + 1 + e) = (2 * q) * 2^b
<1> DEFINE T == {n \in Nat : \E q \in Nat \ {0} : 2^(b + 1 + n) = (2 * q) * 2^b}
<1>1. 0 \in T
  <2>1. 2^(b + 1) = 2 * 2^b /\ b + 1 + 0 = b + 1 BY PowerNext
  <2>2. 2^(b + 1 + 0) = (2 * 1) * 2^b /\ 1 \in Nat \ {0} BY <2>1, PowerPositive
  <2> QED BY <2>2
<1>2. ASSUME NEW n \in T PROVE n + 1 \in T
  <2>1. n \in Nat /\ b + 1 + n \in Nat /\ b + 1 + (n + 1) = (b + 1 + n) + 1 OBVIOUS
  <2>2. PICK q \in Nat \ {0} : 2^(b + 1 + n) = (2 * q) * 2^b OBVIOUS
  <2>3. 2^(b + 1 + (n + 1)) = 2 * 2^(b + 1 + n) BY <2>1, PowerNext
  <2>4. 2 * ((2 * q) * 2^b) = (2 * (2 * q)) * 2^b BY PowerPositive
  <2>5. 2^(b + 1 + (n + 1)) = (2 * (2 * q)) * 2^b BY <2>2, <2>3, <2>4
  <2> DEFINE r == 2 * q
  <2>6. r \in Nat \ {0} /\ 2^(b + 1 + (n + 1)) = (2 * r) * 2^b BY <2>5
  <2> HIDE DEF r
  <2> QED BY <2>1, <2>6
<1>3. T = Nat
  <2> HIDE DEF T
  <2>1. T \in SUBSET Nat BY DEF T
  <2> QED BY <1>1, <1>2, <2>1, ByInduction
<1>4. e \in T
  <2> HIDE DEF T
  <2> QED BY <1>3
<1> QED BY <1>4

(* Quotient and remainder are known from any such decomposition.           *)
LEMMA QuotientIs ==
  ASSUME NEW q \in Nat, NEW d \in Nat \ {0}, NEW r \in 0..(d - 1)
  PROVE  (q * d + r) \div d = q /\ (q * d + r) % d = r /\ q * d + r \in Nat
<1>1. q + 1 \in Nat /\ q \in 0..((q + 1) - 1) OBVIOUS
<1> QED BY <1>1, ItemOf

(* Half of a number's bits stand in its quotient, ...                      *)
LEMMA InBits ==
  ASSUME NEW i \in Nat, NEW b \in Nat
  PROVE  b \in Bits(i) <=> (i \div 2^b) % 2 = 1
<1>1. 2^b \in Nat \ {0} /\ b < 2^b BY PowerPositive, PowerAbove
<1>2. SUFFICES ASSUME (i \div 2^b) % 2 = 1 PROVE b <= i BY DEF Bits
<1> DEFINE d == 2^b
           q == i \div d
<1>3. q \in Nat /\ i % d \in 0..(d - 1) /\ i = q * d + (i % d) BY <1>1, Division
<1>4. q # 0
  <2>1. 0 % 2 # 1 OBVIOUS
  <2> QED BY <1>2, <2>1
<1> HIDE DEF d, q
<1>5. d \in Nat \ {0} /\ b < d BY <1>1 DEF d
<1>6. PICK p \in Nat : q = p + 1
  <2>1. q - 1 \in Nat /\ q = (q - 1) + 1 BY <1>3, <1>4
  <2> QED BY <2>1
<1>7. (p + 1) * d = p * d + d /\ p * d \in Nat BY <1>5
<1> QED BY <1>3, <1>5, <1>6, <1>7

(* A number below 2^k has no bit from k on, and adding 2^k sets bit k.     *)
LEMMA BitsOfHalves ==
  ASSUME NEW k \in Nat, NEW i \in 0..(2^k - 1)
  PROVE  Bits(i) \subseteq 0..(k - 1) /\ Bits(2^k + i) = Bits(i) \cup {k}
<1> DEFINE w == 2^k
<1>1. w \in Nat \ {0} /\ i \in Nat /\ i < w /\ w + i \in Nat
  BY PowerPositive
<1> HIDE DEF w
<1>2. ASSUME NEW b \in Nat, b < k PROVE b \in Bits(w + i) <=> b \in Bits(i)
  <2>1. PICK e \in Nat : k = b + 1 + e
    <3>1. k - b - 1 \in Nat /\ k = b + 1 + (k - b - 1) BY <1>2
    <3> QED BY <3>1
  <2>2. PICK q \in Nat \ {0} : w = (2 * q) * 2^b BY <2>1, PowerDivides DEF w
  <2> DEFINE d == 2^b
             p == i \div d
             r == i % d
  <2>3. d \in Nat \ {0} BY PowerPositive
  <2> HIDE DEF d
  <2>4. p \in Nat /\ r \in 0..(d - 1) /\ i = p * d + r BY <1>1, <2>3, Division
  <2> HIDE DEF p, r
  <2>5. w + i = (2 * q + p) * d + r
    <3>1. w = (2 * q) * d BY <2>2 DEF d
    <3>2. (2 * q + p) * d = (2 * q) * d + p * d BY <2>3, <2>4
    <3>3. p * d \in Nat /\ r \in Nat /\ (2 * q) * d \in Nat BY <2>3, <2>4
    <3> QED BY <2>4, <3>1, <3>2, <3>3
  <2>6. 2 * q + p \in Nat BY <2>4
  <2>7. (w + i) \div d = 2 * q + p
    <3> DEFINE u == 2 * q + p
    <3>1. u \in Nat /\ w + i = u * d + r BY <2>5, <2>6
    <3> HIDE DEF u
    <3>2. (u * d + r) \div d = u BY <2>3, <2>4, <3>1, QuotientIs
    <3> QED BY <3>1, <3>2 DEF u
  <2>8. (2 * q + p) % 2 = p % 2 BY <2>4
  <2>9. ((w + i) \div d) % 2 = p % 2 BY <2>7, <2>8
  <2> QED BY <1>1, <2>9, InBits DEF d, p
<1>3. k \in Bits(w + i) /\ k \notin Bits(i)
  <2>1. w + i = 1 * w + i /\ i = 0 * w + i /\ i \in 0..(w - 1) BY <1>1
  <2>2. (w + i) \div w = 1 /\ i \div w = 0 BY <1>1, <2>1, QuotientIs
  <2>3. 1 % 2 = 1 /\ 0 % 2 = 0 OBVIOUS
  <2>4. (w + i) \div 2^k = 1 /\ i \div 2^k = 0 BY <2>2 DEF w
  <2>5. k \in Bits(w + i) <=> ((w + i) \div 2^k) % 2 = 1 BY <1>1, InBits
  <2>6. k \in Bits(i) <=> (i \div 2^k) % 2 = 1 BY <1>1, InBits
  <2> QED BY <2>3, <2>4, <2>5, <2>6
<1>4. ASSUME NEW b \in Nat, k < b PROVE b \notin Bits(w + i) /\ b \notin Bits(i)
  <2>1. PICK e \in Nat : b = k + 1 + e
    <3>1. b - k - 1 \in Nat /\ b = k + 1 + (b - k - 1) BY <1>4
    <3> QED BY <3>1
  <2>2. PICK q \in Nat \ {0} : 2^b = (2 * q) * w BY <2>1, PowerDivides DEF w
  <2> DEFINE d == 2^b
  <2>3. d \in Nat \ {0} BY PowerPositive
  <2>4. 2 * w <= d
    <3>1. PICK p \in Nat : q = p + 1
      <4>1. q - 1 \in Nat /\ q = (q - 1) + 1 OBVIOUS
      <4> QED BY <4>1
    <3>2. (2 * (p + 1)) * w = 2 * w + (2 * p) * w /\ (2 * p) * w \in Nat BY <1>1
    <3> QED BY <1>1, <2>2, <3>1, <3>2
  <2> HIDE DEF d
  <2>5. w + i = 0 * d + (w + i) /\ i = 0 * d + i /\ w + i \in 0..(d - 1) /\ i \in 0..(d - 1)
    BY <1>1, <2>3, <2>4
  <2>6. (w + i) \div d = 0 /\ i \div d = 0 BY <2>3, <2>5, QuotientIs
  <2>7. 0 % 2 # 1 OBVIOUS
  <2> QED BY <1>1, <2>6, <2>7, InBits DEF d
<1>5. Bits(i) \subseteq Nat /\ Bits(w + i) \subseteq Nat BY <1>1 DEF Bits
<1>6. \A b \in Nat : b < k \/ b = k \/ k < b OBVIOUS
<1>7. Bits(i) \subseteq 0..(k - 1)
  <2>1. SUFFICES ASSUME NEW b \in Bits(i) PROVE b \in 0..(k - 1) OBVIOUS
  <2>2. b \in Nat BY <1>5
  <2>3. b < k BY <1>3, <1>4, <1>6, <2>2
  <2> QED BY <2>2, <2>3
<1>8. ASSUME NEW b \in Nat PROVE b \in Bits(w + i) <=> b \in Bits(i) \cup {k}
  BY <1>2, <1>3, <1>4, <1>6
<1>9. Bits(w + i) = Bits(i) \cup {k} BY <1>5, <1>8
<1> QED BY <1>7, <1>9 DEF w

(* The matrix of twice the width is four of the present one, the last one  *)
(* with its sign changed.                                                  *)
LEMMA SignsOfQuarters ==
  ASSUME NEW k \in Nat, NEW i \in 0..(2^k - 1), NEW j \in 0..(2^k - 1)
  PROVE  /\ Sign(i, j) \in {1, -1}
         /\ Sign(i, 2^k + j) = Sign(i, j) /\ Sign(2^k + i, j) = Sign(i, j)
         /\ Sign(2^k + i, 2^k + j) = -Sign(i, j)
<1> DEFINE I == Bits(i)
           J == Bits(j)
           n == Cardinality(I \cap J)
<1>1. /\ I \subseteq 0..(k - 1) /\ J \subseteq 0..(k - 1)
      /\ Bits(2^k + i) = I \cup {k} /\ Bits(2^k + j) = J \cup {k}
  BY BitsOfHalves
<1>2. k \notin 0..(k - 1) /\ IsFiniteSet(0..(k - 1)) BY FS_Interval
<1> HIDE DEF I, J
<1>3. /\ I \cap (J \cup {k}) = I \cap J /\ (I \cup {k}) \cap J = I \cap J
      /\ (I \cup {k}) \cap (J \cup {k}) = (I \cap J) \cup {k}
  BY <1>1, <1>2
<1>4. IsFiniteSet(I \cap J) /\ k \notin I \cap J
  <2>1. I \cap J \subseteq 0..(k - 1) BY <1>1
  <2> QED BY <1>2, <2>1, FS_Subset
<1>5. n \in Nat /\ Cardinality((I \cap J) \cup {k}) = n + 1
  BY <1>4, FS_CardinalityType, FS_AddElement
<1>6. Sign(i, j) = IF n % 2 = 0 THEN 1 ELSE -1 BY DEF Sign, I, J
<1>7. Sign(i, 2^k + j) = IF n % 2 = 0 THEN 1 ELSE -1 BY <1>1, <1>3 DEF Sign, I
<1>8. Sign(2^k + i, j) = IF n % 2 = 0 THEN 1 ELSE -1 BY <1>1, <1>3 DEF Sign, J
<1>9. Sign(2^k + i, 2^k + j) = IF (n + 1) % 2 = 0 THEN 1 ELSE -1 BY <1>1, <1>3, <1>5 DEF Sign
<1> HIDE DEF n
<1>10. n % 2 = 0 <=> (n + 1) % 2 # 0 BY <1>5
<1> QED BY <1>6, <1>7, <1>8, <1>9, <1>10
--------------------------------------------------------------------------------
(* The matrix times a vector.                                              *)

(* The w numbers of a vector from position c on.                           *)
Block(x, c, w) == [j \in 0..(w - 1) |-> x[c + j]]

(* Vectors of integers a, b and their sum and difference.                  *)
Crossed(a, b, sum, diff, w) ==
  \A j \in 0..(w - 1) : a[j] \in Int /\ b[j] \in Int /\ sum[j] = a[j] + b[j] /\ diff[j] = a[j] - b[j]

(* Every sum that Hadamard makes.                                          *)
LEMMA HadamardIs ==
  ASSUME NEW x, NEW k \in Nat, \A j \in 0..(2^k - 1) : x[j] \in Int, NEW i \in 0..(2^k - 1)
  PROVE  /\ Hadamard(x, 2^k)[i] = SumTo([j \in 0..(2^k - 1) |-> Sign(i, j) * x[j]], 2^k)
         /\ Hadamard(x, 2^k)[i] \in Int
<1> DEFINE w == 2^k
           f == [j \in 0..(w - 1) |-> Sign(i, j) * x[j]]
<1>1. Hadamard(x, w)[i] = SumTo(f, w) BY DEF Hadamard
<1>2. ASSUME NEW j \in 0..(w - 1) PROVE f[j] \in Int
  <2>1. Sign(i, j) \in {1, -1} /\ x[j] \in Int BY SignsOfQuarters
  <2> QED BY <2>1
<1>3. w \in Nat BY PowerPositive
<1> HIDE DEF f, w
<1>4. SumTo(f, w) \in Int BY <1>2, <1>3, SumTypes
<1> QED BY <1>1, <1>4 DEF f, w

(* Twice the width: the sums and the differences of the halves' results.   *)
LEMMA HadamardOfHalves ==
  ASSUME NEW x, NEW w, IsPower(w), \A j \in 0..(2 * w - 1) : x[j] \in Int
  PROVE  Crossed(Hadamard(Block(x, 0, w), w), Hadamard(Block(x, w, w), w),
                 Block(Hadamard(x, 2 * w), 0, w), Block(Hadamard(x, 2 * w), w, w), w)
<1>0. PICK k \in Nat : w = 2^k /\ w \in Nat \ {0} BY PowerPositive DEF IsPower
<1> DEFINE A == Block(x, 0, w)
           B == Block(x, w, w)
           y == Hadamard(x, 2 * w)
<1> SUFFICES ASSUME NEW i \in 0..(w - 1)
             PROVE  /\ Hadamard(A, w)[i] \in Int /\ Hadamard(B, w)[i] \in Int
                    /\ y[i] = Hadamard(A, w)[i] + Hadamard(B, w)[i]
                    /\ y[w + i] = Hadamard(A, w)[i] - Hadamard(B, w)[i]
  <2>1. \A i \in 0..(w - 1) : Block(y, 0, w)[i] = y[i] /\ Block(y, w, w)[i] = y[w + i]
    <3>1. \A i \in 0..(w - 1) : 0 + i = i BY <1>0
    <3> QED BY <3>1 DEF Block
  <2> QED BY <2>1 DEF Crossed
<1> DEFINE f == [j \in 0..(w - 1) |-> Sign(i, j) * A[j]]
           g == [j \in 0..(w - 1) |-> Sign(i, j) * B[j]]
           h == [j \in 0..(2 * w - 1) |-> Sign(i, j) * x[j]]
           e == [j \in 0..(2 * w - 1) |-> Sign(w + i, j) * x[j]]
<1>1. w \in Nat \ {0} BY <1>0
<1>2. \A j \in 0..(w - 1) : /\ A[j] = x[j] /\ B[j] = x[w + j] /\ x[j] \in Int /\ x[w + j] \in Int
                            /\ j \in 0..(2 * w - 1) /\ w + j \in 0..(2 * w - 1)
  <2>1. TAKE j \in 0..(w - 1)
  <2>2. j \in 0..(2 * w - 1) /\ w + j \in 0..(2 * w - 1) BY <1>1
  <2>3. A[j] = x[j] /\ B[j] = x[w + j] BY DEF Block
  <2>4. x[j] \in Int /\ x[w + j] \in Int BY <2>2
  <2> QED BY <2>2, <2>3, <2>4
<1>3. \A j \in 0..(w - 1) : /\ Sign(i, j) \in {1, -1} /\ Sign(i, w + j) = Sign(i, j)
                            /\ Sign(w + i, j) = Sign(i, j) /\ Sign(w + i, w + j) = -Sign(i, j)
  BY <1>0, SignsOfQuarters
<1>4. Hadamard(A, w)[i] = SumTo(f, w) /\ Hadamard(B, w)[i] = SumTo(g, w)
      /\ Hadamard(A, w)[i] \in Int /\ Hadamard(B, w)[i] \in Int
  <2>1. \A j \in 0..(w - 1) : A[j] \in Int /\ B[j] \in Int BY <1>2
  <2> HIDE DEF A, B
  <2> QED BY <1>0, <2>1, HadamardIs
<1> HIDE DEF A, B
<1>5. i \in 0..(2 * w - 1) /\ w + i \in 0..(2 * w - 1) BY <1>1
<1>6. Hadamard(x, 2 * w)[i] = SumTo(h, 2 * w) /\ Hadamard(x, 2 * w)[w + i] = SumTo(e, 2 * w)
  BY <1>5 DEF Hadamard
<1>7. ASSUME NEW j \in 0..(w - 1)
      PROVE  /\ f[j] \in Int /\ g[j] \in Int
             /\ h[j] = f[j] /\ h[w + j] = 1 * g[j] /\ e[j] = f[j] /\ e[w + j] = (-1) * g[j]
  <2>1. /\ f[j] = Sign(i, j) * x[j] /\ g[j] = Sign(i, j) * x[w + j]
        /\ h[j] = Sign(i, j) * x[j] /\ h[w + j] = Sign(i, w + j) * x[w + j]
        /\ e[j] = Sign(w + i, j) * x[j] /\ e[w + j] = Sign(w + i, w + j) * x[w + j]
    BY <1>2
  <2>2. x[j] \in Int /\ x[w + j] \in Int BY <1>2
  <2>3. CASE Sign(i, j) = 1
    <3>1. Sign(i, w + j) = 1 /\ Sign(w + i, j) = 1 /\ Sign(w + i, w + j) = -1 BY <1>3, <2>3
    <3> HIDE DEF f, g, h, e
    <3> QED BY <2>1, <2>2, <2>3, <3>1
  <2>4. CASE Sign(i, j) = -1
    <3>1. Sign(i, w + j) = -1 /\ Sign(w + i, j) = -1 /\ Sign(w + i, w + j) = 1 BY <1>3, <2>4
    <3> HIDE DEF f, g, h, e
    <3> QED BY <2>1, <2>2, <2>4, <3>1
  <2> QED BY <1>3, <2>3, <2>4
<1> HIDE DEF f, g, h, e
<1>8. SumTo(h, 2 * w) = SumTo(f, w) + 1 * SumTo(g, w)
  <2> DEFINE s == 1
  <2>1. s \in Int OBVIOUS
  <2>2. Joined(f, g, h, w, s) BY <1>7 DEF Joined
  <2> HIDE DEF s
  <2>3. SumTo(h, 2 * w) = SumTo(f, w) + s * SumTo(g, w) BY <1>1, <2>1, <2>2, SumSplits
  <2> QED BY <2>3 DEF s
<1>9. SumTo(e, 2 * w) = SumTo(f, w) + (-1) * SumTo(g, w)
  <2> DEFINE s == -1
  <2>1. s \in Int OBVIOUS
  <2>2. Joined(f, g, e, w, s) BY <1>7 DEF Joined
  <2> HIDE DEF s
  <2>3. SumTo(e, 2 * w) = SumTo(f, w) + s * SumTo(g, w) BY <1>1, <2>1, <2>2, SumSplits
  <2> QED BY <2>3 DEF s
<1>10. SumTo(h, 2 * w) = SumTo(f, w) + SumTo(g, w) /\ SumTo(e, 2 * w) = SumTo(f, w) - SumTo(g, w)
  BY <1>4, <1>8, <1>9
<1> QED BY <1>4, <1>6, <1>10 DEF A, B

(* The matrix times a sum or a difference.                                 *)
LEMMA HadamardAdds ==
  ASSUME NEW w, IsPower(w), NEW x, NEW y, NEW z, NEW s \in Int,
         Added(x, y, z, w, s)
  PROVE  \A i \in 0..(w - 1) : Hadamard(z, w)[i] = Hadamard(x, w)[i] + s * Hadamard(y, w)[i]
<1> TAKE i \in 0..(w - 1)
<1> DEFINE f == [j \in 0..(w - 1) |-> Sign(i, j) * x[j]]
           g == [j \in 0..(w - 1) |-> Sign(i, j) * y[j]]
           h == [j \in 0..(w - 1) |-> Sign(i, j) * z[j]]
<1>1. PICK k \in Nat : w = 2^k /\ w \in Nat BY PowerPositive DEF IsPower
<1>2. ASSUME NEW j \in 0..(w - 1)
      PROVE  h[j] = f[j] + s * g[j] /\ f[j] \in Int /\ g[j] \in Int
  <2>1. z[j] = x[j] + s * y[j] /\ x[j] \in Int /\ y[j] \in Int BY DEF Added
  <2>2. f[j] = Sign(i, j) * x[j] /\ g[j] = Sign(i, j) * y[j] /\ h[j] = Sign(i, j) * z[j] OBVIOUS
  <2>3. Sign(i, j) \in {1, -1} BY <1>1, SignsOfQuarters
  <2> HIDE DEF f, g, h
  <2> QED BY <2>1, <2>2, <2>3
<1>3. Hadamard(x, w)[i] = SumTo(f, w) /\ Hadamard(y, w)[i] = SumTo(g, w) /\ Hadamard(z, w)[i] = SumTo(h, w)
  BY DEF Hadamard
<1> HIDE DEF f, g, h
<1>4. SumTo(h, w) = SumTo(f, w) + s * SumTo(g, w)
  <2>1. Added(f, g, h, w, s) BY <1>2 DEF Added
  <2> QED BY <1>1, <2>1, SumAdds
<1> QED BY <1>3, <1>4

LEMMA HadamardOfCrossed ==
  ASSUME NEW w, IsPower(w), NEW f, NEW g, NEW sum, NEW diff, Crossed(f, g, sum, diff, w)
  PROVE  Crossed(Hadamard(f, w), Hadamard(g, w), Hadamard(sum, w), Hadamard(diff, w), w)
<1>0. \A j \in 0..(w - 1) : f[j] \in Int /\ g[j] \in Int /\ sum[j] = f[j] + g[j] /\ diff[j] = f[j] - g[j]
  BY DEF Crossed
<1>1. \A i \in 0..(w - 1) : Hadamard(f, w)[i] \in Int /\ Hadamard(g, w)[i] \in Int
  <2>1. PICK k \in Nat : w = 2^k BY DEF IsPower
  <2> QED BY <1>0, <2>1, HadamardIs
<1> DEFINE p == 1
           m == -1
<1>2. p \in Int /\ m \in Int OBVIOUS
<1>3. Added(f, g, sum, w, p) BY <1>0 DEF Added
<1>4. Added(f, g, diff, w, m) BY <1>0 DEF Added
<1> HIDE DEF p, m
<1>5. \A i \in 0..(w - 1) : Hadamard(sum, w)[i] = Hadamard(f, w)[i] + p * Hadamard(g, w)[i]
  BY <1>2, <1>3, HadamardAdds
<1>6. \A i \in 0..(w - 1) : Hadamard(diff, w)[i] = Hadamard(f, w)[i] + m * Hadamard(g, w)[i]
  BY <1>2, <1>4, HadamardAdds
<1> QED BY <1>1, <1>5, <1>6 DEF Crossed, p, m

(* Sylvester's matrix is its own inverse up to its size.                   *)
Inverts(k) ==
  \A x \in [0..(2^k - 1) -> Int] :
    \A i \in 0..(2^k - 1) : Hadamard(Hadamard(x, 2^k), 2^k)[i] = 2^k * x[i]

(* The matrix of size one.                                                 *)
LEMMA HadamardOfOne ==
  ASSUME NEW x, x[0] \in Int
  PROVE  Hadamard(x, 1)[0] = x[0]
<1> DEFINE f == [j \in 0..(1 - 1) |-> Sign(0, j) * x[j]]
<1>1. Hadamard(x, 1)[0] = SumTo(f, 1) BY DEF Hadamard
<1>2. SumTo(f, 0 + 1) = SumTo(f, 0) + f[0] /\ SumTo(f, 0) = 0
  <2>1. 0 \in Nat OBVIOUS
  <2> HIDE DEF f
  <2> QED BY <2>1, SumNext
<1>3. Sign(0, 0) = 1
  <2>1. Bits(0) = {}
    <3>1. 0 \in Nat /\ 0 \in 0..(2^0 - 1) /\ 0..(0 - 1) = {} OBVIOUS
    <3> QED BY <3>1, BitsOfHalves
  <2>2. Bits(0) \cap Bits(0) = {} BY <2>1
  <2>3. Cardinality({}) = 0 /\ 0 % 2 = 0 BY FS_EmptySet
  <2> QED BY <2>2, <2>3 DEF Sign
<1>4. f[0] = x[0]
  <2>1. f[0] = Sign(0, 0) * x[0] OBVIOUS
  <2> HIDE DEF f
  <2> QED BY <1>3, <2>1
<1> HIDE DEF f
<1> QED BY <1>1, <1>2, <1>4

(* Twice as large, it gives twice as much back.                            *)
LEMMA InvertsNext == ASSUME NEW k \in Nat, Inverts(k) PROVE Inverts(k + 1)
<1> DEFINE w == 2^k
<1>1. IsPower(w) /\ w \in Nat \ {0} /\ 2^(k + 1) = 2 * w BY PowerPositive, PowerNext DEF IsPower
<1>2. SUFFICES ASSUME NEW x \in [0..(2 * w - 1) -> Int]
               PROVE  \A i \in 0..(2 * w - 1) :
                        Hadamard(Hadamard(x, 2 * w), 2 * w)[i] = (2 * w) * x[i]
  BY <1>1 DEF Inverts
<1> DEFINE a == Block(x, 0, w)
           b == Block(x, w, w)
           A == Hadamard(a, w)
           B == Hadamard(b, w)
           y == Hadamard(x, 2 * w)
           L == Block(y, 0, w)
           H == Block(y, w, w)
           z == Hadamard(y, 2 * w)
<1>3. a \in [0..(w - 1) -> Int] /\ b \in [0..(w - 1) -> Int]
      /\ \A i \in 0..(w - 1) : a[i] = x[i] /\ b[i] = x[w + i]
  <2> HIDE DEF w
  <2>1. \A i \in 0..(w - 1) : i \in 0..(2 * w - 1) /\ w + i \in 0..(2 * w - 1) /\ 0 + i = i BY <1>1
  <2>2. \A i \in 0..(2 * w - 1) : x[i] \in Int OBVIOUS
  <2> QED BY <2>1, <2>2 DEF Block
<1>4. \A i \in 0..(w - 1) : Hadamard(A, w)[i] = w * a[i] /\ Hadamard(B, w)[i] = w * b[i]
  BY <1>3 DEF Inverts
<1> HIDE DEF w
<1>5. Crossed(A, B, L, H, w)
  <2>1. \A j \in 0..(2 * w - 1) : x[j] \in Int OBVIOUS
  <2> QED BY <1>1, <2>1, HadamardOfHalves
<1>6. \A j \in 0..(2 * w - 1) : y[j] \in Int
  <2>1. TAKE j \in 0..(2 * w - 1)
  <2> HIDE DEF A, B, y
  <2>2. CASE j \in 0..(w - 1)
    <3>1. L[j] = y[j] BY <1>1, <2>2 DEF Block
    <3> QED BY <1>5, <2>2, <3>1 DEF Crossed
  <2>3. CASE j \notin 0..(w - 1)
    <3>1. j - w \in 0..(w - 1) /\ w + (j - w) = j BY <1>1, <2>3
    <3>2. H[j - w] = y[j] BY <3>1 DEF Block
    <3> QED BY <1>5, <3>1, <3>2 DEF Crossed
  <2> QED BY <2>2, <2>3
<1> HIDE DEF A, B, y
<1>7. Crossed(Hadamard(L, w), Hadamard(H, w), Block(z, 0, w), Block(z, w, w), w)
  BY <1>1, <1>6, HadamardOfHalves
<1> HIDE DEF L, H, z
<1>8. Crossed(Hadamard(A, w), Hadamard(B, w), Hadamard(L, w), Hadamard(H, w), w)
  BY <1>1, <1>5, HadamardOfCrossed
<1>9. ASSUME NEW i \in 0..(w - 1) PROVE z[i] = (2 * w) * x[i] /\ z[w + i] = (2 * w) * x[w + i]
  <2> DEFINE p == Hadamard(A, w)[i]
             q == Hadamard(B, w)[i]
             u == Hadamard(L, w)[i]
             v == Hadamard(H, w)[i]
  <2>1. p \in Int /\ q \in Int /\ u = p + q /\ v = p - q BY <1>8 DEF Crossed
  <2>2. z[0 + i] = u + v /\ z[w + i] = u - v BY <1>7 DEF Crossed, Block
  <2>3. p = w * x[i] /\ q = w * x[w + i] /\ x[i] \in Int /\ x[w + i] \in Int
    <3>1. a[i] \in Int /\ b[i] \in Int /\ a[i] = x[i] /\ b[i] = x[w + i] BY <1>3
    <3> QED BY <1>4, <3>1
  <2> HIDE DEF p, q, u, v
  <2>4. 0 + i = i OBVIOUS
  <2>5. z[i] = p + p /\ z[w + i] = q + q BY <2>1, <2>2, <2>4
  <2>6. \A n \in Int : w * n + w * n = (2 * w) * n BY <1>1
  <2> QED BY <2>3, <2>5, <2>6
<1>10. SUFFICES ASSUME NEW i \in 0..(2 * w - 1) PROVE z[i] = (2 * w) * x[i]
  BY DEF y, z
<1>11. CASE i \in 0..(w - 1) BY <1>9, <1>11
<1>12. CASE i \notin 0..(w - 1)
  <2>1. i - w \in 0..(w - 1) /\ w + (i - w) = i BY <1>1, <1>12
  <2> QED BY <1>9, <2>1
<1> QED BY <1>11, <1>12

LEMMA HadamardInverts == \A k \in Nat : Inverts(k)
<1> DEFINE T == {k \in Nat : Inverts(k)}
<1>1. 0 \in T
  <2>1. 2^0 = 1 OBVIOUS
  <2>2. SUFFICES ASSUME NEW x \in [0..(1 - 1) -> Int], NEW i \in 0..(1 - 1)
                 PROVE  Hadamard(Hadamard(x, 1), 1)[i] = 1 * x[i]
    BY <2>1 DEF Inverts
  <2>3. i = 0 /\ x[0] \in Int OBVIOUS
  <2>4. Hadamard(x, 1)[0] = x[0] BY <2>3, HadamardOfOne
  <2>5. Hadamard(Hadamard(x, 1), 1)[0] = Hadamard(x, 1)[0] BY <2>3, <2>4, HadamardOfOne
  <2> QED BY <2>3, <2>4, <2>5
<1>2. ASSUME NEW k \in T PROVE k + 1 \in T
  BY InvertsNext
<1>3. T = Nat
  <2> HIDE DEF T
  <2>1. T \in SUBSET Nat BY DEF T
  <2> QED BY <1>1, <1>2, <2>1, ByInduction
<1> QED BY <1>3
--------------------------------------------------------------------------------
(* The loops of the rotation compute it.                                   *)

(* What position j holds once blocks of size w are transformed, ...        *)
Value(j, w) == Hadamard(Block(call.x, j - (j % w), w), w)[j % w]

(* ... which is so for twice the width behind the loops, for width ahead.  *)
Transformed ==
  row = [j \in 0..(call.dim - 1) |-> Value(j, IF Done(j) THEN 2 * width ELSE width)]

TransformInv ==
  /\ RotationInv /\ Transforms
  /\ at = "rotate" => IsPower(width) /\ Transformed

LEMMA TransformInit == CallInit => TransformInv
<1>1. CallInit => status = "none" /\ at # "rotate" BY DEF CallInit
<1> QED BY <1>1, RotationInit DEF TransformInv, Transforms

(* The copy of the input is transformed in blocks of one.                  *)
LEMMA CopyTransforms == ASSUME TransformInv, Copy PROVE TransformInv'
<1>1. /\ at = "copy" /\ at' = "rotate" /\ row' = call.x /\ call' = call /\ status' = status
      /\ width' = 1 /\ base' = 0 /\ offset' = 0 /\ call \in Calls /\ RotationInv
      /\ call.op = "rotate" /\ call.dim \in Dimensions /\ status = "none"
  BY DEF TransformInv, RotationInv, Copy, ChecksInv, CallsTypeOK, Passed
<1>2. call.dim \in Nat /\ \A j \in 0..(call.dim - 1) : call.x[j] \in Int BY <1>1, RangeTest
<1>3. ASSUME NEW j \in 0..(call.dim - 1) PROVE row'[j] = Value(j, 1) /\ ~Done(j)'
  <2>1. j % 1 = 0 /\ j - (j % 1) = j /\ j \in Nat
    <3>1. j \in Nat BY <1>2
    <3>2. 1 \in Nat \ {0} /\ 0 \in 0..(1 - 1) /\ j * 1 + 0 = j BY <3>1
    <3>3. (j * 1 + 0) % 1 = 0 BY <3>1, <3>2, QuotientIs
    <3>4. j % 1 = 0 BY <3>2, <3>3
    <3> QED BY <3>1, <3>4
  <2>2. Block(call.x, j, 1)[0] = call.x[j] BY <2>1 DEF Block
  <2>3. Hadamard(Block(call.x, j, 1), 1)[0] = call.x[j] BY <1>2, <2>2, HadamardOfOne
  <2> QED BY <1>1, <2>1, <2>3 DEF Value, Done
<1>4. Transformed'
  <2>1. call.x = [j \in 0..(call.dim - 1) |-> call.x[j]] BY <1>1, CallFacts
  <2>2. call.x = [j \in 0..(call.dim - 1) |-> Value(j, 1)] BY <1>1, <1>3, <2>1
  <2>3. \A j \in 0..(call.dim - 1) : ~Done(j)' BY <1>3
  <2> QED BY <1>1, <2>2, <2>3 DEF Transformed, Value
<1>5. IsPower(1)
  <2>1. 2^0 = 1 OBVIOUS
  <2> QED BY <2>1 DEF IsPower
<1>6. RotationInv' BY <1>1, CopyBounds
<1>7. Transforms' BY <1>1 DEF Transforms
<1> QED BY <1>1, <1>4, <1>5, <1>6, <1>7 DEF TransformInv

(* Where a position stands in its block.                                   *)
LEMMA InBlock ==
  ASSUME NEW w \in Nat \ {0}, NEW m \in Nat, NEW i \in 0..(w - 1), NEW j, j = w * m + i
  PROVE  j % w = i /\ j - (j % w) = w * m
<1>1. j = m * w + i /\ m * w = w * m /\ m * w \in Nat OBVIOUS
<1>2. j % w = i BY <1>1, QuotientIs
<1> QED BY <1>1, <1>2

(* A butterfly makes of two blocks' results one of the block they form.    *)
LEMMA ButterflyJoins ==
  ASSUME NEW w, IsPower(w), NEW m \in Nat, NEW i \in 0..(w - 1),
         \A j \in 0..(2 * w - 1) : call.x[(2 * w) * m + j] \in Int
  PROVE  LET l == (2 * w) * m + i
             r == (2 * w) * m + w + i
         IN  Value(l, 2 * w) = Value(l, w) + Value(r, w) /\ Value(r, 2 * w) = Value(l, w) - Value(r, w)
<1> DEFINE c == (2 * w) * m
           l == c + i
           r == c + w + i
           x == Block(call.x, c, 2 * w)
<1>1. w \in Nat \ {0} BY PowerPositive DEF IsPower
<1>2. c \in Nat /\ c = w * (2 * m) /\ c + w = w * (2 * m + 1) /\ 2 * m \in Nat /\ 2 * m + 1 \in Nat
  BY <1>1
<1>3. l % w = i /\ l - (l % w) = c BY <1>1, <1>2, InBlock
<1>4. r % w = i /\ r - (r % w) = c + w
  <2>1. r = w * (2 * m + 1) + i BY <1>1, <1>2
  <2> HIDE DEF r
  <2>2. r % w = i /\ r - (r % w) = w * (2 * m + 1) BY <1>1, <1>2, <2>1, InBlock
  <2> QED BY <1>2, <2>2
<1>5. 2 * w \in Nat \ {0} /\ i \in 0..(2 * w - 1) /\ w + i \in 0..(2 * w - 1) BY <1>1
<1>6. l % (2 * w) = i /\ l - (l % (2 * w)) = c BY <1>5, InBlock
<1>7. r % (2 * w) = w + i /\ r - (r % (2 * w)) = c
  <2>1. r = (2 * w) * m + (w + i) BY <1>1, <1>2
  <2> HIDE DEF r
  <2> QED BY <1>5, <2>1, InBlock
<1> HIDE DEF l, r, c
<1>8. \A j \in 0..(2 * w - 1) : x[j] \in Int BY DEF Block, c
<1>9. Block(x, 0, w) = Block(call.x, c, w) /\ Block(x, w, w) = Block(call.x, c + w, w)
  <2>1. \A j \in 0..(w - 1) : /\ 0 + j = j /\ j \in 0..(2 * w - 1) /\ w + j \in 0..(2 * w - 1)
                              /\ c + (w + j) = c + w + j
    BY <1>1, <1>2
  <2>2. \A j \in 0..(w - 1) : x[0 + j] = call.x[c + j] /\ x[w + j] = call.x[c + w + j]
    BY <2>1 DEF Block
  <2> HIDE DEF x
  <2> QED BY <2>2 DEF Block
<1> DEFINE y == Hadamard(x, 2 * w)
           A == Hadamard(Block(call.x, c, w), w)
           B == Hadamard(Block(call.x, c + w, w), w)
<1>10. Crossed(A, B, Block(y, 0, w), Block(y, w, w), w)
  <2> HIDE DEF x
  <2> QED BY <1>8, <1>9, HadamardOfHalves
<1>11. Value(l, w) = A[i] /\ Value(r, w) = B[i] /\ Value(l, 2 * w) = y[i] /\ Value(r, 2 * w) = y[w + i]
  BY <1>3, <1>4, <1>6, <1>7 DEF Value
<1> HIDE DEF A, B, y
<1>12. y[0 + i] = A[i] + B[i] /\ y[w + i] = A[i] - B[i] BY <1>10 DEF Crossed, Block
<1>13. 0 + i = i BY <1>1
<1> QED BY <1>11, <1>12, <1>13 DEF l, r, c

(* One butterfly and the loop variables after it.                          *)
LEMMA ButterflyTransforms ==
  ASSUME TransformInv, Rotate, width < call.dim
  PROVE  IsPower(width') /\ Transformed'
<1>1. /\ at = "rotate" /\ call \in Calls /\ call' = call /\ call.op = "rotate" /\ call.dim \in Dimensions
      /\ width \in Nat \ {0} /\ base \in Nat /\ offset \in Nat /\ IsPower(width)
      /\ DOMAIN row = 0..(call.dim - 1) /\ Aligned /\ Transformed
  BY DEF TransformInv, RotationInv, Rotate, Return, ChecksInv, CallsTypeOK, Passed
<1>2. call.dim \in Nat \ {0} /\ \A j \in 0..(call.dim - 1) : call.x[j] \in Int BY <1>1, RangeTest
<1>3. row' = Butterfly(base + offset, base + width + offset) /\ Loops
  BY <1>1, <1>2 DEF Rotate
<1>4. PICK m \in Nat : base = (2 * width) * m /\ base + 2 * width <= call.dim /\ offset < width
  BY <1>1 DEF Aligned
<1> DEFINE d == call.dim
           w == width
           l == base + offset
           r == base + w + offset
           Behind(j) == Done(j) \/ j \in {l, r}
<1>5. l \in 0..(d - 1) /\ r \in 0..(d - 1) /\ l # r /\ ~Done(l) /\ ~Done(r)
  <2>1. /\ base \in Nat /\ offset \in Nat /\ width \in Nat /\ call.dim \in Nat
        /\ offset < width /\ base + 2 * width <= call.dim
    BY <1>1, <1>2, <1>4
  <2>2. l \in 0..(d - 1) /\ r \in 0..(d - 1) /\ l # r BY <2>1
  <2>3. ~Done(l) /\ ~Done(r) BY <2>1 DEF Done
  <2> QED BY <2>2, <2>3
<1>6. row[l] = Value(l, w) /\ row[r] = Value(r, w)
  BY <1>1, <1>5 DEF Transformed
<1>7. Value(l, 2 * w) = Value(l, w) + Value(r, w) /\ Value(r, 2 * w) = Value(l, w) - Value(r, w)
  <2>1. \A j \in 0..(2 * width - 1) : base + j \in 0..(call.dim - 1) BY <1>1, <1>2, <1>4
  <2>2. \A j \in 0..(2 * width - 1) : call.x[base + j] \in Int BY <1>2, <2>1
  <2>3. offset \in 0..(width - 1) BY <1>1, <1>4
  <2> QED BY <1>1, <1>4, <2>2, <2>3, ButterflyJoins
<1>8. \A j \in 0..(d - 1) : row'[j] = IF j = r THEN row[l] - row[r] ELSE IF j = l THEN row[l] + row[r] ELSE row[j]
  BY <1>1, <1>3, <1>5 DEF Butterfly
<1>9. row' = [j \in 0..(d - 1) |-> row'[j]]
  BY <1>1, <1>3 DEF Butterfly
<1>10. ASSUME NEW j \in 0..(d - 1) PROVE row'[j] = Value(j, IF Behind(j) THEN 2 * w ELSE w)
  <2>1. CASE j \in {l, r} BY <1>6, <1>7, <1>8, <2>1
  <2>2. CASE j \notin {l, r}
    <3>1. row'[j] = row[j] BY <1>8, <2>2
    <3>2. row[j] = Value(j, IF Done(j) THEN 2 * w ELSE w) BY <1>1 DEF Transformed
    <3> QED BY <2>2, <3>1, <3>2
  <2> QED BY <2>1, <2>2
<1>11. \A j, n : Value(j, n)' = Value(j, n) BY <1>1 DEF Value
<1>12. CASE ~(offset + 1 < width) /\ ~(base + 2 * width < call.dim)
  <2>1. offset' = 0 /\ base' = 0 /\ width' = 2 * width BY <1>3, <1>12 DEF Loops
  <2>2. ASSUME NEW j \in 0..(d - 1) PROVE Behind(j) /\ ~Done(j)'
    <3>1. j \in Nat /\ j < base + 2 * width /\ base \in Nat /\ offset \in Nat /\ width = offset + 1
      BY <1>1, <1>2, <1>4, <1>12
    <3>2. ~Done(j)' BY <2>1, <3>1 DEF Done
    <3>3. Behind(j) BY <3>1 DEF Done
    <3> QED BY <3>2, <3>3
  <2>3. IsPower(2 * width)
    <3>1. PICK k \in Nat : width = 2^k BY <1>1 DEF IsPower
    <3>2. 2 * width = 2^(k + 1) /\ k + 1 \in Nat BY <3>1, PowerNext
    <3> QED BY <3>2 DEF IsPower
  <2> HIDE DEF Behind
  <2>4. row' = [j \in 0..(d - 1) |-> Value(j, 2 * w)] BY <1>10, <1>9, <2>2
  <2> QED BY <1>1, <2>1, <2>2, <2>3, <2>4 DEF Transformed, Value
<1>13. CASE offset + 1 < width \/ base + 2 * width < call.dim
  <2>1. width' = width /\ \/ offset + 1 < width /\ offset' = offset + 1 /\ base' = base
                          \/ ~(offset + 1 < width) /\ offset' = 0 /\ base' = base + 2 * width
    BY <1>3, <1>13 DEF Loops
  <2>2. \A j \in 0..(d - 1) : Done(j)' <=> Behind(j)
    <3>1. TAKE j \in 0..(d - 1)
    <3>2. j \in Nat BY <1>2
    <3> QED BY <1>1, <1>4, <2>1, <3>2 DEF Done
  <2> HIDE DEF Behind
  <2>3. row' = [j \in 0..(d - 1) |-> Value(j, IF Done(j)' THEN 2 * w ELSE w)] BY <1>10, <1>9, <2>2
  <2> QED BY <1>1, <2>1, <2>3 DEF Transformed, Value
<1> QED BY <1>12, <1>13

(* At the end one block is left: the matrix times the input.               *)
LEMMA EndTransforms ==
  ASSUME TransformInv, at = "rotate", width >= call.dim
  PROVE  /\ row = Hadamard(call.x, call.dim)
         /\ Hadamard(row, call.dim) = [j \in 0..(call.dim - 1) |-> call.dim * call.x[j]]
<1>1. /\ call \in Calls /\ call.op = "rotate" /\ call.dim \in Dimensions
      /\ width \in Nat \ {0} /\ IsPower(width) /\ DOMAIN row = 0..(call.dim - 1) /\ Aligned /\ Transformed
  BY DEF TransformInv, RotationInv, ChecksInv, CallsTypeOK, Passed
<1> DEFINE d == call.dim
           x == call.x
<1>2. d \in Nat \ {0} /\ x \in [0..(d - 1) -> Int]
  <2>1. d \in Nat \ {0} /\ \A j \in 0..(d - 1) : x[j] \in Int BY <1>1, RangeTest
  <2>2. x = [j \in 0..(d - 1) |-> x[j]] BY <1>1, CallFacts
  <2> HIDE DEF x, d
  <2> QED BY <2>1, <2>2
<1>3. PICK q \in Nat : d = width * q /\ base = 0 /\ offset = 0 BY <1>1 DEF Aligned
<1>4. width = d
  <2>1. q # 0 BY <1>1, <1>2, <1>3
  <2>2. PICK p \in Nat : q = p + 1
    <3>1. q - 1 \in Nat /\ q = (q - 1) + 1 BY <2>1
    <3> QED BY <3>1
  <2>3. width * (p + 1) = width * p + width /\ width * p \in Nat BY <1>1
  <2> QED BY <1>1, <1>2, <1>3, <2>2, <2>3
<1>5. ASSUME NEW j \in 0..(d - 1) PROVE row[j] = Hadamard(x, d)[j]
  <2>1. ~Done(j) BY <1>1, <1>2, <1>3, <1>4 DEF Done
  <2>2. row[j] = Value(j, d) BY <1>1, <1>4, <2>1 DEF Transformed
  <2>3. j % d = j /\ j - (j % d) = 0
    <3>1. j = d * 0 + j /\ d * 0 = 0 /\ 0 \in Nat BY <1>2
    <3> HIDE DEF d
    <3> QED BY <1>2, <3>1, InBlock
  <2>4. Block(x, 0, d) = x
    <3>1. \A i \in 0..(d - 1) : 0 + i = i BY <1>2
    <3> HIDE DEF x, d
    <3> QED BY <1>2, <3>1 DEF Block
  <2> QED BY <2>2, <2>3, <2>4 DEF Value
<1>6. row = Hadamard(x, d)
  <2>1. row = [j \in 0..(d - 1) |-> row[j]] BY <1>1 DEF Transformed
  <2>2. row = [j \in 0..(d - 1) |-> Hadamard(x, d)[j]] BY <1>5, <2>1
  <2>3. Hadamard(x, d) = [j \in 0..(d - 1) |-> Hadamard(x, d)[j]] BY DEF Hadamard
  <2> QED BY <2>2, <2>3
<1>7. PICK k \in Nat : d = 2^k BY <1>1, <1>4 DEF IsPower
<1> HIDE DEF x, d
<1>8. \A j \in 0..(d - 1) : Hadamard(Hadamard(x, d), d)[j] = d * x[j]
  BY <1>2, <1>7, HadamardInverts DEF Inverts
<1>9. Hadamard(Hadamard(x, d), d) = [j \in 0..(d - 1) |-> d * x[j]]
  BY <1>8 DEF Hadamard
<1> QED BY <1>6, <1>9 DEF x, d

LEMMA RotateTransforms == ASSUME TransformInv, Rotate PROVE TransformInv'
<1>1. /\ RotationInv /\ call \in Calls /\ status = "none" /\ at = "rotate" /\ call' = call /\ Transforms
  BY DEF TransformInv, RotationInv, Rotate, Return, ChecksInv, CallsTypeOK
<1>2. RotationInv' BY <1>1, RotateBounds
<1>3. CASE width >= call.dim
  <2>1. at' = "returned" /\ row' = row BY <1>3 DEF Rotate, Return, loopVars
  <2>2. Transforms'
    <3>1. /\ row' = Hadamard(call'.x, call'.dim)
          /\ Hadamard(row', call'.dim) = [j \in 0..(call'.dim - 1) |-> call'.dim * call'.x[j]]
      BY <1>1, <1>3, <2>1, EndTransforms
    <3> QED BY <3>1 DEF Transforms
  <2> QED BY <1>2, <2>1, <2>2 DEF TransformInv
<1>4. CASE ~(width >= call.dim)
  <2>1. call.dim \in Nat /\ width \in Nat BY <1>1, CallFacts DEF RotationInv
  <2>2. width < call.dim BY <1>4, <2>1
  <2>3. status' = status BY <1>1, <1>4 DEF Rotate
  <2>4. Transforms' BY <1>1, <2>3 DEF Transforms
  <2> QED BY <1>2, <2>2, <2>4, ButterflyTransforms DEF TransformInv
<1> QED BY <1>3, <1>4

LEMMA TransformStep == TransformInv /\ [CallNext]_callVars => TransformInv'
<1>1. SUFFICES ASSUME TransformInv, [CallNext]_callVars PROVE TransformInv'
  OBVIOUS
<1>2. RotationInv' BY <1>1, RotationStep DEF TransformInv
<1>3. CASE UNCHANGED callVars
  BY <1>1, <1>2, <1>3 DEF callVars, TransformInv, Transformed, Transforms, Value, Done
<1>4. CASE PythonSize \/ Pointers \/ Dimension \/ Size \/ Values \/ RangeIsSafe \/ Store
  <2>1. at' # "rotate" /\ call' = call /\ (status' # "ok" \/ at = "store") /\ status = "none"
    BY <1>1, <1>4 DEF PythonSize, Pointers, Dimension, Size, Values, RangeIsSafe, Store, Check, Return, Pass,
                      TransformInv, RotationInv, ChecksInv, CallsTypeOK
  <2>2. at = "store" => call.op # "rotate" BY <1>1 DEF TransformInv, RotationInv, ChecksInv, Passed
  <2>3. Transforms' BY <2>1, <2>2 DEF Transforms
  <2> QED BY <1>2, <2>1, <2>3 DEF TransformInv
<1> QED BY <1>1, <1>3, <1>4, CopyTransforms, RotateTransforms DEF CallNext

(* For every power of two and every input, the in-place loops compute      *)
(* Sylvester's matrix times the input, and applying the matrix again gives *)
(* the input times the dimension (codec.h:125-147, docs/codec.md:50).      *)
THEOREM RotationTransforms == CallSpec => []Transforms
<1>1. TransformInv => Transforms BY DEF TransformInv
<1> QED BY <1>1, TransformInit, TransformStep, PTL DEF CallSpec
==================================================================================
