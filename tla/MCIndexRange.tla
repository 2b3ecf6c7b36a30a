----------------------------- MODULE MCIndexRange ------------------------------
(* An int of six bits, blocks of four threads: extents around the divisors *)
(* of 63 and of the block, zero and negative ones among them.              *)
EXTENDS IndexRange

Made(op, s, kv, d, n, q, w) ==
  [op |-> op, slots |-> s, kv |-> kv, dim |-> d, lanes |-> n, heads |-> q, width |-> w]

MCShapes ==
  { Made("write", s, kv, d, n, kv, 1) :
      s \in {0, 1, 3, 5, 15, 16}, kv \in {0, 1, 2, 3}, d \in {3, 4, 5}, n \in (-1)..16 }
  \cup
  { Made("attend", 7, kv, d, n, q, w) :
      kv \in {-1, 0, 1, 2}, d \in {4, 5}, n \in {-1, 0, 1, 3, 4, 5, 7, 8, 9, 15, 16},
      q \in {0, 1, 2, 3, 4}, w \in {-1, 1, 7, 8, 64} }
===============================================================================
