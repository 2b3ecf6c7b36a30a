--------------------------- MODULE MCCompressedCache ---------------------------
(* Three slots, two K/V heads: batches, overwrites, a nonfinite            *)
(* token, unwritten and out-of-range reads, drops, a swap and a chain of   *)
(* moves.                                                                  *)
EXTENDS CompressedCache

CONSTANTS a, b

L(s, t) == [loc |-> s, tok |-> t]
Q(ix, n, f) == [idx |-> ix, len |-> n, finite |-> f]

MCWrites == { <<L(0, a), L(1, b)>>, <<L(1, a)>>, <<L(0, b), L(0, a)>>, <<L(2, Bad)>>, <<L(3, a)>> }

MCReads ==
  { <<Q(<<0, 1>>, 2, TRUE), Q(<<2, 7>>, 1, TRUE)>>, <<Q(<<1, 0>>, 1, TRUE)>>,
    <<Q(<<0>>, 0, TRUE)>> }

MCMoves == { <<<<0, 1>>, <<1, 0>>>>, <<<<1, 2>>, <<0, 1>>>>, <<<<2, 2>>, <<0, 1>>>> }
MCDrops == { <<0>>, <<1, 1, 2>>, <<3>> }
===============================================================================
