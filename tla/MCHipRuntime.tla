----------------------------- MODULE MCHipRuntime ------------------------------
(* Two slots, two K/V heads shared by four query heads, two tokens; raw    *)
(* ABI calls of one or two lanes, with duplicate and out-of-range slots,   *)
(* a nonfinite token, unwritten and out-of-range reads, entries beyond     *)
(* len, zero and excessive lengths.                                        *)
EXTENDS HipRuntime

CONSTANTS a, b

L(s, t) == [loc |-> s, tok |-> t]
Q(ix, n, f) == [idx |-> ix, len |-> n, finite |-> f]

MCWrites ==
  { <<L(0, a), L(1, b)>>, <<L(1, a)>>, <<L(0, a), L(0, b)>>,
    <<L(1, b), L(-1, a)>>, <<L(1, Bad)>>, <<L(0, Bad), L(2, a)>> }

MCReads ==
  { <<Q(<<0, 1>>, 2, TRUE), Q(<<1, 2>>, 1, TRUE)>>,
    <<Q(<<1, 9>>, 1, TRUE)>>,
    <<Q(<<0>>, 0, TRUE), Q(<<0>>, 1, FALSE)>>,
    <<Q(<<0>>, 2, TRUE)>> }
===============================================================================
