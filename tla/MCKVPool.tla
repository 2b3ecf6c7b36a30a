------------------------------- MODULE MCKVPool --------------------------------
(* Two layers, pages of two slots, three requests over two table rows: a   *)
(* page is filled in two passes, shared, released, reused and moved.       *)
EXTENDS KVPool, TLC

CONSTANTS r1, r2, r3

Symmetry == Permutations(Requests)
MCSkews == {-1, 0, 1}
===============================================================================
