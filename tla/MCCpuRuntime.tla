------------------------------ MODULE MCCpuRuntime -----------------------------
(* Three slots, two K/V heads shared by four query heads.  Writes of up to *)
(* two lanes with every choice of slot, in range or not, and token, one of *)
(* three lanes with a late duplicate; reads of one lane with two indices   *)
(* and of two lanes with one, of any length, finite or not.                *)
EXTENDS CpuRuntime

CONSTANTS a, b

WLanes == [loc : -1..SlotCount, tok : {a, b, Bad}]
RLanes(w) == [idx : [1..w -> 0..SlotCount], len : -1..(w + 1), finite : BOOLEAN]

MCWrites ==
  {<<>>} \cup {<<x>> : x \in WLanes} \cup {<<x, y>> : x, y \in WLanes}
  \cup {<<[loc |-> 1, tok |-> a], [loc |-> 2, tok |-> Bad], [loc |-> 1, tok |-> b]>>}
MCReads ==
  {<<>>} \cup {<<x>> : x \in RLanes(2)} \cup {<<x, y>> : x, y \in RLanes(1)}
================================================================================
