-------------------------------- MODULE MCCodec --------------------------------
(* Groups of two values: every value within +-64 units beside a few others,*)
(* in units from the least subnormal to the largest finite floats.         *)
EXTENDS Codec

Finite(u, x) == u < 122 \/ x \in (-63)..63

MCGroups ==
  { g \in [unit : {-149, -24, 0, 6, 122}, val : [1..2 -> (-64)..64]] :
      /\ g.val[2] \in {0, -1, 5, 64}
      /\ (g.val = <<0, 0>>) => g.unit = 0
      /\ Finite(g.unit, g.val[1]) /\ Finite(g.unit, g.val[2]) }
===============================================================================
