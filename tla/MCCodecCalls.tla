----------------------------- MODULE MCCodecCalls ------------------------------
(* Three dimensions of one, two and four groups, one group more or less,   *)
(* and none; every choice of one or two groups at fault, and buffers a     *)
(* byte or a group off.  Rotations of every vector of -2, 0 and 1, on both *)
(* sides of the limit of 20, finite or not.                                *)
EXTENDS CodecCalls

Of(o, p, n, d, b, f, x) ==
  [op |-> o, python |-> p, null |-> n, dim |-> d, bytes |-> b, bad |-> f \cap 1..(d \div 2), x |-> x]

MCCalls ==
  {Of(o, p, FALSE, d, b, f, <<>>) :
     o \in {"encode", "decode"}, p \in BOOLEAN, d \in {0, 1, 2, 3, 4, 8, 16},
     b \in {0, 2, 3, 5, 6, 12}, f \in {{}, {1}, {2}, {4}, {1, 4}}}
  \cup {Of(o, FALSE, TRUE, d, 6, {}, [j \in 0..(d - 1) |-> 1]) : o \in {"encode", "decode", "rotate"}, d \in {4, 5}}
  \cup UNION {{Of("rotate", p, FALSE, d, 0, f, x) : x \in [0..(d - 1) -> {-3, 0, 2, 5, 6, 11}]} :
                p \in BOOLEAN, d \in {1, 2}, f \in {{}, {1}}}
  \cup {Of("rotate", FALSE, FALSE, 4, 0, f, x) : f \in {{}, {1, 2}}, x \in [0..3 -> {-3, 1, 5, 6}]}
  \cup {Of("rotate", FALSE, FALSE, 8, 0, {}, x) : x \in [0..7 -> {-2, 0, 1}] \cup [0..7 -> {-3, 3}]}
================================================================================
