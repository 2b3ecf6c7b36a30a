---------------------------- MODULE MCPrefixWrite -----------------------------
(* Two layers of four slots, from layer 3 on.  Matrices of two and three   *)
(* columns whose padding is -1, out of range or a repeated slot.           *)
EXTENDS PrefixWrite

Prefix(layer, loc, lens) ==
  [op |-> "prefix", scaled |-> FALSE, layer |-> layer, override |-> NoOverride,
   rows |-> Len(loc), cols |-> IF loc = <<>> THEN 2 ELSE Len(loc[1]), loc |-> loc, lens |-> lens,
   kRows |-> IF loc = <<>> THEN 0 ELSE Len(loc) * Len(loc[1]),
   vRows |-> IF loc = <<>> THEN 0 ELSE Len(loc) * Len(loc[1])]

Plain(layer, loc) ==
  [Prefix(layer, <<loc>>, <<>>) EXCEPT !.op = "plain"]

Wide == << <<0, 1, -1>>, <<2, 2, 1>> >>
Tall == << <<3, 0>>, <<-1, 9>>, <<0, 1>> >>

MCCalls ==
  {Prefix(3, Wide, l) : l \in {<<1, 1>>, <<0, 2>>, <<3, 0>>, <<2, 4>>, <<0, 0>>, <<1>>}}
  \cup {Prefix(4, Tall, l) : l \in {<<1, 0, 0>>, <<2, -1, 0>>, <<0, 1, 0>>}}
  \cup {[Prefix(4, Wide, <<2, 0>>) EXCEPT !.override = 3], [Prefix(3, Tall, <<0, 0, 1>>) EXCEPT !.override = 4]}
  \cup {Prefix(l, << <<1>> >>, <<1>>) : l \in {1, 2, 5}}
  \cup {Prefix(3, << >>, << >>), [Prefix(3, Wide, <<1, 1>>) EXCEPT !.vRows = 5]}
  \cup {Plain(3, <<2, 0>>), Plain(4, <<1, 1>>), [Plain(3, <<2>>) EXCEPT !.scaled = TRUE]}
===============================================================================
