------------------------------- MODULE MCStartup -------------------------------
(* Launches with and without the option: the three head dimensions, one    *)
(* that is not supported and one with values of another width; one, two    *)
(* and three layers; extents on both sides of an index limit of 4352.      *)
EXTENDS Startup

Of(o, h, d, v, n, s, p) ==
  [spry |-> o, heads |-> h, dim |-> d, vdim |-> v, layers |-> n, size |-> s, page |-> p]

MCLaunches ==
  {Of(o, h, d, d, n, s, 1) : o \in BOOLEAN, h \in {1, 2}, d \in {64, 128}, n \in {1, 3}, s \in {16, 33}}
  \cup {Of(o, 1, d, v, 2, 12, 4) : o \in BOOLEAN, d \in {96, 256}, v \in {128, 256}}
================================================================================
