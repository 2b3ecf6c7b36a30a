---------------------------- MODULE MCPrepareSource ----------------------------
(* Two runs that prepare the same output, one whose output is refused, and *)
(* one verification; two patches and two overlay files.  The second lock   *)
(* is on a commit that has the overlay package, the third on fewer patches.*)
(* The first edit of a patch changes it, the second takes that back.       *)
EXTENDS PrepareSource, TLC

CONSTANTS r1, r2, r3, r4, o1, o2, p1, p2, c1, c2, c3

MCOutputOf == r1 :> o1 @@ r2 :> o1 @@ r3 :> o2 @@ r4 :> o2
MCText == [p \in {p1, p2} |-> <<1, 2, 1>>]
MCLocks ==
  << [commit |-> c1, patches |-> <<p1, p2>>, sha |-> p1 :> 1 @@ p2 :> 1],
     [commit |-> c2, patches |-> <<p2, p1>>, sha |-> p1 :> 2 @@ p2 :> 1],
     [commit |-> c3, patches |-> <<p2>>, sha |-> p1 :> 1 @@ p2 :> 1] >>

Pair == Permutations({r1, r2})
================================================================================
