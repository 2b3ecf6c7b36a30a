------------------------------- MODULE SlotMaps -------------------------------
(***************************************************************************)
(* Parallel updates of a map from physical slots to what they hold.  The   *)
(* three bulk operations every layer of the cache offers - scatter a       *)
(* batch, drop a set of slots, copy slots to slots - differ only in what a *)
(* slot holds, so they are defined once for any map f.                     *)
(***************************************************************************)
EXTENDS Naturals, Sequences

(* f after scattering w, a sequence of records with fields loc and tok     *)
(* whose loc are distinct.                                                 *)
Stored(f, w) ==
  [s \in DOMAIN f |->
     IF \E i \in 1..Len(w) : w[i].loc = s
     THEN w[CHOOSE i \in 1..Len(w) : w[i].loc = s].tok
     ELSE f[s]]

(* f after every slot of S has been set to e.                              *)
Dropped(f, S, e) == [s \in DOMAIN f |-> IF s \in S THEN e ELSE f[s]]

(* f after dst[i] := f[src[i]] for all i at once: every right-hand side is *)
(* read before any slot changes.                                           *)
Moved(f, dst, src) ==
  [s \in DOMAIN f |->
     IF \E i \in 1..Len(dst) : dst[i] = s
     THEN f[src[CHOOSE i \in 1..Len(dst) : dst[i] = s]]
     ELSE f[s]]

Distinct(q) == \A i, j \in 1..Len(q) : i # j => q[i] # q[j]
===============================================================================
