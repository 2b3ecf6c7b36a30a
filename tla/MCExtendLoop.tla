----------------------------- MODULE MCExtendLoop ------------------------------
(* Every metadata of up to three requests with extend lengths around the   *)
(* chunk size, wrong ones among them: zero and negative lengths, a final   *)
(* length that is off by one, a query count that is; page tables narrower  *)
(* and wider than the cache has slots, and final lengths beyond each.      *)
EXTENDS ExtendLoop

Lens ==
  {<<x>> : x \in (-1)..5} \cup ({-1, 0, 1, 2, 3, 5} \X {-1, 1, 2, 5})
  \cup ({1, 2, 3} \X {-1, 1, 2} \X {1, 3})

(* p: prefix of the first request; o: error of the last final length; m:   *)
(* of the batch size; n: of the number of queries; t: width of the table.  *)
Made(e, p, o, m, n, t) ==
  LET prefix == SubSeq(<<p, 1, 2>>, 1, Len(e)) IN
  [extend_lens |-> e, prefix_lens |-> prefix,
   seq_lens |-> SubSeq([i \in 1..Len(e) |->
     e[i] + prefix[i] + (IF i = Len(e) THEN o ELSE 0)], 1, Len(e)),
   batch_size |-> Len(e) + m, table |-> t,
   queries |-> LET sum == Offsets(e)[Len(e)] + n IN IF sum < 0 THEN 0 ELSE sum]

MCMetadata ==
  { Made(e, p, o, m, n, t) : e \in Lens, p \in {-1, 0, 2}, o \in {-1, 0}, m \in {0, 1},
                             n \in {0, 1}, t \in {4, 6} }
===============================================================================
