------------------------------ MODULE ExtendPlan -------------------------------
(***************************************************************************)
(* How forward_extend of python/spry_uq/sglang_backend.py cuts a batch of  *)
(* new queries into bounded attention calls: the queries of the batch are  *)
(* concatenated request by request, each request's are processed in chunks *)
(* of at most Chunk, and every query of a chunk is given its own causal    *)
(* length.  Variable-free.                                                 *)
(***************************************************************************)
EXTENDS Naturals, Sequences

CONSTANT Chunk   \* _extend_chunk

ASSUME ChunkAssumption == Chunk \in Nat \ {0}

(* Offsets(ext)[i]: queries of the first i requests; token_offset is       *)
(* Offsets(ext)[i - 1] while request i is processed.                       *)
Offsets(ext) ==
  LET off[i \in 0..Len(ext)] == IF i = 0 THEN 0 ELSE off[i - 1] + ext[i]
  IN  off

(* range(0, extend_len, self._extend_chunk)                                *)
ChunkStarts(e) == {s \in 0..(e - 1) : s % Chunk = 0}

(* Mutant of Count: the last chunk is not shortened.                       *)
CountFull(e, s) == Chunk

Count(e, s) == IF Chunk < e - s THEN Chunk ELSE e - s

(* Positions of output, relative to token_offset, chunk s of e queries     *)
(* fills.                                                                  *)
Covered(e, s) == s..(s + Count(e, s) - 1)

(* Mutant of CausalLength: every chunk counts from the first.              *)
CausalLengthOfFirstChunk(prefix, s, q) == prefix + 1 + (q - s)

(* Causal length torch.arange gives query q of the chunk that starts at s. *)
CausalLength(prefix, s, q) == prefix + s + 1 + (q - s)

(* Every <<request, length>> the batch computes output row q from.         *)
Assigned(ext, prefix, q) ==
  { <<a[1], CausalLength(prefix[a[1]], a[2], q - Offsets(ext)[a[1] - 1])>> :
      a \in { b \in (1..Len(ext)) \X (0..Offsets(ext)[Len(ext)]) :
                /\ b[2] \in ChunkStarts(ext[b[1]])
                /\ q - Offsets(ext)[b[1] - 1] \in Covered(ext[b[1]], b[2]) } }
===============================================================================
