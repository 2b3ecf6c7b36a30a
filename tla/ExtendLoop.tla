------------------------------ MODULE ExtendLoop -------------------------------
(***************************************************************************)
(* forward_extend of python/spry_uq/sglang_backend.py, step by step, after *)
(* its write: the checks of the host metadata, then one native attention   *)
(* call per chunk of a request's new queries, whose rows are stored into   *)
(* the output tensor.  The metadata comes from SGLang and may be wrong.    *)
(* The index rows are slices of its page table and end where that ends.    *)
(* An output row is <<request, causal length>>: what it was computed from. *)
(***************************************************************************)
EXTENDS Integers, Sequences, ExtendPlan

CONSTANTS
  Metadata,    \* host metadata of the batches, and the width of req_to_token
  CacheSlots   \* slots of the layer's cache

ASSUME MetadataAssumption ==
  /\ Metadata \subseteq [extend_lens : Seq(Int), prefix_lens : Seq(Int), seq_lens : Seq(Int),
                         batch_size : Nat, queries : Nat, table : Nat]
  /\ CacheSlots \in Nat

VARIABLES
  at,       \* "start", "request" (loop head), "chunk", "returned" or "raised"
  batch,    \* the metadata of this call
  request,  \* request_index, from 1
  start,    \* chunk_start
  offset,   \* token_offset
  output,   \* rows of output assigned so far
  poison    \* why the cache became _poisoned: "none", "length" or "other"

extendVars == <<at, batch, request, start, offset, output, poison>>

Extend(r) == batch.extend_lens[r]
PrefixOf(r) == batch.prefix_lens[r]
Final(r) == batch.seq_lens[r]

(* The slice [:final_len] of a row of req_to_token.                        *)
Width(r) == IF Final(r) < batch.table THEN Final(r) ELSE batch.table

ExtendInit ==
  /\ at = "start" /\ batch \in Metadata
  /\ request = 1 /\ start = 0 /\ offset = 0 /\ output = <<>>
  /\ poison = "none"

(* Mutant of MetadataAgrees: the number of queries is not checked.         *)
MetadataCountsOnly ==
  /\ Len(batch.extend_lens) = batch.batch_size
  /\ Len(batch.prefix_lens) = batch.batch_size
  /\ Len(batch.seq_lens) = batch.batch_size

MetadataAgrees ==
  /\ Len(batch.extend_lens) = batch.batch_size
  /\ Len(batch.prefix_lens) = batch.batch_size
  /\ Len(batch.seq_lens) = batch.batch_size
  /\ Offsets(batch.extend_lens)[Len(batch.extend_lens)] = batch.queries

Check ==
  /\ at = "start"
  /\ at' = IF MetadataAgrees THEN "request" ELSE "raised"
  /\ UNCHANGED <<batch, request, start, offset, output, poison>>

(* Mutant of LengthsConsistent: a negative prefix passes.                  *)
LengthsAddUp(r) == Extend(r) >= 1 /\ Final(r) = PrefixOf(r) + Extend(r)

LengthsConsistent(r) ==
  Extend(r) >= 1 /\ PrefixOf(r) >= 0 /\ Final(r) = PrefixOf(r) + Extend(r)

NextRequest ==
  /\ at = "request" /\ request <= batch.batch_size
  /\ at' = IF LengthsConsistent(request) THEN "chunk" ELSE "raised"
  /\ start' = 0
  /\ UNCHANGED <<batch, request, offset, output, poison>>

ReturnOutput ==
  /\ at = "request" /\ request > batch.batch_size
  /\ at' = "returned"
  /\ UNCHANGED <<batch, request, start, offset, output, poison>>

(* Mutant of ChunkRows: every chunk is stored where its request begins.    *)
ChunkRowsAtOffset == {offset + p - start : p \in Covered(Extend(request), start)}

(* Rows this chunk assigns, and what each is computed from.                *)
ChunkRows == {offset + p : p \in Covered(Extend(request), start)}

Assign ==
  output' = [q \in DOMAIN output \cup ChunkRows |->
               IF q \in ChunkRows
               THEN <<request, CausalLength(PrefixOf(request), start, q - offset)>>
               ELSE output[q]]

(* CompressedCache.attention gets as far as the native call.  A slice past *)
(* the last query would be short, and not fit its lengths.                 *)
Called ==
  /\ at = "chunk"
  /\ ChunkRows \subseteq 0..(batch.queries - 1)
  /\ Width(request) \in 1..CacheSlots

(* The kernel's bound on the lengths of the chunk.                         *)
LengthsFit ==
  \A p \in Covered(Extend(request), start) :
    CausalLength(PrefixOf(request), start, p) <= Width(request)

AttendChunk ==
  /\ Called /\ LengthsFit
  /\ Assign
  /\ IF start + Chunk < Extend(request)
     THEN start' = start + Chunk /\ UNCHANGED <<at, request, offset>>
     ELSE /\ at' = "request" /\ start' = 0
          /\ request' = request + 1 /\ offset' = offset + Extend(request)
  /\ UNCHANGED <<batch, poison>>

(* The kernel finds a length beyond its row: a native failure.             *)
RefuseLength ==
  /\ Called /\ ~LengthsFit
  /\ at' = "raised" /\ poison' = "length"
  /\ UNCHANGED <<batch, request, start, offset, output>>

(* Python refuses the call, or it fails natively for another reason.       *)
ChunkRaises ==
  /\ at = "chunk" /\ at' = "raised"
  /\ poison' \in IF Called THEN {"none", "other"} ELSE {"none"}
  /\ UNCHANGED <<batch, request, start, offset, output>>

ExtendNext ==
  Check \/ NextRequest \/ ReturnOutput \/ AttendChunk \/ RefuseLength \/ ChunkRaises

ExtendSpec == ExtendInit /\ [][ExtendNext]_extendVars
--------------------------------------------------------------------------------
(* Type invariant.                                                         *)
ExtendTypeOK ==
  /\ at \in {"start", "request", "chunk", "returned", "raised"}
  /\ batch \in Metadata /\ poison \in {"none", "length", "other"}
  /\ request \in Nat \ {0} /\ start \in Nat /\ offset \in Nat
  /\ DOMAIN output \subseteq Nat
  /\ \A q \in DOMAIN output : output[q] \in (Nat \ {0}) \X (Nat \ {0})

(* Row q + 1 continues where row q ended: one more token of the same       *)
(* request, or the first new token of the next once the request is done.   *)
Continues(a, b) ==
  IF a[2] < Final(a[1]) THEN b = <<a[1], a[2] + 1>>
  ELSE b = <<a[1] + 1, PrefixOf(a[1] + 1) + 1>>

(* The rows assigned are the first ones, without a gap, and go through the *)
(* requests in order, each from its first new token to its last, across    *)
(* chunk and request boundaries (the arithmetic of chunk_start, count and  *)
(* token_offset, sglang_backend.py:264-286).                               *)
RowsConsecutive ==
  LET n == offset + start IN
  /\ DOMAIN output = 0..(n - 1)
  /\ 0 \in DOMAIN output => output[0] = <<1, PrefixOf(1) + 1>>
  /\ \A q \in DOMAIN output : q + 1 \in DOMAIN output => Continues(output[q], output[q + 1])
  /\ at = "returned" /\ n > 0 =>
       output[n - 1] = <<batch.batch_size, Final(batch.batch_size)>>

(* A call that returns has assigned every query's row, and exactly as the  *)
(* plan the pool model uses says.                                          *)
PlanFollowed ==
  at = "returned" =>
    \A q \in 0..(batch.queries - 1) :
      /\ q \in DOMAIN output
      /\ Assigned(batch.extend_lens, batch.prefix_lens, q) = {output[q]}

(* A row once assigned keeps its value, and no attention call gets more    *)
(* than Chunk queries.  Lengths that pass the host's checks are refused by *)
(* the kernel, which costs the process its cache, only if the final length *)
(* exceeds the page table, which no check compares it with; and a call     *)
(* that returns had every final length within the table and the cache      *)
(* (sglang_backend.py:268-285, runtime.py:160, runtime_hip.hip:121-124).   *)
CallsBounded ==
  [][/\ \A q \in DOMAIN output : q \in DOMAIN output' /\ output'[q] = output[q]
     /\ \A q \in DOMAIN output' \ DOMAIN output : q - (offset + start) \in 0..(Chunk - 1)
     /\ poison' = "length" => Final(request) > batch.table
     /\ at' = "returned" =>
          \A r \in 1..batch.batch_size : Final(r) <= batch.table /\ Final(r) <= CacheSlots
    ]_extendVars
===============================================================================
