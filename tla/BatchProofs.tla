------------------------------ MODULE BatchProofs ------------------------------
(***************************************************************************)
(* Proofs about what the SGLang backend and pool do with the tensors of a  *)
(* batch: forward_extend's chunk loop (ExtendLoop), for every chunk size   *)
(* and every metadata SGLang may pass, and the writes of a prefix of each  *)
(* row's locations (PrefixWrite), for any layers, slots and calls.         *)
(***************************************************************************)
EXTENDS ExtendLoop, PrefixWrite, ExtendPlanProofs, TLAPS

(* The metadata a loop works on has one length of each kind per request.   *)
LensTyped ==
  \A r \in 1..batch.batch_size :
    Extend(r) \in Int /\ PrefixOf(r) \in Int /\ Final(r) \in Int

(* Where the loop is, by its program location.                             *)
LoopShape ==
  /\ at \notin {"chunk", "raised"} => start = 0
  /\ at = "start" => request = 1 /\ offset = 0
  /\ at \in {"request", "chunk", "returned"} => LensTyped /\ request <= batch.batch_size + 1
  /\ at = "returned" => request = batch.batch_size + 1
  /\ at = "chunk" =>
       request <= batch.batch_size /\ LengthsConsistent(request) /\ start < Extend(request)

(* What the last row assigned is, when there is one.                       *)
LastRow ==
  LET n == offset + start IN
  /\ n = 0 => request = 1
  /\ n > 0 =>
       output[n - 1] = IF start = 0 THEN <<request - 1, Final(request - 1)>>
                       ELSE <<request, PrefixOf(request) + start>>

RowsLinked ==
  /\ DOMAIN output = 0..(offset + start - 1)
  /\ 0 \in DOMAIN output => output[0] = <<1, PrefixOf(1) + 1>>
  /\ \A q \in DOMAIN output : q + 1 \in DOMAIN output => Continues(output[q], output[q + 1])

LoopInv == ExtendTypeOK /\ LoopShape /\ LastRow /\ RowsLinked
--------------------------------------------------------------------------------
(* A chunk is nonempty, within the chunk size and the request, and the     *)
(* last one ends where the request ends.                                   *)
LEMMA ChunkFacts ==
  ASSUME NEW e \in Nat, NEW s \in Nat, s < e
  PROVE  /\ Count(e, s) \in 1..Chunk /\ s + Count(e, s) <= e
         /\ Covered(e, s) = s..(s + Count(e, s) - 1)
         /\ s + Chunk < e => Count(e, s) = Chunk
         /\ ~(s + Chunk < e) => s + Count(e, s) = e
  BY ChunkAssumption, SMT DEF Count, Covered

(* Metadata that pass the checks are lists of batch_size integers.         *)
LEMMA LensTypes == batch \in Metadata /\ MetadataAgrees => LensTyped
<1> SUFFICES ASSUME batch \in Metadata, MetadataAgrees PROVE LensTyped
  OBVIOUS
<1>1. /\ batch.extend_lens \in Seq(Int) /\ batch.prefix_lens \in Seq(Int)
      /\ batch.seq_lens \in Seq(Int)
  BY MetadataAssumption
<1>2. /\ Len(batch.extend_lens) = batch.batch_size
      /\ Len(batch.prefix_lens) = batch.batch_size
      /\ Len(batch.seq_lens) = batch.batch_size
  BY DEF MetadataAgrees
<1> QED BY <1>1, <1>2, SMT DEF LensTyped, Extend, PrefixOf, Final

(* The invariant holds when forward_extend starts.                         *)
LEMMA LoopInitInv == ExtendInit => LoopInv
<1> SUFFICES ASSUME ExtendInit PROVE LoopInv
  OBVIOUS
<1>1. output = <<>> /\ DOMAIN output = {} /\ offset + start = 0
  BY SMT DEF ExtendInit
<1>2. ExtendTypeOK
  BY <1>1, SMT DEF ExtendInit, ExtendTypeOK
<1>3. LoopShape /\ LastRow
  BY <1>1, SMT DEF ExtendInit, LoopShape, LastRow
<1>4. RowsLinked
  BY <1>1, SMT DEF ExtendInit, RowsLinked
<1> QED BY <1>2, <1>3, <1>4 DEF LoopInv

(* The rows one chunk assigns: the next ones, consecutive, of one request. *)
LEMMA ChunkAssigns ==
  ASSUME LoopInv, AttendChunk
  PROVE  LET c == Count(Extend(request), start)
             n == offset + start
         IN  /\ Extend(request) \in Nat /\ PrefixOf(request) \in Nat
             /\ Final(request) = PrefixOf(request) + Extend(request)
             /\ c \in 1..Chunk /\ start + c <= Extend(request)
             /\ DOMAIN output' = 0..(n + c - 1)
             /\ \A q \in 0..(n - 1) : output'[q] = output[q]
             /\ \A q \in n..(n + c - 1) :
                  output'[q] = <<request, PrefixOf(request) + (q - offset) + 1>>
             /\ offset' + start' = n + c
<1> DEFINE e == Extend(request)
           p == PrefixOf(request)
           c == Count(e, start)
           n == offset + start
<1>1. /\ at = "chunk" /\ request \in Nat \ {0} /\ start \in Nat /\ offset \in Nat
      /\ request <= batch.batch_size /\ LensTyped
      /\ LengthsConsistent(request) /\ start < e
  BY SMT DEF LoopInv, ExtendTypeOK, LoopShape, AttendChunk, Called
<1>2. batch.batch_size \in Nat
  BY MetadataAssumption DEF LoopInv, ExtendTypeOK
<1>3. e \in Int /\ p \in Int /\ Final(request) \in Int
  BY <1>1, <1>2, SMT DEF LensTyped
<1>4. e \in Nat /\ p \in Nat /\ Final(request) = p + e
  BY <1>1, <1>3, SMT DEF LengthsConsistent
<1>5. /\ c \in 1..Chunk /\ start + c <= e
      /\ Covered(e, start) = start..(start + c - 1)
      /\ start + Chunk < e => c = Chunk
      /\ ~(start + Chunk < e) => start + c = e
  BY <1>1, <1>4, ChunkFacts
<1>6. ChunkRows = n..(n + c - 1)
  <2> HIDE DEF c, e
  <2>1. \A x \in n..(n + c - 1) : x - offset \in start..(start + c - 1) /\ x = offset + (x - offset)
    BY <1>1, <1>5, SMT
  <2>2. \A y \in start..(start + c - 1) : offset + y \in n..(n + c - 1)
    BY <1>1, <1>5, SMT
  <2> QED BY <2>1, <2>2, <1>5 DEF ChunkRows, e
<1>7. DOMAIN output = 0..(n - 1)
  <2>1. RowsLinked
    BY DEF LoopInv
  <2>2. DOMAIN output = 0..(offset + start - 1)
    BY <2>1, Zenon DEF RowsLinked
  <2> QED BY <2>2, <1>1, SMT
<1>8. output' = [q \in DOMAIN output \cup ChunkRows |->
                   IF q \in ChunkRows THEN <<request, CausalLength(p, start, q - offset)>>
                   ELSE output[q]]
  BY DEF AttendChunk, Assign
<1>9. \A q \in n..(n + c - 1) : CausalLength(p, start, q - offset) = p + (q - offset) + 1
  <2> HIDE DEF c, p
  <2> QED BY <1>1, <1>4, <1>5, SMT DEF CausalLength
<1>10. (0..(n - 1)) \cup (n..(n + c - 1)) = 0..(n + c - 1)
  <2> HIDE DEF c
  <2> QED BY <1>1, <1>5, SMT
<1>11. DOMAIN output' = 0..(n + c - 1)
  BY <1>6, <1>7, <1>8, <1>10
<1>12. \A q \in 0..(n - 1) : output'[q] = output[q]
  <2> HIDE DEF c
  <2>1. \A q \in 0..(n - 1) : q \notin n..(n + c - 1)
    BY <1>1, <1>5, SMT
  <2> QED BY <2>1, <1>6, <1>7, <1>8
<1>13. \A q \in n..(n + c - 1) : output'[q] = <<request, p + (q - offset) + 1>>
  BY <1>6, <1>8, <1>9
<1>14. offset' + start' = n + c
  <2> HIDE DEF c
  <2>1. CASE start + Chunk < e
    BY <2>1, <1>1, <1>5, SMT DEF AttendChunk
  <2>2. CASE ~(start + Chunk < e)
    BY <2>2, <1>1, <1>4, <1>5, SMT DEF AttendChunk
  <2> QED BY <2>1, <2>2
<1> QED BY <1>4, <1>5, <1>11, <1>12, <1>13, <1>14

(* Every step of the loop preserves the invariant.                         *)
LEMMA LoopStepInv == LoopInv /\ [ExtendNext]_extendVars => LoopInv'
<1> SUFFICES ASSUME LoopInv, [ExtendNext]_extendVars PROVE LoopInv'
  OBVIOUS
<1>0. batch.batch_size \in Nat /\ poison \in {"none", "length", "other"}
  BY MetadataAssumption DEF LoopInv, ExtendTypeOK
<1>1. ASSUME UNCHANGED <<batch, request, start, offset, output>>,
             at' \in {"start", "request", "chunk", "returned", "raised"},
             poison' \in {"none", "length", "other"}
      PROVE  ExtendTypeOK' /\ LastRow' /\ RowsLinked'
  <2>1. ExtendTypeOK'
    BY <1>1 DEF LoopInv, ExtendTypeOK
  <2>2. LastRow' /\ RowsLinked'
    BY <1>1 DEF LoopInv, LastRow, RowsLinked, Continues, Final, PrefixOf
  <2> QED BY <2>1, <2>2
<1>2. CASE Check
  <2>1. UNCHANGED <<batch, request, start, offset, output, poison>> /\ at' \in {"request", "raised"}
    BY <1>2 DEF Check
  <2>2. at' = "request" => LensTyped
    BY <1>2, LensTypes DEF Check, LoopInv, ExtendTypeOK
  <2>3. start = 0 /\ request = 1
    BY <1>2 DEF Check, LoopInv, LoopShape
  <2>4. LoopShape'
    BY <1>0, <2>1, <2>2, <2>3, SMT DEF LoopShape, LensTyped, Extend, PrefixOf, Final
  <2> QED BY <1>0, <1>1, <2>1, <2>4 DEF LoopInv
<1>3. CASE NextRequest
  <2>1. /\ UNCHANGED <<batch, request, start, offset, output, poison>>
        /\ start = 0 /\ at' \in {"chunk", "raised"} /\ request <= batch.batch_size
        /\ at' = "chunk" => LengthsConsistent(request)
        /\ LensTyped
    BY <1>3 DEF NextRequest, LoopInv, LoopShape
  <2>2. at' = "chunk" => start < Extend(request)
    BY <1>0, <2>1, SMT DEF LensTyped, LengthsConsistent, LoopInv, ExtendTypeOK
  <2>3. LensTyped' /\ (LengthsConsistent(request) => LengthsConsistent(request)')
        /\ Extend(request)' = Extend(request)
    BY <2>1 DEF LensTyped, LengthsConsistent, Extend, PrefixOf, Final
  <2>4. request <= batch.batch_size + 1
    BY <2>1, <1>0, SMT DEF LoopInv, ExtendTypeOK
  <2>5. LoopShape'
    BY <2>1, <2>2, <2>3, <2>4 DEF LoopShape
  <2> QED BY <1>0, <1>1, <2>1, <2>5 DEF LoopInv
<1>4. CASE ReturnOutput
  <2>1. /\ UNCHANGED <<batch, request, start, offset, output, poison>> /\ at' = "returned"
        /\ start = 0 /\ request = batch.batch_size + 1 /\ LensTyped
    BY <1>4, <1>0, SMT DEF ReturnOutput, LoopInv, LoopShape, ExtendTypeOK
  <2>2. LensTyped'
    BY <2>1 DEF LensTyped, Extend, PrefixOf, Final
  <2>3. LoopShape'
    BY <1>0, <2>1, <2>2, SMT DEF LoopShape
  <2> QED BY <1>0, <1>1, <2>1, <2>3 DEF LoopInv
<1>5. CASE RefuseLength \/ ChunkRaises
  <2>1. /\ UNCHANGED <<batch, request, start, offset, output>> /\ at' = "raised"
        /\ poison' \in {"none", "length", "other"}
    BY <1>5 DEF RefuseLength, ChunkRaises
  <2>2. LoopShape'
    BY <2>1 DEF LoopShape
  <2> QED BY <1>1, <2>1, <2>2 DEF LoopInv
<1>6. CASE AttendChunk
  <2> DEFINE e == Extend(request)
             p == PrefixOf(request)
             c == Count(e, start)
             n == offset + start
  <2>1. /\ e \in Nat /\ p \in Nat /\ Final(request) = p + e
        /\ c \in 1..Chunk /\ start + c <= e
        /\ DOMAIN output' = 0..(n + c - 1)
        /\ \A q \in 0..(n - 1) : output'[q] = output[q]
        /\ \A q \in n..(n + c - 1) : output'[q] = <<request, p + (q - offset) + 1>>
        /\ offset' + start' = n + c
    BY <1>6, ChunkAssigns
  <2> HIDE DEF c, e, p
  <2>2. /\ at = "chunk" /\ request \in Nat \ {0} /\ start \in Nat /\ offset \in Nat
        /\ request <= batch.batch_size /\ LensTyped /\ batch' = batch
        /\ LengthsConsistent(request) /\ start < e
    BY <1>6, SMT DEF LoopInv, ExtendTypeOK, LoopShape, AttendChunk, Called, e
  <2>3. /\ DOMAIN output = 0..(n - 1)
        /\ 0 \in DOMAIN output => output[0] = <<1, PrefixOf(1) + 1>>
        /\ \A q \in DOMAIN output : q + 1 \in DOMAIN output => Continues(output[q], output[q + 1])
        /\ \A q \in DOMAIN output : output[q] \in (Nat \ {0}) \X (Nat \ {0})
    <3>1. RowsLinked /\ ExtendTypeOK
      BY DEF LoopInv
    <3>2. n - 1 = offset + start - 1
      BY <2>2, SMT
    <3> QED BY <3>1, <3>2 DEF RowsLinked, ExtendTypeOK
  <2>4. /\ n = 0 => request = 1
        /\ n > 0 => output[n - 1] = IF start = 0 THEN <<request - 1, Final(request - 1)>>
                                    ELSE <<request, p + start>>
    BY DEF LoopInv, LastRow, p
  <2>0. /\ at' \in {"request", "chunk"} /\ batch' \in Metadata
        /\ request' \in Nat \ {0} /\ start' \in Nat /\ offset' \in Nat
        /\ poison' \in {"none", "length", "other"}
    <3>1. batch' \in Metadata /\ poison' \in {"none", "length", "other"}
      BY <1>0, <1>6, <2>2 DEF LoopInv, ExtendTypeOK, AttendChunk
    <3>2. CASE start + Chunk < e
      <4>1. start' = start + Chunk /\ UNCHANGED <<at, request, offset>>
        BY <1>6, <3>2 DEF AttendChunk, e
      <4> QED BY <4>1, <3>1, <2>2, ChunkAssumption
    <3>3. CASE ~(start + Chunk < e)
      <4>1. at' = "request" /\ start' = 0 /\ request' = request + 1 /\ offset' = offset + e
        BY <1>6, <3>3 DEF AttendChunk, e
      <4> QED BY <4>1, <3>1, <2>1, <2>2
    <3> QED BY <3>2, <3>3
  <2>5. DOMAIN output' = 0..(offset' + start' - 1)
    <3>1. n + c - 1 = (n + c) - 1
      BY <2>1, <2>2, ChunkAssumption, SMT
    <3>2. offset' \in Nat /\ start' \in Nat
      BY <2>0
    <3>3. offset' + start' - 1 = n + c - 1
      BY <3>1, <3>2, <2>1, SMT
    <3> QED BY <3>3, <2>1
  <2>6. ExtendTypeOK'
    <3>1. \A q \in 0..(n + c - 1) : q \in 0..(n - 1) \/ q \in n..(n + c - 1)
      BY <2>1, <2>2, SMT
    <3>2. \A q \in n..(n + c - 1) : output'[q] \in (Nat \ {0}) \X (Nat \ {0})
      <4> SUFFICES ASSUME NEW q \in n..(n + c - 1)
                   PROVE  output'[q] \in (Nat \ {0}) \X (Nat \ {0})
        OBVIOUS
      <4>1. p + (q - offset) + 1 \in Nat \ {0}
        BY <2>1, <2>2, SMT
      <4>2. output'[q] = <<request, p + (q - offset) + 1>>
        BY <2>1
      <4> QED BY <4>1, <4>2, <2>2
    <3>3. \A q \in DOMAIN output' : output'[q] \in (Nat \ {0}) \X (Nat \ {0})
      BY <3>1, <3>2, <2>1, <2>3
    <3>4. DOMAIN output' \subseteq Nat
      BY <2>1, <2>2, SMT
    <3> QED BY <2>0, <3>3, <3>4 DEF ExtendTypeOK
  <2>7. LoopShape' /\ LastRow'
    <3>1. LensTyped' /\ Extend(request) = e /\ PrefixOf(request) = p
      BY <2>2 DEF LensTyped, Extend, PrefixOf, Final, e, p
    <3>2. output'[n + c - 1] = <<request, p + (start + c)>>
      <4>1. n + c - 1 \in n..(n + c - 1) /\ p + ((n + c - 1) - offset) + 1 = p + (start + c)
        BY <2>1, <2>2, ChunkAssumption, SMT
      <4> QED BY <4>1, <2>1
    <3>3. n + c > 0 /\ (offset' + start') - 1 = n + c - 1
      <4>1. n \in Nat /\ c \in Nat \ {0} /\ offset' + start' = n + c
        BY <2>1, <2>2, ChunkAssumption
      <4> HIDE DEF n
      <4> QED BY <4>1, SMT
    <3>4. CASE start + Chunk < e
      <4>1. start' = start + Chunk /\ UNCHANGED <<at, request, offset, batch>>
        BY <1>6, <3>4 DEF AttendChunk, e
      <4>2. c = Chunk
        BY <3>4, <2>1, <2>2, ChunkFacts DEF c
      <4>3. LoopShape'
        <5>1. LengthsConsistent(request)' /\ Extend(request)' = e
          BY <4>1, <2>2 DEF LengthsConsistent, Extend, PrefixOf, Final, e
        <5> QED BY <5>1, <4>1, <3>1, <3>4, <2>2, <1>0, SMT DEF LoopShape
      <4>4. PrefixOf(request)' = p /\ start' # 0
        BY <4>1, <2>2, ChunkAssumption, SMT DEF PrefixOf, p
      <4>5. LastRow'
        <5>1. output'[(offset' + start') - 1] = <<request', PrefixOf(request)' + start'>>
          <6>1. PrefixOf(request)' + start' = p + (start + c) /\ request' = request
            BY <4>1, <4>2, <4>4
          <6> QED BY <6>1, <3>2, <3>3
        <5>2. offset' + start' > 0
          BY <3>3, <2>1
        <5> QED BY <5>1, <5>2, <4>4, SMT DEF LastRow
      <4> QED BY <4>3, <4>5
    <3>5. CASE ~(start + Chunk < e)
      <4>1. at' = "request" /\ start' = 0 /\ request' = request + 1 /\ batch' = batch
        BY <1>6, <3>5 DEF AttendChunk, e
      <4>2. start + c = e
        BY <3>5, <2>1, <2>2, ChunkFacts DEF c
      <4>3. LoopShape'
        BY <4>1, <3>1, <2>2, <1>0, SMT DEF LoopShape
      <4>4. request' - 1 = request
        BY <4>1, <2>2, SMT
      <4>5. LastRow'
        <5>1. Final(request - 1)' = p + (start + c)
          BY <4>1, <4>2, <4>4, <2>1 DEF Final
        <5>2. output'[(offset' + start') - 1] = <<request' - 1, Final(request - 1)'>>
          BY <5>1, <3>2, <3>3, <4>4
        <5>3. offset' + start' > 0
          BY <3>3, <2>1
        <5> QED BY <5>2, <5>3, <4>1, SMT DEF LastRow
      <4> QED BY <4>3, <4>5
    <3> QED BY <3>4, <3>5
  <2>8. RowsLinked'
    <3>1. \A a, b : Continues(a, b)' <=> Continues(a, b)
      BY <2>2 DEF Continues, Final, PrefixOf
    <3>2. 0 \in DOMAIN output' => output'[0] = (<<1, PrefixOf(1) + 1>>)'
      <4>1. PrefixOf(1)' = PrefixOf(1)
        BY <2>2 DEF PrefixOf
      <4>2. CASE n = 0
        <5>1. request = 1 /\ offset = 0 /\ 0 \in n..(n + c - 1)
          BY <4>2, <2>1, <2>2, <2>4, SMT
        <5>2. output'[0] = <<request, p + (0 - offset) + 1>>
          BY <5>1, <2>1
        <5>3. p + (0 - offset) + 1 = p + 1
          BY <5>1, <2>1, SMT
        <5> QED BY <5>1, <5>2, <5>3, <4>1 DEF p
      <4>3. CASE n # 0
        <5>1. 0 \in 0..(n - 1)
          BY <4>3, <2>2, SMT
        <5> QED BY <5>1, <4>1, <2>1, <2>3
      <4> QED BY <4>2, <4>3
    <3>3. ASSUME NEW q \in 0..(n + c - 1), q + 1 \in 0..(n + c - 1)
          PROVE  Continues(output'[q], output'[q + 1])
      <4>1. CASE q + 1 < n
        <5>1. q \in 0..(n - 1) /\ q + 1 \in 0..(n - 1)
          BY <4>1, <3>3, <2>2, SMT
        <5> QED BY <5>1, <2>1, <2>3
      <4>2. CASE q + 1 = n
        <5>1. q = n - 1 /\ n > 0 /\ q \in 0..(n - 1) /\ q + 1 \in n..(n + c - 1)
          <6>1. q \in Nat /\ n \in Nat /\ c \in Nat \ {0} /\ n = q + 1
            BY <4>2, <3>3, <2>1, <2>2, ChunkAssumption
          <6> HIDE DEF n
          <6> QED BY <6>1
        <5>2. output'[q + 1] = <<request, p + (n - offset) + 1>>
          BY <5>1, <2>1, <4>2
        <5>3. output'[q] = IF start = 0 THEN <<request - 1, Final(request - 1)>>
                           ELSE <<request, p + start>>
          BY <5>1, <2>1, <2>4
        <5>4. CASE start = 0
          <6>1. output'[q] = <<request - 1, Final(request - 1)>>
            BY <5>3, <5>4
          <6>2. (request - 1) + 1 = request /\ p + (n - offset) + 1 = p + 1
            BY <5>4, <2>1, <2>2, SMT
          <6>3. ~(Final(request - 1) < Final(request - 1))
            <7>1. output[q] \in (Nat \ {0}) \X (Nat \ {0}) /\ output'[q] = output[q]
              BY <5>1, <2>1, <2>3
            <7>2. Final(request - 1) \in Nat
              BY <7>1, <6>1
            <7> QED BY <7>2, SMT
          <6> QED BY <6>1, <6>2, <6>3, <5>2 DEF Continues, p
        <5>5. CASE start # 0
          <6>1. output'[q] = <<request, p + start>>
            BY <5>3, <5>5
          <6>2. p + start < Final(request) /\ p + (n - offset) + 1 = p + start + 1
            BY <2>1, <2>2, SMT
          <6> QED BY <6>1, <6>2, <5>2 DEF Continues
        <5> QED BY <5>4, <5>5
      <4>3. CASE q + 1 > n
        <5>1. q \in n..(n + c - 1) /\ q + 1 \in n..(n + c - 1)
          BY <4>3, <3>3, <2>1, <2>2, SMT
        <5>2. /\ output'[q] = <<request, p + (q - offset) + 1>>
              /\ output'[q + 1] = <<request, p + ((q + 1) - offset) + 1>>
          BY <5>1, <2>1
        <5>3. /\ p + (q - offset) + 1 < Final(request)
              /\ p + ((q + 1) - offset) + 1 = (p + (q - offset) + 1) + 1
          BY <5>1, <2>1, <2>2, SMT
        <5> QED BY <5>2, <5>3 DEF Continues
      <4> QED BY <4>1, <4>2, <4>3, <3>3, <2>2, SMT
    <3> QED BY <2>1, <2>5, <3>1, <3>2, <3>3 DEF RowsLinked
  <2> QED BY <2>6, <2>7, <2>8 DEF LoopInv
<1>7. CASE UNCHANGED extendVars
  <2>1. UNCHANGED <<at, batch, request, start, offset, output, poison>>
    BY <1>7 DEF extendVars
  <2>2. LoopShape'
    BY <2>1 DEF LoopInv, LoopShape, LensTyped, LengthsConsistent, Extend, PrefixOf, Final
  <2>3. at \in {"start", "request", "chunk", "returned", "raised"}
    BY DEF LoopInv, ExtendTypeOK
  <2> QED BY <1>0, <1>1, <2>1, <2>2, <2>3 DEF LoopInv
<1> QED BY <1>2, <1>3, <1>4, <1>5, <1>6, <1>7 DEF ExtendNext

(* The state of the loop keeps its types.                                  *)
THEOREM ExtendTypeCorrect == ExtendSpec => []ExtendTypeOK
<1>1. LoopInv => ExtendTypeOK
  BY DEF LoopInv
<1> QED BY <1>1, LoopInitInv, LoopStepInv, PTL DEF ExtendSpec

(* Output rows go through the requests in order, one causal length after   *)
(* the other, whatever the chunk size and wherever chunks and requests     *)
(* meet (sglang_backend.py:264-286).                                       *)
THEOREM RowsAreConsecutive == ExtendSpec => []RowsConsecutive
<1>1. LoopInv => RowsConsecutive
  <2> SUFFICES ASSUME LoopInv PROVE RowsConsecutive
    OBVIOUS
  <2>1. start \in Nat /\ offset \in Nat /\ (offset + start) - 1 = offset + start - 1
    BY SMT DEF LoopInv, ExtendTypeOK
  <2>2. at = "returned" => start = 0 /\ request = batch.batch_size + 1
    BY DEF LoopInv, LoopShape
  <2>3. batch.batch_size \in Nat
    BY MetadataAssumption DEF LoopInv, ExtendTypeOK
  <2>4. at = "returned" /\ offset + start > 0 =>
          output[(offset + start) - 1] = <<batch.batch_size, Final(batch.batch_size)>>
    <3>1. at = "returned" => request - 1 = batch.batch_size
      BY <2>2, <2>3, SMT
    <3> QED BY <3>1, <2>2 DEF LoopInv, LastRow
  <2> QED BY <2>1, <2>4 DEF LoopInv, RowsLinked, RowsConsecutive
<1> QED BY <1>1, LoopInitInv, LoopStepInv, PTL DEF ExtendSpec

(* Requests behind the loop had a final length the index row could hold:   *)
(* the last chunk of each was accepted with it.                            *)
Served ==
  /\ poison # "none" => at = "raised"
  /\ \A r \in 1..(request - 1) : Final(r) <= batch.table /\ Final(r) <= CacheSlots

(* A chunk that is answered ends within the table, and so does its request *)
(* if it is the last one.                                                  *)
LEMMA ServedChunk ==
  ASSUME LoopInv, AttendChunk, ~(start + Chunk < Extend(request))
  PROVE  Final(request) <= batch.table /\ Final(request) <= CacheSlots
<1> DEFINE e == Extend(request)
           p == PrefixOf(request)
           c == Count(e, start)
           f == Final(request)
           w == Width(request)
<1>1. e \in Nat /\ p \in Nat /\ f = p + e /\ c \in 1..Chunk /\ start + c <= e
  BY ChunkAssigns
<1>2. start \in Nat /\ start < e /\ batch.table \in Nat
  <2>1. start \in Nat /\ batch \in Metadata BY DEF LoopInv, ExtendTypeOK
  <2>2. start < e BY DEF LoopInv, LoopShape, AttendChunk, Called
  <2> QED BY <2>1, <2>2, MetadataAssumption
<1>3. Covered(e, start) = start..(start + c - 1) /\ start + c = e
  BY <1>1, <1>2, ChunkFacts
<1>4. \A q \in Covered(e, start) : CausalLength(p, start, q) <= w
  BY DEF AttendChunk, LengthsFit
<1>5. w \in 1..CacheSlots /\ w = IF f < batch.table THEN f ELSE batch.table
  BY DEF AttendChunk, Called, Width
<1> HIDE DEF c, e, p, f, w
<1>6. e - 1 \in start..(start + c - 1) /\ CausalLength(p, start, e - 1) = f
  BY <1>1, <1>2, <1>3 DEF CausalLength
<1>7. f <= w
  BY <1>3, <1>4, <1>6
<1>8. f <= batch.table /\ f <= CacheSlots
  BY <1>1, <1>2, <1>5, <1>7, MetadataAssumption
<1> QED BY <1>8 DEF f

(* The kernel finds a length too long only for a final length beyond the   *)
(* table: the lengths of a request's queries end at its final length.      *)
LEMMA RefusedChunk ==
  ASSUME LoopInv, RefuseLength
  PROVE  Final(request) > batch.table
<1> DEFINE e == Extend(request)
           p == PrefixOf(request)
           f == Final(request)
<1>1. /\ at = "chunk" /\ start \in Nat /\ request \in Nat \ {0} /\ request <= batch.batch_size
      /\ LensTyped /\ LengthsConsistent(request) /\ start < e /\ batch \in Metadata
  BY DEF LoopInv, ExtendTypeOK, LoopShape, RefuseLength, Called
<1>2. batch.batch_size \in Nat /\ batch.table \in Nat
  BY <1>1, MetadataAssumption
<1>3. e \in Nat /\ p \in Nat /\ f = p + e /\ f \in Nat
  BY <1>1, <1>2 DEF LensTyped, LengthsConsistent
<1>4. PICK q \in Covered(e, start) : ~(CausalLength(p, start, q) <= Width(request))
  BY DEF RefuseLength, LengthsFit
<1>5. Covered(e, start) = start..(start + Count(e, start) - 1) /\ start + Count(e, start) <= e
      /\ Count(e, start) \in 1..Chunk
  BY <1>1, <1>3, ChunkFacts
<1>6. Width(request) = IF f < batch.table THEN f ELSE batch.table
  BY DEF Width
<1> HIDE DEF e, p, f
<1>7. CausalLength(p, start, q) \in Nat /\ CausalLength(p, start, q) <= f
  <2> DEFINE c == Count(e, start)
  <2>1. q \in start..(start + c - 1) /\ start + c <= e /\ c \in Nat
    BY <1>4, <1>5, ChunkAssumption
  <2> HIDE DEF c
  <2> QED BY <1>1, <1>3, <2>1 DEF CausalLength
<1>8. f > batch.table
  BY <1>2, <1>3, <1>4, <1>6, <1>7
<1> QED BY <1>8 DEF f

LEMMA ServedStep == LoopInv /\ Served /\ [ExtendNext]_extendVars => Served'
<1> SUFFICES ASSUME LoopInv, Served, [ExtendNext]_extendVars PROVE Served'
  OBVIOUS
<1>1. request \in Nat \ {0}
  BY DEF LoopInv, ExtendTypeOK
<1>2. ASSUME UNCHANGED <<batch, request>>, poison' # "none" => at' = "raised" PROVE Served'
  BY <1>2 DEF Served, Final
<1>3. CASE Check \/ NextRequest \/ ReturnOutput
  BY <1>2, <1>3 DEF Served, Check, NextRequest, ReturnOutput
<1>4. CASE RefuseLength \/ ChunkRaises
  BY <1>2, <1>4 DEF RefuseLength, ChunkRaises
<1>5. CASE AttendChunk
  <2>1. poison' = "none" /\ batch' = batch
    BY <1>5 DEF Served, AttendChunk, Called
  <2>2. CASE start + Chunk < Extend(request)
    BY <1>2, <1>5, <2>1, <2>2 DEF AttendChunk
  <2>3. CASE ~(start + Chunk < Extend(request))
    <3>1. request' = request + 1
      BY <1>5, <2>3 DEF AttendChunk
    <3>2. Final(request) <= batch.table /\ Final(request) <= CacheSlots
      BY <1>5, <2>3, ServedChunk
    <3>3. \A r \in 1..(request' - 1) : r \in 1..(request - 1) \/ r = request
      BY <1>1, <3>1
    <3> QED BY <2>1, <3>2, <3>3 DEF Served, Final
  <2> QED BY <2>2, <2>3
<1>6. CASE UNCHANGED extendVars
  BY <1>2, <1>6 DEF Served, extendVars
<1> QED BY <1>3, <1>4, <1>5, <1>6 DEF ExtendNext

(* No native call gets more queries than the chunk size, no output row is  *)
(* assigned twice, the kernel refuses a length only if the final length    *)
(* exceeds the page table, and only calls whose final lengths are within   *)
(* the table and the cache return (sglang_backend.py:268-285).             *)
THEOREM CallsAreBounded == ExtendSpec => CallsBounded
<1>1. ASSUME LoopInv, ExtendNext
      PROVE  /\ \A q \in DOMAIN output : q \in DOMAIN output' /\ output'[q] = output[q]
             /\ \A q \in DOMAIN output' \ DOMAIN output : q - (offset + start) \in 0..(Chunk - 1)
  <2>1. CASE ~AttendChunk
    <3>1. output' = output
      BY <1>1, <2>1 DEF ExtendNext, Check, NextRequest, ReturnOutput, RefuseLength, ChunkRaises
    <3> QED BY <3>1
  <2>2. CASE AttendChunk
    <3> DEFINE n == offset + start
               c == Count(Extend(request), start)
    <3>1. /\ c \in 1..Chunk
          /\ DOMAIN output' = 0..(n + c - 1)
          /\ \A q \in 0..(n - 1) : output'[q] = output[q]
      BY <1>1, <2>2, ChunkAssigns
    <3> HIDE DEF c
    <3>2. start \in Nat /\ offset \in Nat
      BY <1>1 DEF LoopInv, ExtendTypeOK
    <3>3. DOMAIN output = 0..(n - 1)
      <4>1. DOMAIN output = 0..(offset + start - 1)
        BY <1>1 DEF LoopInv, RowsLinked
      <4> QED BY <4>1, <3>2, SMT
    <3>4. ASSUME NEW q \in DOMAIN output PROVE q \in DOMAIN output' /\ output'[q] = output[q]
      <4>1. q \in 0..(n + c - 1)
        BY <3>1, <3>2, <3>3, ChunkAssumption, SMT
      <4> QED BY <4>1, <3>1, <3>3
    <3>5. ASSUME NEW q \in DOMAIN output' \ DOMAIN output PROVE q - n \in 0..(Chunk - 1)
      <4>1. q \in 0..(n + c - 1) /\ q \notin 0..(n - 1)
        BY <3>1, <3>3
      <4> QED BY <4>1, <3>1, <3>2, ChunkAssumption, SMT
    <3> QED BY <3>4, <3>5
  <2> QED BY <2>1, <2>2
<1>2. ASSUME LoopInv, Served, ExtendNext, poison' = "length" PROVE Final(request) > batch.table
  <2>1. at # "raised"
    BY <1>2 DEF ExtendNext, Check, NextRequest, ReturnOutput, AttendChunk, RefuseLength, ChunkRaises, Called
  <2>2. poison = "none"
    BY <1>2, <2>1 DEF Served
  <2>3. RefuseLength
    BY <1>2, <2>2 DEF ExtendNext, Check, NextRequest, ReturnOutput, AttendChunk, ChunkRaises
  <2> QED BY <1>2, <2>3, RefusedChunk
<1>3. ASSUME LoopInv, Served, ExtendNext, at' = "returned", NEW r \in 1..batch.batch_size
      PROVE  Final(r) <= batch.table /\ Final(r) <= CacheSlots
  <2>1. at # "returned"
    BY <1>3 DEF ExtendNext, Check, NextRequest, ReturnOutput, AttendChunk, RefuseLength, ChunkRaises, Called
  <2>2. ReturnOutput
    BY <1>3, <2>1 DEF ExtendNext, Check, NextRequest, AttendChunk, RefuseLength, ChunkRaises, Called
  <2>3. request > batch.batch_size /\ request \in Nat /\ batch.batch_size \in Nat
    BY <1>3, <2>2, MetadataAssumption DEF ReturnOutput, LoopInv, ExtendTypeOK
  <2>4. r \in 1..(request - 1)
    BY <2>3
  <2> QED BY <1>3, <2>4 DEF Served
<1>4. ExtendInit => Served
  BY DEF ExtendInit, Served
<1>5. LoopInv /\ Served /\ [ExtendNext]_extendVars =>
        [/\ \A q \in DOMAIN output : q \in DOMAIN output' /\ output'[q] = output[q]
         /\ \A q \in DOMAIN output' \ DOMAIN output : q - (offset + start) \in 0..(Chunk - 1)
         /\ poison' = "length" => Final(request) > batch.table
         /\ at' = "returned" =>
              \A r \in 1..batch.batch_size : Final(r) <= batch.table /\ Final(r) <= CacheSlots
        ]_extendVars
  BY <1>1, <1>2, <1>3
<1> QED BY <1>4, <1>5, LoopInitInv, LoopStepInv, ServedStep, PTL DEF ExtendSpec, CallsBounded

--------------------------------------------------------------------------------
(* The plan.                                                               *)

Lens == batch.extend_lens

(* Query j of request r has the output row the plan gives it.              *)
Planned(r, j) == output[Offsets(Lens)[r - 1] + j] = <<r, PrefixOf(r) + j + 1>>

(* Once the metadata agree, the loop has filled the rows of the requests   *)
(* behind it and of the chunks behind it.                                  *)
PlanInv ==
  at \in {"request", "chunk", "returned"} =>
    /\ MetadataAgrees
    /\ offset = Offsets(Lens)[request - 1]
    /\ \A r \in 1..(request - 1) : LengthsConsistent(r) /\ \A j \in 0..(Extend(r) - 1) : Planned(r, j)
    /\ \A j \in 0..(start - 1) : Planned(request, j)

(* Lengths of the requests the loop has checked, and where they end.       *)
LEMMA CheckedLens ==
  ASSUME LoopInv, PlanInv, at \in {"request", "chunk", "returned"}
  PROVE  /\ Len(Lens) = batch.batch_size /\ Len(Lens) \in Nat /\ Lens \in Seq(Int)
         /\ request \in Nat \ {0} /\ request - 1 \in 0..Len(Lens)
         /\ \A a \in 1..(request - 1) : Lens[a] \in Nat /\ Lens[a] = Extend(a) /\ PrefixOf(a) \in Nat
<1>1. batch \in Metadata /\ request \in Nat \ {0} /\ LensTyped /\ request <= batch.batch_size + 1
  BY DEF LoopInv, ExtendTypeOK, LoopShape
<1>2. Lens \in Seq(Int) /\ batch.batch_size \in Nat
  BY <1>1, MetadataAssumption DEF Lens
<1>3. Len(Lens) = batch.batch_size
  BY DEF PlanInv, MetadataAgrees, Lens
<1>4. ASSUME NEW a \in 1..(request - 1)
      PROVE  Lens[a] \in Nat /\ Lens[a] = Extend(a) /\ PrefixOf(a) \in Nat
  <2>1. LengthsConsistent(a)
    BY DEF PlanInv
  <2>2. a \in 1..batch.batch_size
    BY <1>1, <1>2
  <2> QED BY <1>1, <2>1, <2>2 DEF LengthsConsistent, LensTyped, Lens, Extend
<1> QED BY <1>1, <1>2, <1>3, <1>4

(* A chunk gives its queries the rows the plan gives them.                 *)
LEMMA PlanChunk ==
  ASSUME LoopInv, PlanInv, AttendChunk
  PROVE  PlanInv'
<1> DEFINE e == Extend(request)
           p == PrefixOf(request)
           c == Count(e, start)
           n == offset + start
<1>1. /\ e \in Nat /\ p \in Nat /\ c \in 1..Chunk /\ start + c <= e
      /\ \A q \in 0..(n - 1) : output'[q] = output[q]
      /\ \A q \in n..(n + c - 1) : output'[q] = <<request, p + (q - offset) + 1>>
      /\ offset' + start' = n + c
  BY ChunkAssigns
<1>2. /\ at = "chunk" /\ batch' = batch /\ start \in Nat /\ offset \in Nat /\ Chunk \in Nat \ {0}
      /\ LengthsConsistent(request) /\ request <= batch.batch_size /\ start < e
  BY ChunkAssumption DEF AttendChunk, Called, LoopInv, ExtendTypeOK, LoopShape
<1>3. /\ MetadataAgrees /\ offset = Offsets(Lens)[request - 1]
      /\ \A r \in 1..(request - 1) : LengthsConsistent(r) /\ \A j \in 0..(Extend(r) - 1) : Planned(r, j)
      /\ \A j \in 0..(start - 1) : Planned(request, j)
  BY <1>2 DEF PlanInv
<1>4. /\ Len(Lens) = batch.batch_size /\ Len(Lens) \in Nat /\ Lens \in Seq(Int)
      /\ request \in Nat \ {0} /\ request - 1 \in 0..Len(Lens)
      /\ \A a \in 1..(request - 1) : Lens[a] \in Nat /\ Lens[a] = Extend(a)
  BY <1>2, CheckedLens
<1>5. Lens' = Lens /\ MetadataAgrees'
      /\ \A r : /\ (LengthsConsistent(r)' <=> LengthsConsistent(r))
                /\ Extend(r)' = Extend(r) /\ PrefixOf(r)' = PrefixOf(r)
  BY <1>2, <1>3 DEF Lens, MetadataAgrees, LengthsConsistent, Extend, PrefixOf, Final
<1> HIDE DEF c, e, p
<1>6. /\ \A b \in 0..(request - 1) : Offsets(Lens)[b] \in Nat /\ Offsets(Lens)[b] <= offset
      /\ \A b \in 1..(request - 1) : Offsets(Lens)[b] = Offsets(Lens)[b - 1] + Lens[b]
  <2>1. /\ \A b \in 0..(request - 1) : Offsets(Lens)[b] \in Nat
        /\ \A b \in 0..(request - 1) : \A a \in 0..b : Offsets(Lens)[a] <= Offsets(Lens)[b]
        /\ \A b \in 1..(request - 1) : Offsets(Lens)[b] = Offsets(Lens)[b - 1] + Lens[b]
    BY <1>4, OffsetsGrow
  <2>2. request - 1 \in 0..(request - 1) /\ \A b \in 0..(request - 1) : b \in 0..(request - 1)
    BY <1>4
  <2> QED BY <1>3, <2>1, <2>2
<1>7. ASSUME NEW r \in 1..(request - 1), NEW j \in 0..(Extend(r) - 1)
      PROVE  Planned(r, j)'
  <2>1. /\ r - 1 \in 0..(request - 1) /\ Extend(r) \in Nat
        /\ Offsets(Lens)[r - 1] \in Nat /\ Offsets(Lens)[r - 1] + Extend(r) <= offset
    <3>1. r - 1 \in 0..(request - 1) /\ r \in 0..(request - 1) BY <1>4
    <3> QED BY <1>4, <1>6, <3>1
  <2>2. Offsets(Lens)[r - 1] + j \in 0..(n - 1) BY <1>2, <2>1
  <2>3. Planned(r, j) BY <1>3
  <2> QED BY <1>1, <1>5, <2>2, <2>3 DEF Planned
<1>8. ASSUME NEW j \in 0..(start + c - 1)
      PROVE  output'[offset + j] = <<request, p + j + 1>>
  <2>1. CASE j < start
    <3>1. j \in 0..(start - 1) /\ offset + j \in 0..(n - 1) BY <1>1, <1>2, <2>1
    <3>2. output[offset + j] = <<request, p + j + 1>> BY <1>3, <3>1 DEF Planned, p
    <3> QED BY <1>1, <3>1, <3>2
  <2>2. CASE ~(j < start)
    <3>1. offset + j \in n..(n + c - 1) /\ (offset + j) - offset = j BY <1>1, <1>2, <2>2
    <3>2. output'[offset + j] = <<request, p + ((offset + j) - offset) + 1>> BY <1>1, <3>1
    <3> QED BY <3>1, <3>2
  <2> QED BY <2>1, <2>2
<1>9. CASE start + Chunk < e
  <2>1. start' = start + Chunk /\ UNCHANGED <<at, request, offset>>
    BY <1>9 DEF AttendChunk, e
  <2>2. start' = start + c
    BY <1>1, <1>2, <1>9, <2>1, ChunkFacts DEF c
  <2>3. ASSUME NEW j \in 0..(start' - 1) PROVE Planned(request, j)'
    <3>1. output'[offset + j] = <<request, p + j + 1>>
      <4>1. j \in 0..(start + c - 1) BY <1>1, <1>2, <2>1, <2>2, <2>3
      <4> QED BY <1>8, <4>1
    <3>2. Offsets(Lens')[request' - 1] = offset /\ request' = request /\ PrefixOf(request)' = p
      <4>1. PrefixOf(request)' = p BY <1>2, <2>1 DEF PrefixOf, p
      <4> QED BY <1>3, <1>5, <2>1, <4>1
    <3> QED BY <3>1, <3>2 DEF Planned
  <2> QED BY <1>3, <1>5, <1>7, <2>1, <2>3 DEF PlanInv
<1>10. CASE ~(start + Chunk < e)
  <2>1. at' = "request" /\ start' = 0 /\ request' = request + 1 /\ offset' = offset + e
    BY <1>10 DEF AttendChunk, e
  <2>2. start + c = e
    BY <1>1, <1>2, <1>10, ChunkFacts DEF c
  <2>3. (request + 1) - 1 = request /\ request \in 0..Len(Lens) /\ request # 0
    BY <1>2, <1>4
  <2>4. offset' = Offsets(Lens)[request]
    <3>1. Offsets(Lens) =
            [b \in 0..Len(Lens) |-> IF b = 0 THEN 0 ELSE Offsets(Lens)[b - 1] + Lens[b]]
      BY <1>4, OffsetsAre
    <3>2. Offsets(Lens)[request] = Offsets(Lens)[request - 1] + Lens[request]
      BY <2>3, <3>1, Zenon
    <3> QED BY <1>3, <2>1, <3>2 DEF Lens, Extend, e
  <2>5. ASSUME NEW r \in 1..request
        PROVE  LengthsConsistent(r)' /\ \A j \in 0..(Extend(r)' - 1) : Planned(r, j)'
    <3>1. CASE r = request
      <4>1. ASSUME NEW j \in 0..(e - 1) PROVE Planned(r, j)'
        <5>1. output'[offset + j] = <<request, p + j + 1>>
          <6>1. j \in 0..(start + c - 1) BY <1>1, <1>2, <2>2, <4>1
          <6> QED BY <1>8, <6>1
        <5>2. Offsets(Lens')[r - 1] = offset /\ PrefixOf(r)' = p
          BY <1>3, <1>5, <3>1 DEF p
        <5> QED BY <3>1, <5>1, <5>2 DEF Planned
      <4> QED BY <1>2, <1>5, <3>1, <4>1 DEF e
    <3>2. CASE r # request
      <4>1. r \in 1..(request - 1) BY <1>4, <3>2
      <4> QED BY <1>3, <1>5, <1>7, <4>1
    <3> QED BY <3>1, <3>2
  <2>6. request' - 1 = request /\ \A j : ~(j \in 0..(start' - 1))
    BY <1>4, <2>1
  <2> QED BY <1>5, <2>1, <2>4, <2>5, <2>6 DEF PlanInv
<1> QED BY <1>9, <1>10

LEMMA PlanStep == LoopInv /\ PlanInv /\ [ExtendNext]_extendVars => PlanInv'
<1> SUFFICES ASSUME LoopInv, PlanInv, [ExtendNext]_extendVars PROVE PlanInv'
  OBVIOUS
<1>1. ASSUME UNCHANGED <<batch, request, start, offset, output>>,
             at' \in {"request", "chunk", "returned"} => at \in {"request", "chunk", "returned"}
      PROVE  PlanInv'
  BY <1>1 DEF PlanInv, MetadataAgrees, LengthsConsistent, Planned, Lens, Extend, PrefixOf, Final
<1>2. CASE Check
  <2>1. /\ UNCHANGED <<batch, request, start, offset, output>> /\ start = 0
        /\ request = 1 /\ offset = 0 /\ at' \in {"request", "raised"} /\ (at' = "request" => MetadataAgrees)
    BY <1>2 DEF Check, LoopInv, LoopShape
  <2>2. MetadataAgrees => Offsets(Lens)[0] = 0
    <3>1. batch \in Metadata BY DEF LoopInv, ExtendTypeOK
    <3>2. Len(Lens) \in Nat BY <3>1, MetadataAssumption DEF Lens
    <3> QED BY <3>2, OffsetsAre
  <2>3. MetadataAgrees' <=> MetadataAgrees BY <2>1 DEF MetadataAgrees
  <2>4. Lens' = Lens /\ request' - 1 = 0 BY <2>1 DEF Lens
  <2>5. (\A r : ~(r \in 1..0)) /\ (\A j : ~(j \in 0..(0 - 1))) OBVIOUS
  <2> QED BY <2>1, <2>2, <2>3, <2>4, <2>5 DEF PlanInv
<1>3. CASE NextRequest BY <1>1, <1>3 DEF NextRequest, LoopInv, LoopShape
<1>4. CASE ReturnOutput BY <1>1, <1>4 DEF ReturnOutput
<1>5. CASE RefuseLength \/ ChunkRaises BY <1>1, <1>5 DEF RefuseLength, ChunkRaises
<1>6. CASE AttendChunk BY <1>6, PlanChunk
<1>7. CASE UNCHANGED extendVars BY <1>1, <1>7 DEF extendVars
<1> QED BY <1>2, <1>3, <1>4, <1>5, <1>6, <1>7 DEF ExtendNext

(* Every query of a call that returned has one row, the plan's.            *)
LEMMA PlanKept == LoopInv /\ PlanInv => PlanFollowed
<1> SUFFICES ASSUME LoopInv, PlanInv, at = "returned", NEW q \in 0..(batch.queries - 1)
             PROVE  q \in DOMAIN output /\ Assigned(Lens, batch.prefix_lens, q) = {output[q]}
  BY DEF PlanFollowed, Lens
<1> DEFINE m == batch.batch_size
           off == Offsets(Lens)
<1>1. /\ Len(Lens) = m /\ m \in Nat /\ request - 1 = m /\ start = 0 /\ offset \in Nat
      /\ \A a \in 1..m : Lens[a] \in Nat /\ Lens[a] = Extend(a) /\ PrefixOf(a) \in Nat
  <2>1. request = m + 1 /\ start = 0 /\ offset \in Nat BY DEF LoopInv, LoopShape, ExtendTypeOK
  <2>2. /\ Len(Lens) = m /\ m \in Nat
        /\ \A a \in 1..(request - 1) : Lens[a] \in Nat /\ Lens[a] = Extend(a) /\ PrefixOf(a) \in Nat
    BY CheckedLens
  <2>3. request - 1 = m BY <2>1, <2>2
  <2> QED BY <2>1, <2>2, <2>3
<1>2. /\ offset = off[m] /\ off[m] = batch.queries
      /\ \A r \in 1..m : \A j \in 0..(Extend(r) - 1) : Planned(r, j)
  BY <1>1 DEF PlanInv, MetadataAgrees, Lens
<1>3. q \in Nat /\ q < off[m] /\ m \in 0..Len(Lens)
  BY <1>1, <1>2
<1>4. q \in DOMAIN output
  <2>1. DOMAIN output = 0..(offset + start - 1) BY DEF LoopInv, RowsLinked
  <2> QED BY <1>1, <1>2, <1>3, <2>1
<1>5. PICK i \in 1..m : q - off[i - 1] \in 0..(Lens[i] - 1)
  BY <1>1, <1>3, OffsetsCover
<1>6. /\ \A b \in 0..m : off[b] \in Nat
      /\ \A b \in 0..m : \A a \in 0..b : off[a] <= off[b]
      /\ \A b \in 1..m : off[b] = off[b - 1] + Lens[b]
  BY <1>1, <1>3, OffsetsGrow
<1> DEFINE k == q - off[i - 1]
<1> HIDE DEF off, m
<1>7. /\ i - 1 \in 0..m /\ i \in 0..m /\ off[i - 1] \in Nat /\ k \in 0..(Lens[i] - 1) /\ q = off[i - 1] + k
  <2>1. i - 1 \in 0..m /\ i \in 0..m BY <1>1
  <2> QED BY <1>3, <1>5, <1>6, <2>1
<1>8. Lens[i] <= off[m]
  <2>1. off[i] = off[i - 1] + Lens[i] /\ off[i] <= off[m] /\ off[i] \in Nat /\ off[m] \in Nat
    <3>1. m \in 0..m /\ i \in 0..m BY <1>1
    <3> QED BY <1>6, <1>7, <3>1
  <2> QED BY <1>1, <1>7, <2>1
<1>9. ASSUME NEW a \in 1..m, q - off[a - 1] \in 0..(Lens[a] - 1) PROVE a = i
  <2>1. a - 1 \in 0..m /\ a \in 0..m /\ i - 1 \in 0..m /\ i \in 0..m BY <1>1
  <2>2. /\ off[a] = off[a - 1] + Lens[a] /\ off[a - 1] \in Nat /\ Lens[a] \in Nat
        /\ off[i] = off[i - 1] + Lens[i] /\ off[i - 1] \in Nat /\ Lens[i] \in Nat
    BY <1>1, <1>6, <2>1
  <2>3. off[a - 1] <= q /\ q < off[a] /\ off[i - 1] <= q /\ q < off[i]
    <3>1. ASSUME NEW x \in Nat, NEW l \in Nat, q - x \in 0..(l - 1) PROVE x <= q /\ q < x + l
      BY <1>3, <3>1
    <3>2. off[a - 1] <= q /\ q < off[a] BY <1>9, <2>2, <3>1
    <3>3. off[i - 1] <= q /\ q < off[i] BY <1>5, <2>2, <3>1
    <3> QED BY <3>2, <3>3
  <2>4. ~(a < i)
    <3>1. a < i => off[a] <= off[i - 1]
      <4>1. a < i => a \in 0..(i - 1) BY <1>1
      <4> QED BY <1>6, <2>1, <4>1
    <3> QED BY <1>3, <2>2, <2>3, <3>1
  <2>5. ~(i < a)
    <3>1. i < a => off[i] <= off[a - 1]
      <4>1. i < a => i \in 0..(a - 1) BY <1>1
      <4> QED BY <1>6, <2>1, <4>1
    <3> QED BY <1>3, <2>2, <2>3, <3>1
  <2> QED BY <1>1, <2>4, <2>5
<1>10. RowOfQuery(Lens, m, i, k, q)
  BY <1>1, <1>3, <1>6, <1>7, <1>8, <1>9 DEF RowOfQuery, off
<1>11. output[q] = <<i, PrefixOf(i) + k + 1>>
  <2>1. k \in 0..(Extend(i) - 1) BY <1>1, <1>7
  <2>2. Planned(i, k) BY <1>2, <2>1
  <2> QED BY <1>7, <2>2 DEF Planned, off
<1>12. Assigned(Lens, batch.prefix_lens, q) = {<<i, batch.prefix_lens[i] + k + 1>>}
  <2>1. batch.prefix_lens[i] \in Nat BY <1>1 DEF PrefixOf
  <2> HIDE DEF k
  <2> QED BY <1>10, <2>1, AssignedIs
<1> QED BY <1>4, <1>11, <1>12 DEF PrefixOf

(* A call that returns has computed every query from its own request up to *)
(* its own position, once, for any number of requests, lengths and chunk   *)
(* size: the plan the pool is checked with is the one the loop carries out.*)
THEOREM PlanIsFollowed == ExtendSpec => []PlanFollowed
<1>1. ExtendInit => PlanInv
  BY DEF ExtendInit, PlanInv
<1> QED BY <1>1, LoopInitInv, LoopStepInv, PlanStep, PlanKept, PTL DEF ExtendSpec

--------------------------------------------------------------------------------
(* Arithmetic of reshape(-1).                                              *)

(* A smaller number of rows has at least one row less of elements.         *)
LEMMA RowsApart ==
  ASSUME NEW a \in Nat, NEW b \in Nat, NEW d \in Nat, a < b
  PROVE  a * d + d <= b * d
<1>1. PICK e \in Nat : b = a + 1 + e
  <2> WITNESS b - a - 1 \in Nat
  <2> QED
    OBVIOUS
<1>2. e * d \in Nat /\ a * d \in Nat
  OBVIOUS
<1>3. b * d = a * d + d + e * d
  BY <1>1
<1> QED
  BY <1>2, <1>3

(* A quotient and a remainder are determined by their number.              *)
LEMMA Unique ==
  ASSUME NEW q \in Nat, NEW p \in Nat, NEW d \in Nat \ {0},
         NEW x \in 0..(d - 1), NEW y \in 0..(d - 1), q * d + x = p * d + y
  PROVE  q = p /\ x = y
<1>1. q * d \in Nat /\ p * d \in Nat
  OBVIOUS
<1>2. ~(q < p)
  BY <1>1, RowsApart
<1>3. ~(p < q)
  BY <1>1, RowsApart
<1> QED
  BY <1>1, <1>2, <1>3

(* Row and column of a flat index.                                         *)
LEMMA Unflatten ==
  ASSUME NEW rows \in Nat, NEW cols \in Nat, NEW i \in 0..(rows * cols - 1)
  PROVE  /\ cols # 0 /\ i \div cols \in 0..(rows - 1) /\ i % cols \in 0..(cols - 1)
         /\ i = (i \div cols) * cols + (i % cols)
<1>0. rows * cols \in Nat /\ i \in Nat /\ i < rows * cols
  OBVIOUS
<1>1. cols # 0
  BY <1>0
<1>2. /\ i \div cols \in Nat /\ i % cols \in 0..(cols - 1)
      /\ i = (i \div cols) * cols + (i % cols)
  BY <1>0, <1>1, Division
<1>3. i \div cols < rows
  <2> SUFFICES ASSUME rows <= i \div cols  PROVE FALSE
    BY <1>2
  <2>1. rows * cols <= (i \div cols) * cols
    <3>1. CASE rows = i \div cols
      BY <3>1, <1>0
    <3>2. CASE rows < i \div cols
      BY <3>2, <1>0, <1>2, RowsApart
    <3> QED
      BY <3>1, <3>2, <1>2
  <2>2. (i \div cols) * cols \in Nat
    BY <1>2
  <2> QED
    BY <1>0, <1>2, <2>1, <2>2
<1> QED
  BY <1>1, <1>2, <1>3

(* The flat index of a row and a column.                                   *)
LEMMA Flatten ==
  ASSUME NEW rows \in Nat, NEW cols \in Nat, NEW r \in 0..(rows - 1), NEW x \in 0..(cols - 1)
  PROVE  /\ r * cols + x \in 0..(rows * cols - 1)
         /\ (r * cols + x) \div cols = r /\ (r * cols + x) % cols = x
<1> DEFINE i == r * cols + x
<1>0. r \in Nat /\ cols \in Nat \ {0} /\ x \in Nat /\ r < rows /\ x < cols
  OBVIOUS
<1>1. r * cols \in Nat /\ r * cols + cols <= rows * cols
  BY <1>0, RowsApart
<1>2. i \in Nat /\ i < rows * cols
  BY <1>0, <1>1
<1>3. /\ i \div cols \in Nat /\ i % cols \in 0..(cols - 1)
      /\ i = (i \div cols) * cols + (i % cols)
  BY <1>0, <1>2, Division
<1>4. i \div cols = r /\ i % cols = x
  <2> DEFINE p == i \div cols
             y == i % cols
  <2>1. p \in Nat /\ y \in 0..(cols - 1) /\ r * cols + x = p * cols + y
    BY <1>3
  <2>2. r = p /\ x = y
    <3> HIDE DEF i, p, y
    <3> QED
      BY <1>0, <2>1, Unique
  <2> QED
    BY <2>2
<1>5. rows * cols \in Nat
  OBVIOUS
<1> QED
  BY <1>2, <1>4, <1>5

--------------------------------------------------------------------------------
(* Selection.                                                              *)

(* What the assumption says of one call.                                   *)
LEMMA CallType ==
  ASSUME NEW c \in Calls
  PROVE  /\ c.rows \in Nat /\ c.cols \in Nat /\ c.lens \in Seq(Int)
         /\ c.loc \in [1..c.rows -> [1..c.cols -> Int]]
         /\ LayerId(c) \in Int /\ StartLayer \in Int /\ Layers \in Nat
BY PrefixAssumption DEF LayerId

(* A selected flat index is a committed entry.                             *)
LEMMA SelectedCommitted ==
  ASSUME NEW c \in Calls, Shaped(c), NEW i \in Selected(c)
  PROVE  \E p \in Committed(c) : Source(c, p) = i /\ Target(c, p) = Place(c, i)
<1> DEFINE p == <<1 + (i \div c.cols), 1 + (i % c.cols)>>
<1>1. /\ i \in 0..(c.rows * c.cols - 1)
      /\ c.op = "plain" \/ i % c.cols < c.lens[1 + (i \div c.cols)]
  BY DEF Selected, Flat
<1>2. c.rows \in Nat /\ c.cols \in Nat
  BY CallType
<1>3. /\ i \div c.cols \in 0..(c.rows - 1) /\ i % c.cols \in 0..(c.cols - 1)
      /\ i = (i \div c.cols) * c.cols + (i % c.cols)
  BY <1>1, <1>2, Unflatten
<1>4. p \in (1..c.rows) \X (1..c.cols)
  BY <1>2, <1>3
<1>5. c.op # "plain" => c.lens[1 + (i \div c.cols)] \in Int
  BY <1>2, <1>4, CallType DEF Shaped, ShapedPlain, ShapedPrefix
<1>6. p \in Committed(c)
  <2>1. p[1] = 1 + (i \div c.cols) /\ p[2] = 1 + (i % c.cols) OBVIOUS
  <2> DEFINE o == i % c.cols
             n == c.lens[1 + (i \div c.cols)]
  <2>2. o \in Int BY <1>2, <1>3
  <2>3. c.op # "plain" => o < n /\ n \in Int BY <1>1, <1>5
  <2> HIDE DEF o, n
  <2>4. c.op # "plain" => 1 + o <= n BY <2>2, <2>3
  <2>5. c.op # "plain" => p[2] <= c.lens[p[1]] BY <2>1, <2>4 DEF o, n
  <2> HIDE DEF p
  <2> QED BY <1>4, <2>5 DEF Committed
<1>7. Source(c, p) = i
  BY <1>2, <1>3 DEF Source
<1>8. Target(c, p) = Place(c, i)
  BY DEF Target, Place
<1> QED
  BY <1>6, <1>7, <1>8

(* A committed entry has its selected flat index.                          *)
LEMMA CommittedSelected ==
  ASSUME NEW c \in Calls, Shaped(c), NEW p \in Committed(c)
  PROVE  Source(c, p) \in Selected(c) /\ Place(c, Source(c, p)) = Target(c, p)
<1> DEFINE r == p[1] - 1
           x == p[2] - 1
           i == r * c.cols + x
<1>1. c.rows \in Nat /\ c.cols \in Nat
  BY CallType
<1>2. /\ p \in (1..c.rows) \X (1..c.cols)
      /\ c.op = "plain" \/ p[2] <= c.lens[p[1]]
  BY DEF Committed
<1>3. /\ r \in 0..(c.rows - 1) /\ x \in 0..(c.cols - 1)
      /\ 1 + r = p[1] /\ 1 + x = p[2]
  BY <1>1, <1>2
<1>4. i \in 0..(c.rows * c.cols - 1) /\ i \div c.cols = r /\ i % c.cols = x
  <2> DEFINE rows == c.rows
             cols == c.cols
  <2>1. rows \in Nat /\ cols \in Nat /\ r \in 0..(rows - 1) /\ x \in 0..(cols - 1)
    BY <1>1, <1>3
  <2>2. /\ r * cols + x \in 0..(rows * cols - 1)
        /\ (r * cols + x) \div cols = r /\ (r * cols + x) % cols = x
    <3> HIDE DEF r, x, rows, cols
    <3> QED
      BY <2>1, Flatten
  <2> QED
    BY <2>2
<1>5. Source(c, p) = i
  BY <1>1, <1>3 DEF Source
<1>6. c.op # "plain" => c.lens[p[1]] \in Int
  BY <1>1, <1>2, CallType DEF Shaped, ShapedPlain, ShapedPrefix
<1> HIDE DEF r, x, i
<1>7. i \in Selected(c)
  <2>1. CASE c.op = "plain"
    BY <1>4, <2>1 DEF Selected, Flat
  <2>2. CASE c.op # "plain"
    <3>1. x < c.lens[1 + r]
      BY <1>2, <1>3, <1>6, <2>2
    <3> QED
      BY <1>4, <3>1 DEF Selected, Flat
  <2> QED
    BY <2>1, <2>2
<1>8. Place(c, i) = Target(c, p)
  BY <1>3, <1>4 DEF Place, Target
<1> QED
  BY <1>5, <1>7, <1>8

(* What a write leaves in a slot, however far it got with each row.        *)
LEMMA StoredRows ==
  ASSUME NEW c \in Calls, Distinct(c), NEW progress, NEW cache, NEW s \in Slot
  PROVE  /\ \A i \in Selected(c) : Place(c, i) = s =>
              Stored(cache, c, progress)[s] =
                [k |-> After(progress[i].k, cache[s].k, <<c, i>>),
                 v |-> After(progress[i].v, cache[s].v, <<c, i>>)]
         /\ (~ \E i \in Selected(c) : Place(c, i) = s) =>
              Stored(cache, c, progress)[s] = cache[s]
<1>1. ASSUME NEW i \in Selected(c), Place(c, i) = s
      PROVE  Stored(cache, c, progress)[s] =
               [k |-> After(progress[i].k, cache[s].k, <<c, i>>),
                v |-> After(progress[i].v, cache[s].v, <<c, i>>)]
  <2>1. \A j \in Selected(c) : Place(c, j) = s => j = i
    BY <1>1 DEF Distinct
  <2>2. (CHOOSE j \in Selected(c) : Place(c, j) = s) = i
    BY <1>1, <2>1
  <2> QED
    BY <1>1, <2>2 DEF Stored, Row
<1>2. (~ \E i \in Selected(c) : Place(c, i) = s) => Stored(cache, c, progress)[s] = cache[s]
  BY DEF Stored
<1> QED
  BY <1>1, <1>2

--------------------------------------------------------------------------------
(* The invariants.                                                         *)

(* The states of the store; PrefixTypeOK says more of last.                *)
PrefixInv == PrefixTypeOK /\ CommittedOnly /\ JudgedByCommitted

SlotContent == [k : Bytes, v : Bytes]

(* The two parts of CommittedOnly: of the bytes, and of a layer's pairs.   *)
Holds(row, l, s) == row \in {Unwritten, Torn} \/ CommittedTo(row, l, s)
HalvesOK(caches) ==
  \A l \in Layer, s \in Slot : Holds(caches[l][s].k, l, s) /\ Holds(caches[l][s].v, l, s)
Paired(cache) == \A s \in Slot : cache[s].k = cache[s].v /\ cache[s].k # Torn

LEMMA CommittedParts ==
  CommittedOnly <=> HalvesOK(store) /\ \A l \in Layer : usable[l] => Paired(store[l])
BY DEF CommittedOnly, HalvesOK, Paired, Holds

(* A selected row is one, and committed to its place.                      *)
LEMMA RowType ==
  ASSUME NEW c \in Calls, Shaped(c), NEW i \in Selected(c)
  PROVE  <<c, i>> \in Rows /\ CommittedTo(<<c, i>>, Index(c), Place(c, i))
<1>1. c.rows * c.cols \in Nat
  BY CallType
<1>2. i \in Nat
  BY <1>1 DEF Selected, Flat
<1>3. PICK p \in Committed(c) : Source(c, p) = i /\ Target(c, p) = Place(c, i)
  BY SelectedCommitted
<1>4. LayerId(c) = StartLayer + Index(c)
  BY CallType DEF Index
<1>5. <<c, i>> = RowOf(c, p)
  BY <1>3 DEF RowOf
<1>6. CommittedTo(<<c, i>>, Index(c), Place(c, i))
  BY <1>3, <1>4, <1>5 DEF CommittedTo
<1> QED
  BY <1>2, <1>6 DEF Rows

(* An accepted call's cache, however far the call got with each row.       *)
LEMMA WriteKeeps ==
  ASSUME PrefixTypeOK, HalvesOK(store), NEW c \in Calls, Accepts(c), NEW progress,
         store' = [store EXCEPT ![Index(c)] = Stored(@, c, progress)]
  PROVE  /\ store' \in [Layer -> [Slot -> SlotContent]]
         /\ HalvesOK(store')
         /\ \A m \in Layer : m # Index(c) => store'[m] = store[m]
         /\ \A s \in Slot :
              (~ \E p \in Committed(c) : Target(c, p) = s) => store'[Index(c)][s] = store[Index(c)][s]
<1> DEFINE l == Index(c)
           cache == store[l]
           new == Stored(cache, c, progress)
<1>1. /\ l \in Layer /\ Shaped(c) /\ Distinct(c) /\ store \in [Layer -> [Slot -> SlotContent]]
  BY DEF Accepts, PrefixTypeOK, SlotContent
<1>2. store' = [store EXCEPT ![l] = new]
  OBVIOUS
<1>3. \A m \in Layer : store'[m] = IF m = l THEN new ELSE store[m]
  BY <1>1, <1>2
<1>4. ASSUME NEW s \in Slot
      PROVE  /\ \A i \in Selected(c) : Place(c, i) = s =>
                  new[s] = [k |-> After(progress[i].k, cache[s].k, <<c, i>>),
                            v |-> After(progress[i].v, cache[s].v, <<c, i>>)]
             /\ (~ \E i \in Selected(c) : Place(c, i) = s) => new[s] = cache[s]
  <2>1. Distinct(c)
    BY <1>1
  <2> HIDE DEF cache, l
  <2> QED
    BY <1>4, <2>1, StoredRows
<1>5. ASSUME NEW s \in Slot
      PROVE  new[s] \in SlotContent /\ Holds(new[s].k, l, s) /\ Holds(new[s].v, l, s)
  <2>1. cache[s] \in SlotContent /\ Holds(cache[s].k, l, s) /\ Holds(cache[s].v, l, s)
    <3>1. cache \in [Slot -> SlotContent] BY <1>1
    <3>2. Holds(cache[s].k, l, s) /\ Holds(cache[s].v, l, s)
      <4>1. l \in Layer BY <1>1
      <4> HIDE DEF l
      <4> QED BY <1>5, <4>1 DEF HalvesOK
    <3>3. cache[s] \in SlotContent BY <1>5, <3>1
    <3> HIDE DEF l
    <3> QED BY <3>2, <3>3
  <2>2. CASE \E i \in Selected(c) : Place(c, i) = s
    <3>1. PICK i \in Selected(c) : Place(c, i) = s
      BY <2>2
    <3>2. new[s] = [k |-> After(progress[i].k, cache[s].k, <<c, i>>),
                    v |-> After(progress[i].v, cache[s].v, <<c, i>>)]
      BY <1>4, <3>1
    <3>3. <<c, i>> \in Bytes /\ Holds(<<c, i>>, l, s)
      <4>1. <<c, i>> \in Rows /\ CommittedTo(<<c, i>>, Index(c), Place(c, i))
        BY <1>1, RowType
      <4> QED BY <3>1, <4>1 DEF Bytes, Holds
    <3> HIDE DEF new, l, cache
    <3>4. ASSUME NEW old \in Bytes, Holds(old, l, s), NEW far
          PROVE  After(far, old, <<c, i>>) \in Bytes /\ Holds(After(far, old, <<c, i>>), l, s)
      <4>1. Torn \in Bytes /\ Holds(Torn, l, s) BY DEF Bytes, Holds
      <4> QED BY <3>3, <3>4, <4>1 DEF After
    <3>5. cache[s].k \in Bytes /\ cache[s].v \in Bytes
      BY <2>1 DEF SlotContent
    <3>6. /\ After(progress[i].k, cache[s].k, <<c, i>>) \in Bytes
          /\ Holds(After(progress[i].k, cache[s].k, <<c, i>>), l, s)
          /\ After(progress[i].v, cache[s].v, <<c, i>>) \in Bytes
          /\ Holds(After(progress[i].v, cache[s].v, <<c, i>>), l, s)
      BY <2>1, <3>4, <3>5
    <3> QED
      BY <3>2, <3>6 DEF SlotContent
  <2>3. CASE ~ \E i \in Selected(c) : Place(c, i) = s
    <3>1. new[s] = cache[s]
      BY <1>4, <2>3
    <3> QED
      BY <2>1, <3>1
  <2> QED
    BY <2>2, <2>3
<1>6. new \in [Slot -> SlotContent]
  <2>1. new = [s \in Slot |-> new[s]]
    BY DEF Stored
  <2> QED
    BY <1>5, <2>1
<1>7. store' \in [Layer -> [Slot -> SlotContent]]
  BY <1>1, <1>2, <1>6
<1>8. HalvesOK(store')
  <2> SUFFICES ASSUME NEW m \in Layer, NEW s \in Slot
               PROVE  Holds(store'[m][s].k, m, s) /\ Holds(store'[m][s].v, m, s)
    BY DEF HalvesOK
  <2>1. CASE m = l
    BY <1>3, <1>5, <2>1
  <2>2. CASE m # l
    <3>1. store'[m] = store[m]
      BY <1>3, <2>2
    <3> QED
      BY <3>1 DEF HalvesOK
  <2> QED
    BY <2>1, <2>2
<1>9. ASSUME NEW s \in Slot, ~ \E p \in Committed(c) : Target(c, p) = s
      PROVE  store'[l][s] = store[l][s]
  <2>1. ~ \E i \in Selected(c) : Place(c, i) = s
    BY <1>1, <1>9, SelectedCommitted
  <2> QED
    BY <1>1, <1>3, <1>4, <2>1
<1> QED
  BY <1>3, <1>7, <1>8, <1>9

(* A whole write: every committed row is in its place, and the layer's     *)
(* slots hold pairs if they did.                                           *)
LEMMA WriteCompletes ==
  ASSUME PrefixTypeOK, NEW c \in Calls, Accepts(c), Paired(store[Index(c)]),
         store' = [store EXCEPT ![Index(c)] =
                     Stored(@, c, [i \in Selected(c) |-> [k |-> "all", v |-> "all"]])]
  PROVE  /\ Paired(store'[Index(c)])
         /\ \A p \in Committed(c) :
              store'[Index(c)][Target(c, p)] = [k |-> RowOf(c, p), v |-> RowOf(c, p)]
<1> DEFINE l == Index(c)
           cache == store[l]
           done == [i \in Selected(c) |-> [k |-> "all", v |-> "all"]]
           new == Stored(cache, c, done)
<1>1. l \in Layer /\ Shaped(c) /\ Distinct(c) /\ store'[l] = new
  BY DEF Accepts, PrefixTypeOK
<1>2. ASSUME NEW s \in Slot
      PROVE  /\ \A i \in Selected(c) : Place(c, i) = s => new[s] = [k |-> <<c, i>>, v |-> <<c, i>>]
             /\ (~ \E i \in Selected(c) : Place(c, i) = s) => new[s] = cache[s]
  <2>1. /\ \A i \in Selected(c) : Place(c, i) = s =>
             new[s] = [k |-> After(done[i].k, cache[s].k, <<c, i>>),
                       v |-> After(done[i].v, cache[s].v, <<c, i>>)]
        /\ (~ \E i \in Selected(c) : Place(c, i) = s) => new[s] = cache[s]
    <3>1. Distinct(c) BY <1>1
    <3> HIDE DEF cache, l, done
    <3> QED BY <1>2, <3>1, StoredRows
  <2>2. \A i \in Selected(c) : done[i].k = "all" /\ done[i].v = "all"
    OBVIOUS
  <2> HIDE DEF new, done, cache
  <2> QED
    BY <2>1, <2>2 DEF After
<1> HIDE DEF new
<1>3. Paired(new)
  <2> SUFFICES ASSUME NEW s \in Slot PROVE new[s].k = new[s].v /\ new[s].k # Torn
    BY DEF Paired
  <2>1. CASE \E i \in Selected(c) : Place(c, i) = s
    <3>1. PICK i \in Selected(c) : Place(c, i) = s BY <2>1
    <3>2. new[s] = [k |-> <<c, i>>, v |-> <<c, i>>] BY <1>2, <3>1
    <3>4. new[s].k = <<c, i>> /\ new[s].v = <<c, i>> BY <3>2
    <3>3. <<c, i>> \in Rows BY <1>1, RowType
    <3> QED BY <3>3, <3>4, PrefixAssumption DEF Rows
  <2>2. CASE ~ \E i \in Selected(c) : Place(c, i) = s
    <3>1. new[s] = cache[s] BY <1>2, <2>2
    <3>2. Paired(cache) OBVIOUS
    <3> HIDE DEF cache
    <3> QED BY <3>1, <3>2 DEF Paired
  <2> QED BY <2>1, <2>2
<1>4. ASSUME NEW p \in Committed(c)
      PROVE  new[Target(c, p)] = [k |-> RowOf(c, p), v |-> RowOf(c, p)]
  <2>1. Source(c, p) \in Selected(c) /\ Place(c, Source(c, p)) = Target(c, p)
    BY <1>1, CommittedSelected
  <2>2. Target(c, p) \in Slot
    BY <1>1, <2>1 DEF Distinct
  <2> QED
    BY <1>2, <2>1, <2>2 DEF RowOf
<1> QED
  BY <1>1, <1>3, <1>4

(* The empty caches satisfy the invariant.                                 *)
LEMMA PrefixInitInv == PrefixInit => PrefixInv
<1> SUFFICES ASSUME PrefixInit  PROVE PrefixInv
  OBVIOUS
<1>1. PrefixTypeOK
  BY DEF PrefixInit, PrefixTypeOK, Bytes
<1>2. CommittedOnly
  BY PrefixAssumption DEF PrefixInit, CommittedOnly
<1>3. JudgedByCommitted
  BY DEF PrefixInit, JudgedByCommitted
<1> QED
  BY <1>1, <1>2, <1>3 DEF PrefixInv

(* A refused call has a fault among what it commits.                       *)
LEMMA RefusalJustified ==
  ASSUME NEW c \in Calls, ~Accepts(c)
  PROVE  \/ ~Shaped(c) \/ LayerId(c) \notin StartLayer..(StartLayer + Layers - 1)
         \/ ~usable[LayerId(c) - StartLayer]
         \/ \E p \in Committed(c) : Target(c, p) \notin Slot
         \/ \E p, q \in Committed(c) : p # q /\ Target(c, p) = Target(c, q)
<1>1. CASE Index(c) \notin Layer
  BY <1>1, CallType DEF Index, Layer
<1>2. CASE Index(c) \in Layer /\ ~usable[Index(c)]
  BY <1>2 DEF Index
<1>3. CASE Shaped(c) /\ ~Distinct(c)
  <2>1. PICK i, j \in Selected(c) :
          Place(c, i) \notin Slot \/ (Place(c, i) = Place(c, j) /\ i # j)
    BY <1>3 DEF Distinct
  <2>2. PICK p \in Committed(c) : Source(c, p) = i /\ Target(c, p) = Place(c, i)
    BY <1>3, SelectedCommitted
  <2>3. PICK q \in Committed(c) : Source(c, q) = j /\ Target(c, q) = Place(c, j)
    BY <1>3, SelectedCommitted
  <2> QED
    BY <2>1, <2>2, <2>3
<1> QED
  BY <1>1, <1>2, <1>3 DEF Accepts

(* Every step keeps the invariant and is exact.                            *)
LEMMA PrefixStep ==
  ASSUME PrefixInv, [PrefixNext]_prefixVars
  PROVE  PrefixInv' /\ (UNCHANGED prefixVars \/ ExactStep)
<1>0. HalvesOK(store) /\ \A l \in Layer : usable[l] => Paired(store[l])
  BY CommittedParts DEF PrefixInv
<1>1. ASSUME NEW c \in Calls, Write(c)
      PROVE  PrefixInv' /\ ExactStep
  <2>1. /\ Accepts(c) /\ usable' = usable /\ last' = [call |-> c, result |-> "ok"]
        /\ store' = [store EXCEPT ![Index(c)] =
                       Stored(@, c, [i \in Selected(c) |-> [k |-> "all", v |-> "all"]])]
    BY <1>1 DEF Write
  <2>2. /\ store' \in [Layer -> [Slot -> SlotContent]]
        /\ HalvesOK(store')
        /\ \A m \in Layer : m # Index(c) => store'[m] = store[m]
        /\ \A s \in Slot :
             (~ \E p \in Committed(c) : Target(c, p) = s) => store'[Index(c)][s] = store[Index(c)][s]
    BY <1>0, <2>1, WriteKeeps DEF PrefixInv
  <2>3. /\ Paired(store'[Index(c)])
        /\ \A p \in Committed(c) :
             store'[Index(c)][Target(c, p)] = [k |-> RowOf(c, p), v |-> RowOf(c, p)]
    BY <1>0, <2>1, WriteCompletes DEF PrefixInv, Accepts
  <2>4. PrefixTypeOK'
    BY <2>1, <2>2 DEF PrefixInv, PrefixTypeOK, SlotContent
  <2>5. CommittedOnly'
    <3>1. \A l \in Layer : usable'[l] => Paired(store'[l])
      BY <1>0, <2>1, <2>2, <2>3
    <3>2. HalvesOK(store)'
      BY <2>2 DEF HalvesOK, Holds
    <3>3. \A l \in Layer : (usable[l] => Paired(store[l]))'
      BY <3>1 DEF Paired
    <3>4. (CommittedOnly <=> HalvesOK(store) /\ \A l \in Layer : usable[l] => Paired(store[l]))'
      BY CommittedParts, PTL
    <3> QED
      BY <3>2, <3>3, <3>4
  <2>6. JudgedByCommitted'
    BY <2>1 DEF JudgedByCommitted
  <2>7. ExactStep
    BY <2>1, <2>2, <2>3 DEF ExactStep, Index
  <2> QED
    BY <2>4, <2>5, <2>6, <2>7 DEF PrefixInv
<1>2. ASSUME NEW c \in Calls, NativeFailure(c)
      PROVE  PrefixInv' /\ ExactStep
  <2>1. PICK progress : store' = [store EXCEPT ![Index(c)] = Stored(@, c, progress)]
    BY <1>2 DEF NativeFailure
  <2>2. /\ Accepts(c) /\ usable' = [usable EXCEPT ![Index(c)] = FALSE]
        /\ last' = [call |-> c, result |-> "failed"]
    BY <1>2 DEF NativeFailure
  <2>3. /\ store' \in [Layer -> [Slot -> SlotContent]]
        /\ HalvesOK(store')
        /\ \A m \in Layer : m # Index(c) => store'[m] = store[m]
        /\ \A s \in Slot :
             (~ \E p \in Committed(c) : Target(c, p) = s) => store'[Index(c)][s] = store[Index(c)][s]
    BY <1>0, <2>1, <2>2, WriteKeeps DEF PrefixInv
  <2>4. PrefixTypeOK'
    BY <2>2, <2>3 DEF PrefixInv, PrefixTypeOK, SlotContent
  <2>5. CommittedOnly'
    <3>1. Index(c) \in Layer /\ usable \in [Layer -> BOOLEAN]
      BY <2>2 DEF Accepts, PrefixInv, PrefixTypeOK
    <3>2. \A l \in Layer : usable'[l] => Paired(store'[l])
      BY <1>0, <2>2, <2>3, <3>1
    <3>3. HalvesOK(store)'
      BY <2>3 DEF HalvesOK, Holds
    <3>4. \A l \in Layer : (usable[l] => Paired(store[l]))'
      BY <3>2 DEF Paired
    <3>5. (CommittedOnly <=> HalvesOK(store) /\ \A l \in Layer : usable[l] => Paired(store[l]))'
      BY CommittedParts, PTL
    <3> QED
      BY <3>3, <3>4, <3>5
  <2>6. JudgedByCommitted'
    BY <2>2 DEF JudgedByCommitted
  <2>7. \A m \in Layer : m # Index(c) => usable'[m] = usable[m]
    BY <2>2 DEF PrefixInv, PrefixTypeOK
  <2>8. ExactStep
    BY <2>2, <2>3, <2>7 DEF ExactStep, Index
  <2> QED
    BY <2>4, <2>5, <2>6, <2>8 DEF PrefixInv
<1>3. ASSUME NEW c \in Calls, Refuse(c)
      PROVE  PrefixInv' /\ ExactStep
  <2>1. /\ ~Accepts(c) /\ last' = [call |-> c, result |-> "refused"]
        /\ store' = store /\ usable' = usable
    BY <1>3 DEF Refuse
  <2>2. PrefixTypeOK' /\ CommittedOnly'
    BY <2>1 DEF PrefixInv, PrefixTypeOK, CommittedOnly
  <2>3. JudgedByCommitted'
    BY <2>1, RefusalJustified DEF JudgedByCommitted
  <2>4. ExactStep
    BY <2>1 DEF ExactStep
  <2> QED
    BY <2>2, <2>3, <2>4 DEF PrefixInv
<1>4. CASE UNCHANGED prefixVars
  BY <1>4 DEF PrefixInv, PrefixTypeOK, CommittedOnly, JudgedByCommitted, prefixVars
<1> QED
  BY <1>1, <1>2, <1>3, <1>4 DEF PrefixNext

(* Every half of a slot is unwritten, torn or some call's row, whatever    *)
(* calls are made and however they end.                                    *)
THEOREM PrefixTypeCorrect == PrefixSpec => []PrefixTypeOK
<1>1. PrefixInv /\ [PrefixNext]_prefixVars => PrefixInv'
  BY PrefixStep
<1>2. PrefixInv => PrefixTypeOK
  BY DEF PrefixInv
<1> QED
  BY <1>1, <1>2, PrefixInitInv, PTL DEF PrefixSpec

(* A slot of a usable layer is empty or holds K and V of one committed     *)
(* token, though kernels store the two apart; a poisoned layer holds no    *)
(* whole row that was not committed there (sglang_pool.py:193-201,         *)
(* runtime_hip.hip:93-103).                                                *)
THEOREM SlotsHoldCommitted == PrefixSpec => []CommittedOnly
<1>1. PrefixInv /\ [PrefixNext]_prefixVars => PrefixInv'
  BY PrefixStep
<1>2. PrefixInv => CommittedOnly
  BY DEF PrefixInv
<1> QED
  BY <1>1, <1>2, PrefixInitInv, PTL DEF PrefixSpec

(* Padding never makes a write fail.                                       *)
THEOREM PaddingIsIgnored == PrefixSpec => []JudgedByCommitted
<1>1. PrefixInv /\ [PrefixNext]_prefixVars => PrefixInv'
  BY PrefixStep
<1>2. PrefixInv => JudgedByCommitted
  BY DEF PrefixInv
<1> QED
  BY <1>1, <1>2, PrefixInitInv, PTL DEF PrefixSpec

(* Writes store what was committed, in the layer addressed, and no more.   *)
THEOREM WritesAreExact == PrefixSpec => PrefixExact
<1>1. PrefixInv /\ [PrefixNext]_prefixVars => PrefixInv' /\ [ExactStep]_prefixVars
  BY PrefixStep
<1> QED
  BY <1>1, PrefixInitInv, PTL DEF PrefixSpec, PrefixExact
================================================================================
