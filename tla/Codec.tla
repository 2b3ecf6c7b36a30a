--------------------------------- MODULE Codec ---------------------------------
(***************************************************************************)
(* encode_group of include/spry/codec.h, which both runtimes store a group *)
(* of a K or V row with, and what decoding accepts.  A group of values is  *)
(* [unit, val]: integers val times 2^unit, which is exact for the half and *)
(* rotated values that reach it.  log2f is modelled by its real value: no  *)
(* group maximum of the instances lies within a rounding error of a tie.   *)
(***************************************************************************)
EXTENDS Integers, Sequences

CONSTANTS
  GroupSize,   \* kGroupSize
  Groups       \* the groups encoded

ASSUME GroupAssumption ==
  /\ GroupSize \in Nat \ {0} /\ GroupSize % 2 = 0
  /\ \A g \in Groups :
       /\ g.unit \in (-149)..127
       /\ g.val \in [1..GroupSize -> Int]
       /\ (\A l \in 1..GroupSize : g.val[l] = 0) => g.unit = 0

Abs(x) == IF x < 0 THEN -x ELSE x

(* The values are finite floats: below 2^128.                              *)
ASSUME FiniteAssumption ==
  \A g \in Groups : \A l \in 1..GroupSize :
    \E k \in 0..(128 - g.unit) : Abs(g.val[l]) < 2^k

VARIABLES
  phase,       \* "idle", "scale", "nearest" (candidate loop), "emit", "done"
  group,       \* values
  exponent,    \* exponent of the group's scale
  codes,       \* encoded[0..15]: two 4-bit codes a byte, low nibble first
  lane,        \* the value being encoded
  candidate,   \* loop variable of nearest_magnitude_code
  selected

codecVars == <<phase, group, exponent, codes, lane, candidate, selected>>

(* fp4_magnitude of the low three bits of a code, in halves.               *)
Half(c) ==
  LET m == c % 8 IN IF m < 4 THEN m ELSE (2 + (m % 2)) * (IF m < 6 THEN 2 ELSE 4)

Maximum(g) ==
  CHOOSE m \in {Abs(g.val[l]) : l \in 1..GroupSize} :
    \A l \in 1..GroupSize : Abs(g.val[l]) <= m

(* Mutants of Log2Rounded: rounded down; without the factor 0.156.         *)
Log2Floor(m) ==
  CHOOSE n \in (-4)..9 :
    LET up == IF n < 0 THEN 2^(-n) ELSE 1
        down == IF n < 0 THEN 1 ELSE 2^n
    IN  1000 * down <= 156 * m * up /\ 156 * m * up < 2000 * down

Log2Unscaled(m) ==
  CHOOSE n \in 0..9 : 2^(2 * n) <= 2 * m * m /\ 2 * m * m < 4 * 2^(2 * n)

(* n is log2(0.156 m) rounded: 2^(n - 1/2) <= 0.156 m < 2^(n + 1/2),      *)
(* squared.  0.156 m never lies exactly half way.                          *)
IsLog2(m, n) ==
  LET a == 156 * m IN
  IF n < 0
  THEN m < 5 /\ LET b == a * 2^(-n) IN 500000 <= b * b /\ b * b < 2000000
  ELSE LET d == 2^n IN 500000 * (d * d) <= a * a /\ a * a < 2000000 * (d * d)

(* Finite values in the least unit are below 2^277.                        *)
Log2Rounded(m) == CHOOSE n \in (-3)..274 : IsLog2(m, n)

Clamped(e) == IF e < -127 THEN -127 ELSE IF e > 127 THEN 127 ELSE e

ScaleExponent(g) ==
  IF Maximum(g) = 0 THEN 0 ELSE Clamped(g.unit + Log2Rounded(Maximum(g)))

(* abs(value) / scale in halves is Numerator / Denominator.                *)
Denominator == IF exponent > group.unit THEN 2^(exponent - group.unit) ELSE 1
Numerator(l) ==
  2 * Abs(group.val[l]) * (IF exponent > group.unit THEN 1 ELSE 2^(group.unit - exponent))

(* abs(magnitude - fp4_magnitude(c))                                       *)
Distance(l, c) == Abs(Numerator(l) - Half(c) * Denominator)

Zeros == [unit |-> 0, val |-> [l \in 1..GroupSize |-> 0]]

CodecInit ==
  /\ phase = "idle" /\ group = Zeros /\ exponent = 0 /\ codes = <<>>
  /\ lane = 1 /\ candidate = 1 /\ selected = 0

Begin(g) ==
  /\ phase = "idle"
  /\ phase' = "scale" /\ group' = g
  /\ UNCHANGED <<exponent, codes, lane, candidate, selected>>

(* A lane starts: magnitudes of six and more are clipped at once.          *)
Clips == Numerator(lane) >= 12 * Denominator

StartLane ==
  IF Clips'
  THEN phase' = "emit" /\ selected' = 7 /\ UNCHANGED candidate
  ELSE phase' = "nearest" /\ selected' = 0 /\ candidate' = 1

ChooseScale ==
  /\ phase = "scale"
  /\ exponent' = ScaleExponent(group)
  /\ UNCHANGED <<group, codes, lane>>
  /\ StartLane

(* Mutant of Consider: a later candidate wins every tie.                   *)
ConsiderLaterWins ==
  /\ phase = "nearest"
  /\ selected' = IF Distance(lane, candidate) <= Distance(lane, selected)
                 THEN candidate ELSE selected
  /\ candidate' = candidate + 1
  /\ phase' = IF candidate = 7 THEN "emit" ELSE "nearest"
  /\ UNCHANGED <<group, exponent, codes, lane>>

Consider ==
  /\ phase = "nearest"
  /\ LET old == Distance(lane, selected)
         new == Distance(lane, candidate)
     IN  selected' = IF new < old \/ (new = old /\ candidate % 2 = 0 /\ selected % 2 # 0)
                     THEN candidate ELSE selected
  /\ candidate' = candidate + 1
  /\ phase' = IF candidate = 7 THEN "emit" ELSE "nearest"
  /\ UNCHANGED <<group, exponent, codes, lane>>

(* Sign and packing.                                                       *)
Emit ==
  /\ phase = "emit"
  /\ LET code == selected + IF selected # 0 /\ group.val[lane] < 0 THEN 8 ELSE 0
     IN  codes' = IF lane % 2 = 1 THEN Append(codes, code)
                  ELSE [codes EXCEPT ![lane \div 2] = @ + 16 * code]
  /\ lane' = lane + 1
  /\ UNCHANGED <<group, exponent>>
  /\ IF lane = GroupSize THEN phase' = "done" /\ UNCHANGED <<candidate, selected>>
     ELSE StartLane

(* The caller has the bytes.                                               *)
Finish ==
  /\ phase = "done"
  /\ phase' = "idle" /\ group' = Zeros /\ exponent' = 0 /\ codes' = <<>>
  /\ lane' = 1 /\ candidate' = 1 /\ selected' = 0

CodecNext == (\E g \in Groups : Begin(g)) \/ ChooseScale \/ Consider \/ Emit \/ Finish

CodecSpec == CodecInit /\ [][CodecNext]_codecVars
--------------------------------------------------------------------------------
(* What the decoders read back.                                            *)

Code(l) ==
  (codes[(l + 1) \div 2] \div (IF l % 2 = 1 THEN 1 ELSE 16)) % 16

ExponentByte == exponent + 127

(* decode_value(c, ExponentByte) is finite: (Half / 2) 2^exponent < 2^128. *)
FiniteDecoded(c) == exponent <= 125 \/ Half(c) < 2^(129 - exponent)

gpu_safe_exponent(byte) == byte # 255 /\ byte <= 140

(* The decoded value is finite in half precision: at most 65504.           *)
FiniteHalf(c) == exponent <= 1 \/ Half(c) * 2^(exponent - 1) <= 65504

(* Values the HIP runtime encodes, whatever their unit: at most 256, or    *)
(* 4096 = 256 * sqrt(256) once a row of at most 256 values is rotated.     *)
InHalfDomain ==
  \A l \in 1..GroupSize : \E k \in 0..(12 - group.unit) : Abs(group.val[l]) <= 2^k

Encoded == lane - 1   \* lanes encoded so far

(* Code m is at least as good a rounding of lane l as code c: nearer, or   *)
(* as near and not the odd one of the two.                                 *)
NoWorse(l, m, c) ==
  \/ Distance(l, m) < Distance(l, c)
  \/ Distance(l, m) = Distance(l, c) /\ (m % 2 = 0 \/ c % 2 = 1)

(* Type invariant.                                                         *)
CodecTypeOK ==
  /\ phase \in {"idle", "scale", "nearest", "emit", "done"}
  /\ group \in Groups \cup {Zeros}
  /\ exponent \in (-127)..127
  /\ codes \in Seq(0..255)
  /\ lane \in 1..(GroupSize + 1) /\ candidate \in 1..8 /\ selected \in 0..7

(* What a decoder unpacks for every encoded value is the nearest of the    *)
(* eight magnitudes at the group's scale, ties to the even code, larger    *)
(* values clipped to six, with the value's sign and no negative zero       *)
(* (codec.h:52-69 and :107-121, docs/codec.md on rounding).                *)
Rounded ==
  \A l \in 1..Encoded :
    LET m == Code(l) % 8 IN
    /\ \A c \in 0..7 : NoWorse(l, m, c)
    /\ Code(l) >= 8 <=> m # 0 /\ group.val[l] < 0

(* The scale fits the group: unless the exponent was clamped from below,   *)
(* the largest value is stored as 4 or 6, and it is at most 9.5 times the  *)
(* scale (the rounding of log2 and the factor 0.156, codec.h:88-105).      *)
ScaleFits ==
  phase = "done" /\ Maximum(group) # 0 =>
    /\ exponent > -127 => \E l \in 1..GroupSize : Code(l) % 8 >= 6
    /\ \A l \in 1..GroupSize : Numerator(l) <= 19 * Denominator

(* Whatever was encoded decodes: the scalar decoder never finds it         *)
(* malformed, and for values of the GPU's domain neither does the check    *)
(* before attention, whose bound keeps every decoded half finite           *)
(* (codec.cpp:89-96, runtime_hip.hip:35-37 and :134-137).                  *)
DecodersAccept ==
  \A l \in 1..Encoded :
    /\ ExponentByte # 255 /\ FiniteDecoded(Code(l))
    /\ InHalfDomain => gpu_safe_exponent(ExponentByte)
    /\ gpu_safe_exponent(ExponentByte) => FiniteHalf(Code(l))
===============================================================================
