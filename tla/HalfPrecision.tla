----------------------------- MODULE HalfPrecision -----------------------------
(***************************************************************************)
(* f32_to_f16_bits and f16_bits_to_f32 of native/runtime_cpu.cpp, which    *)
(* make the CPU oracle round where the HIP kernels do.  A float is its     *)
(* exponent and mantissa fields (the sign is carried along unchanged); the *)
(* widths of the fields are parameters, the code's being 23 and 10 bits of *)
(* mantissa, 255 and 31 for the top exponents, and biases 127 and 15.      *)
(***************************************************************************)
EXTENDS Integers

CONSTANTS
  Bits, HalfBits,      \* of the mantissas
  Top, HalfTop,        \* exponent fields of infinities
  Bias, HalfBias,
  Inputs               \* floats converted

(* The smallest half is not below the smallest normal float.               *)
ASSUME FieldAssumption ==
  /\ {Bits, HalfBits, Top, HalfTop, Bias, HalfBias} \subseteq Nat \ {0}
  /\ HalfBits < Bits /\ Bias - HalfBias > HalfBits /\ HalfTop + Bias - HalfBias < Top
  /\ Inputs \subseteq [exponent : 0..Top, mantissa : 0..(2^Bits - 1)]

VARIABLES at, float, half, back
halfVars == <<at, float, half, back>>

Infinity == HalfTop * 2^HalfBits
NaN == Infinity + 2^(HalfBits - 1)

(* Mutant of RoundsUp: ties away from zero.                                *)
RoundsUpAtTie(rounded, remainder, halfway) == remainder >= halfway

RoundsUp(rounded, remainder, halfway) ==
  remainder > halfway \/ (remainder = halfway /\ rounded % 2 # 0)

(* m without its low bits, rounded to nearest even.                        *)
Shifted(m, shift) ==
  LET rounded == m \div 2^shift IN
  rounded + IF RoundsUp(rounded, m % 2^shift, 2^(shift - 1)) THEN 1 ELSE 0

(* The exponent is at most zero: a subnormal half, or too small for one.   *)
Subnormal(m, e) == IF e < -HalfBits THEN 0 ELSE Shifted(m + 2^Bits, Bits - HalfBits + 1 - e)

(* A carry out of the mantissa goes into the exponent.                     *)
Normal(m, e) ==
  LET rounded == Shifted(m, Bits - HalfBits)
      carry == rounded = 2^HalfBits
  IN IF carry /\ e + 1 >= HalfTop THEN Infinity
     ELSE IF carry THEN (e + 1) * 2^HalfBits
     ELSE e * 2^HalfBits + rounded

f32_to_f16_bits(f) ==
  LET e == f.exponent - Bias + HalfBias IN
  IF f.exponent = Top THEN IF f.mantissa = 0 THEN Infinity ELSE NaN
  ELSE IF e >= HalfTop THEN Infinity
  ELSE IF e <= 0 THEN Subnormal(f.mantissa, e)
  ELSE Normal(f.mantissa, e)

(* Mutant of Widened: the loop over leading zeros counts one too few.      *)
WidenedShort(m) ==
  LET k == CHOOSE n \in 1..HalfBits : 2^HalfBits <= m * 2^n /\ m * 2^n < 2^(HalfBits + 1)
  IN [exponent |-> Bias - HalfBias + 2 - k, mantissa |-> (m * 2^k - 2^HalfBits) * 2^(Bits - HalfBits)]

(* A subnormal half is normal as a float: k leading zeros are shifted out. *)
Widened(m) ==
  LET k == CHOOSE n \in 1..HalfBits : 2^HalfBits <= m * 2^n /\ m * 2^n < 2^(HalfBits + 1)
  IN [exponent |-> Bias - HalfBias + 1 - k, mantissa |-> (m * 2^k - 2^HalfBits) * 2^(Bits - HalfBits)]

f16_bits_to_f32(h) ==
  LET e == h \div 2^HalfBits
      m == h % 2^HalfBits
  IN IF e = 0 THEN IF m = 0 THEN [exponent |-> 0, mantissa |-> 0] ELSE Widened(m)
     ELSE [exponent |-> IF e = HalfTop THEN Top ELSE e + Bias - HalfBias,
           mantissa |-> m * 2^(Bits - HalfBits)]

HalfInit == at = "float" /\ float \in Inputs /\ half = 0 /\ back = [exponent |-> 0, mantissa |-> 0]

Narrow == at = "float" /\ at' = "half" /\ half' = f32_to_f16_bits(float) /\ UNCHANGED <<float, back>>
Widen == at = "half" /\ at' = "back" /\ back' = f16_bits_to_f32(half) /\ UNCHANGED <<float, half>>

HalfNext == Narrow \/ Widen
HalfSpec == HalfInit /\ [][HalfNext]_halfVars
--------------------------------------------------------------------------------
(* Values in units of the smallest float.  Infinity counts as the first    *)
(* value that would need a larger exponent, as IEEE 754 rounding does.     *)
FloatValue(f) == IF f.exponent = 0 THEN f.mantissa ELSE (2^Bits + f.mantissa) * 2^(f.exponent - 1)
HalfValue(h) ==
  LET e == h \div 2^HalfBits
      m == h % 2^HalfBits
      unit == 2^(Bias - HalfBias + Bits - HalfBits)
  IN IF e = 0 THEN m * unit ELSE (2^HalfBits + m) * 2^(e - 1) * unit

Magnitude(x) == IF x < 0 THEN -x ELSE x
Off(h) == Magnitude(HalfValue(h) - FloatValue(float))

(* The result is the nearest half, ties to the even one, through carries,  *)
(* the subnormal range and the overflow to infinity; infinities and NaNs   *)
(* stay what they are (runtime_cpu.cpp:54-95).                             *)
NearestHalf ==
  at # "float" =>
    IF float.exponent = Top THEN half = IF float.mantissa = 0 THEN Infinity ELSE NaN
    ELSE /\ half \in 0..Infinity
         /\ FloatValue(float) < HalfValue(Infinity) =>
              \A h \in 0..Infinity :
                Off(half) < Off(h) \/ (Off(half) = Off(h) /\ (half % 2 = 0 \/ h = half))
         /\ FloatValue(float) >= HalfValue(Infinity) => half = Infinity

(* Widening is exact, so rounding a second time changes nothing: queries,  *)
(* rotated queries and decoded rows may be rounded where HIP does and      *)
(* where it does not (runtime_cpu.cpp:97-126).                             *)
RoundedOnce ==
  at = "back" =>
    /\ back.exponent # Top => FloatValue(back) = HalfValue(half)
    /\ f32_to_f16_bits(back) = half
================================================================================
