------------------------------ MODULE CodecCalls -------------------------------
(***************************************************************************)
(* Calls of the scalar codec: CpuCodec of python/spry_uq/native.py with    *)
(* its checks, and the C functions of native/codec.cpp it calls, which     *)
(* other callers reach directly.  To encode and decode, what matters is    *)
(* the groups with a value that is not finite or a malformed scale         *)
(* ("bad"); module Codec has the rest.  A rotation's finite values are     *)
(* integers, on which sums of floats of one exponent are exact; its last   *)
(* loop, the scaling by 1/sqrt(dimension), is left to the properties.      *)
(***************************************************************************)
EXTENDS Integers, FiniteSets, FiniteSetsExt

CONSTANTS
  Dimensions,   \* supported dimensions, powers of two
  GroupSize,    \* kGroupSize
  GroupBytes,   \* kEncodedGroupBytes
  FloatMax,     \* the largest float
  Calls

(* dim is the number of values (encode, rotate) or the dimension asked for *)
(* (decode), bytes the size of the encoded buffer.  ctypes passes no null. *)
ASSUME CallsAssumption ==
  /\ {GroupSize, GroupBytes} \subseteq Nat \ {0} /\ FloatMax \in Nat
  /\ Dimensions \subseteq Nat /\ \A d \in Dimensions : \E k \in 0..d : d = 2^k
  /\ \A c \in Calls :
       /\ c.op \in {"encode", "decode", "rotate"}
       /\ {c.dim, c.bytes} \subseteq Nat /\ c.bad \subseteq 1..(c.dim \div GroupSize)
       /\ c.python => ~c.null
       /\ c.op = "rotate" => c.x \in [0..(c.dim - 1) -> -FloatMax..FloatMax]

VARIABLES
  at,       \* the check or loop reached, or "returned"
  call,
  group,    \* loop variable
  output,   \* groups of the output buffer that were stored
  row,      \* what a rotation has in its output buffer
  width, base, offset,   \* loop variables of rotate
  status

loopVars == <<row, width, base, offset>>
callVars == <<at, call, group, output, row, width, base, offset, status>>

Groups == call.dim \div GroupSize
Expected == Groups * GroupBytes   \* spry_uq_encoded_bytes

(* CpuCodec.encode allocates what the library asks for.                    *)
Bytes == IF call.python /\ call.op = "encode" THEN Expected ELSE call.bytes

Largest(x) == Max({IF y < 0 THEN -y ELSE y : y \in {x[j] : j \in DOMAIN x}} \cup {0})

CallInit ==
  /\ call \in Calls /\ at = IF call.python THEN "python" ELSE "pointers"
  /\ group = 1 /\ output = {} /\ status = "none"
  /\ row = <<>> /\ width = 1 /\ base = 0 /\ offset = 0

Return(s) == at' = "returned" /\ status' = s /\ UNCHANGED <<call, group, output, loopVars>>
Pass(next) == at' = next /\ group' = 1 /\ UNCHANGED <<call, output, loopVars, status>>

Check(here, bad, s, next) == at = here /\ IF bad THEN Return(s) ELSE Pass(next)

(* Mutant of PythonSize: the length is compared before the dimension.      *)
PythonSizeFirst ==
  \/ Check("python", call.op = "decode" /\ call.bytes # Expected, "buffer size", "python size")
  \/ Check("python size", call.dim \notin Dimensions, "unsupported dimension", "pointers")

(* _validate_dimension, then decode's own comparison of the length.        *)
PythonSize ==
  \/ Check("python", call.dim \notin Dimensions, "unsupported dimension", "python size")
  \/ Check("python size", call.op = "decode" /\ call.bytes # Expected, "buffer size", "pointers")

Pointers == Check("pointers", call.null, "invalid argument", "dimension")
Dimension == Check("dimension", call.dim \notin Dimensions, "unsupported dimension",
                   IF call.op = "rotate" THEN "values" ELSE "size")
Size == Check("size", Bytes # Expected, "buffer size", "values")

(* Mutant of Values: a decoded group is stored once it is checked.         *)
ValuesStoring ==
  /\ at = "values"
  /\ IF group > Groups THEN Pass(IF call.op = "rotate" THEN "range" ELSE "store")
     ELSE IF group \in call.bad
     THEN Return(IF call.op = "decode" THEN "malformed encoding" ELSE "non-finite input")
     ELSE group' = group + 1 /\ output' = output \cup {group} /\ UNCHANGED <<at, call, loopVars, status>>

(* finite_values, or the first loop of decode, over all groups.            *)
Values ==
  /\ at = "values"
  /\ IF group > Groups THEN Pass(IF call.op = "rotate" THEN "range" ELSE "store")
     ELSE IF group \in call.bad
     THEN Return(IF call.op = "decode" THEN "malformed encoding" ELSE "non-finite input")
     ELSE group' = group + 1 /\ UNCHANGED <<at, call, output, loopVars, status>>

(* Mutant of RangeIsSafe: the bound is that of the scaled result.          *)
RangeOfResult ==
  Check("range", Largest(call.x) * Largest(call.x) * call.dim > FloatMax * FloatMax,
        "value out of range", "copy")

RangeIsSafe == Check("range", Largest(call.x) > FloatMax \div call.dim, "value out of range", "copy")

Store ==
  /\ at = "store"
  /\ IF group > Groups THEN Return("ok")
     ELSE output' = output \cup {group} /\ group' = group + 1 /\ UNCHANGED <<at, call, loopVars, status>>

Copy ==
  /\ at = "copy" /\ at' = "rotate"
  /\ row' = call.x /\ output' = 1..Groups
  /\ UNCHANGED <<call, group, width, base, offset, status>>

(* Mutant of Loops: only the first block of each width is visited.         *)
LoopsFirstBlock ==
  IF offset + 1 < width THEN offset' = offset + 1 /\ UNCHANGED <<base, width>>
  ELSE offset' = 0 /\ base' = 0 /\ width' = 2 * width

Loops ==
  IF offset + 1 < width THEN offset' = offset + 1 /\ UNCHANGED <<base, width>>
  ELSE IF base + 2 * width < call.dim THEN offset' = 0 /\ base' = base + 2 * width /\ UNCHANGED width
  ELSE offset' = 0 /\ base' = 0 /\ width' = 2 * width

Butterfly(left, right) ==
  [row EXCEPT ![left] = row[left] + row[right], ![right] = row[left] - row[right]]

Rotate ==
  /\ at = "rotate"
  /\ IF width >= call.dim THEN Return("ok")
     ELSE /\ row' = Butterfly(base + offset, base + width + offset) /\ Loops
          /\ UNCHANGED <<at, call, group, output, status>>

CallNext ==
  PythonSize \/ Pointers \/ Dimension \/ Size \/ Values \/ RangeIsSafe \/ Store \/ Copy \/ Rotate

CallSpec == CallInit /\ [][CallNext]_callVars /\ WF_callVars(CallNext)
--------------------------------------------------------------------------------
(* The first fault a call has, in the order the C library looks for them.  *)
Fault(c) ==
  LET full == (c.dim \div GroupSize) * GroupBytes IN
  IF c.null THEN "invalid argument"
  ELSE IF c.dim \notin Dimensions THEN "unsupported dimension"
  ELSE IF (c.op = "decode" \/ (c.op = "encode" /\ ~c.python)) /\ c.bytes # full THEN "buffer size"
  ELSE IF c.bad # {} THEN IF c.op = "decode" THEN "malformed encoding" ELSE "non-finite input"
  ELSE IF c.op = "rotate" /\ Largest(c.x) * c.dim > FloatMax THEN "value out of range"
  ELSE "ok"

(* All or nothing: the caller's buffer is written to only by a call that   *)
(* succeeds, whichever group is at fault, and then every group is stored   *)
(* (codec.cpp:64-72, :85-108, :120-126).                                   *)
AllOrNothing ==
  /\ output # {} => Fault(call) = "ok"
  /\ status = "ok" => output = 1..Groups

(* Every call ends, and with the status of its first fault: a CodecError   *)
(* raised by Python's own checks carries the status the library would have *)
(* returned (native.py:11-16, :59-62, :82-83).                             *)
ReturnsFirstFault == <>(at = "returned" /\ status = Fault(call))

(* Sylvester's matrix has 1 or -1 at i, j, by the parity of the bits that  *)
(* i and j share.                                                          *)
Bits(i) == {b \in 0..i : (i \div 2^b) % 2 = 1}
Sign(i, j) == IF Cardinality(Bits(i) \cap Bits(j)) % 2 = 0 THEN 1 ELSE -1

SumTo(f, n) == LET s[k \in 0..n] == IF k = 0 THEN 0 ELSE s[k - 1] + f[k - 1] IN s[n]
Hadamard(x, n) ==
  [i \in 0..(n - 1) |-> SumTo([j \in 0..(n - 1) |-> Sign(i, j) * x[j]], n)]

(* The in-place loops compute the Sylvester matrix times the input, and    *)
(* applying the matrix again gives the input back, dimension times as      *)
(* large: rotated queries against rotated keys score as the original ones  *)
(* do (docs/codec.md:50; codec.h:125-147).                                 *)
Transforms ==
  call.op = "rotate" /\ status = "ok" =>
    /\ row = Hadamard(call.x, call.dim)
    /\ Hadamard(row, call.dim) = [j \in 0..(call.dim - 1) |-> call.dim * call.x[j]]

(* No sum of an accepted rotation overflows, intermediate ones included    *)
(* (codec.cpp:26-28).                                                      *)
NoOverflow == Largest(row) <= FloatMax
================================================================================
