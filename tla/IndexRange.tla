------------------------------ MODULE IndexRange -------------------------------
(***************************************************************************)
(* The shape arithmetic of the HIP ABI (native/runtime_hip.hip; the checks *)
(* are the same in native/runtime_cpu.cpp): the order of the host's shape  *)
(* checks, the product check that divides before it multiplies, and the    *)
(* grids of the two kernels, all in C int.  HipRuntime takes from here     *)
(* that a launch has one thread for each lane and head.                    *)
(***************************************************************************)
EXTENDS Integers

CONSTANTS
  IntMax,     \* INT_MAX
  Threads,    \* kThreads, threads of a block
  HeadDims,   \* supported head dimensions
  Shapes      \* arguments of calls

Shape == [op : {"write", "attend"}, slots : Int, kv : Int, dim : Int,
          lanes : Int, heads : Int, width : Int]

(* 64 threads, and no head dimension below 64.  A write has a thread for   *)
(* each token and K/V head.                                                *)
ASSUME WidthAssumption ==
  /\ {IntMax, Threads} \subseteq Nat /\ Threads > 1 /\ Threads < IntMax
  /\ HeadDims \subseteq Nat /\ \A d \in HeadDims : d >= Threads
ASSUME ShapesAssumption ==
  Shapes \subseteq Shape /\ \A c \in Shapes : c.op = "write" => c.heads = c.kv

VARIABLES
  reached,  \* the check or kernel reached, "empty" or "refused"
  shape,    \* arguments of the call
  why,      \* the check that refused
  blocks    \* gridDim.x of the kernel running

rangeVars == <<reached, shape, why, blocks>>

(* Mutant of ExceedsNarrow: a product equal to INT_MAX counts as too large.*)
ExceedsInclusive(first, second, third) ==
  \/ first < 0 \/ second < 0 \/ third < 0
  \/ /\ 0 \notin {first, second, third}
     /\ first > IntMax \div second \/ first * second >= IntMax \div third

ExceedsNarrow(first, second, third) ==
  \/ first < 0 \/ second < 0 \/ third < 0
  \/ /\ 0 \notin {first, second, third}
     /\ first > IntMax \div second \/ first * second > IntMax \div third

(* Mutant of Grid: blocks are rounded down.                                *)
GridFloor(n) == n \div Threads

Grid(n) == (n + Threads - 1) \div Threads

RangeInit == reached = "arguments" /\ shape \in Shapes /\ why = "none" /\ blocks = 0

Refuse == reached' = "refused" /\ why' = reached /\ UNCHANGED <<shape, blocks>>
GoOn(next) == reached' = next /\ UNCHANGED <<shape, why, blocks>>

BadArguments ==
  \/ shape.lanes < 0
  \/ /\ shape.op = "attend"
     /\ \/ shape.width < 0 \/ shape.heads <= 0 \/ shape.kv <= 0
        \/ shape.heads % shape.kv # 0

CheckArguments ==
  /\ reached = "arguments"
  /\ IF BadArguments THEN Refuse ELSE GoOn("common")

CheckCommon ==
  /\ reached = "common"
  /\ IF \/ shape.slots <= 0 \/ shape.kv <= 0 \/ shape.dim \notin HeadDims
        \/ ExceedsNarrow(shape.slots, shape.kv, shape.dim)
     THEN Refuse ELSE GoOn("shape")

(* Mutant of TooLarge: the index tensor of attention is not looked at.     *)
TooLargeRows == ExceedsNarrow(shape.lanes, shape.heads, shape.dim)

TooLarge ==
  \/ ExceedsNarrow(shape.lanes, shape.heads, shape.dim)
  \/ shape.op = "attend" /\ ExceedsNarrow(shape.lanes, shape.width, 1)

(* A call without lanes ends here: before the shape check for attention,   *)
(* after it for write, where it passes.                                    *)
CheckShape ==
  /\ reached = "shape"
  /\ IF shape.lanes = 0 THEN GoOn("empty")
     ELSE IF TooLarge THEN Refuse
     ELSE /\ reached' = "validate" /\ blocks' = Grid(shape.lanes)
          /\ UNCHANGED <<shape, why>>

LaunchKernel ==
  /\ reached = "validate"
  /\ reached' = "kernel" /\ blocks' = Grid(shape.lanes * shape.heads)
  /\ UNCHANGED <<shape, why>>

RangeNext == CheckArguments \/ CheckCommon \/ CheckShape \/ LaunchKernel

RangeSpec == RangeInit /\ [][RangeNext]_rangeVars
--------------------------------------------------------------------------------
Launched == reached \in {"validate", "kernel"}
Total == IF reached = "kernel" THEN shape.lanes * shape.heads ELSE shape.lanes

(* What CompressedCache's constructor and the checks of its write accept:  *)
(* the slots of a write are distinct, so there are no more than slots.     *)
ObjectWrites ==
  /\ shape.op = "write"
  /\ shape.slots > 0 /\ shape.kv > 0 /\ shape.dim \in HeadDims
  /\ shape.slots * shape.kv * shape.dim <= IntMax
  /\ shape.lanes \in 0..shape.slots

(* Type invariant: past the checks of arguments and cache every extent but *)
(* the number of lanes is positive.                                        *)
RangeTypeOK ==
  /\ reached \in {"arguments", "common", "shape", "empty", "refused", "validate", "kernel"}
  /\ shape \in Shape
  /\ why \in {"none", "arguments", "common", "shape"}
  /\ blocks \in Nat
  /\ reached \in {"shape", "empty", "validate", "kernel"} =>
       /\ {shape.slots, shape.kv, shape.heads} \subseteq Nat \ {0}
       /\ {shape.lanes, shape.dim} \subseteq Nat /\ shape.dim \in HeadDims

(* The check by division is exact: a launched call's products all fit an   *)
(* int, and a call refused for its shape has one that does not             *)
(* (runtime_hip.hip:211-218, :322, :361-362).                              *)
RangeExact ==
  /\ Launched =>
       /\ shape.slots * shape.kv * shape.dim <= IntMax
       /\ shape.lanes * shape.heads * shape.dim <= IntMax
       /\ shape.op = "attend" => shape.lanes * shape.width <= IntMax
  /\ reached = "refused" /\ why = "shape" =>
       \/ shape.lanes * shape.heads * shape.dim > IntMax
       \/ shape.op = "attend" /\ shape.lanes * shape.width > IntMax

(* No int of a launch overflows, neither the numerator of the grid nor the *)
(* index of its last thread, and each lane - in the second kernel, each    *)
(* lane and head - has exactly one thread (runtime_hip.hip:48, :77-81,     *)
(* :163-167, :333, :338, :376, :381).                                      *)
GridCovers ==
  Launched =>
    /\ Total + Threads <= IntMax /\ blocks * Threads <= IntMax
    /\ reached = "validate" => shape.lanes <= blocks * Threads
    /\ reached = "kernel" =>
         \A l \in 0..(shape.lanes - 1), h \in 0..(shape.heads - 1) :
           \E t \in 0..(blocks * Threads - 1) :
             /\ t < Total /\ t \div shape.heads = l /\ t % shape.heads = h
             /\ \A u \in 0..(Total - 1) :
                  u \div shape.heads = l /\ u % shape.heads = h => u = t

(* A write the cache object lets through is never refused for its shape,   *)
(* so it cannot poison the object that way (runtime.py:66-69 and :113-122  *)
(* against runtime_hip.hip:316-324).                                       *)
ObjectWritesFit == reached = "refused" => ~ObjectWrites
===============================================================================
