------------------------- MODULE CompressedCacheProofs -------------------------
(***************************************************************************)
(* Proofs about HipRuntime and the CompressedCache built on it, for every  *)
(* number of slots, heads, tokens and every set of calls: first the native *)
(* runtime, whose invariant carries over to the object - every step of the *)
(* object except Invalidate and Move is a native step or leaves the        *)
(* runtime alone -, then the object's own facts, its counters, and the     *)
(* refinement of KVStore.                                                  *)
(***************************************************************************)
EXTENDS CompressedCache, TLAPS

(* What the threads of the running kernel have done so far.                *)
WriteProgress ==
  pc = "kernel" /\ op = "write" =>
    \A i \in Lane, h \in KVHead :
      /\ kpc[<<i, h>>] # "start" => k[lanes[i].loc][h] = <<lanes[i].tok, h>>
      /\ kpc[<<i, h>>] \in {"flag", "done"} => v[lanes[i].loc][h] = <<lanes[i].tok, h>>
      /\ kpc[<<i, h>>] = "done" /\ h = 0 => valid[lanes[i].loc] = 1

AttendProgress ==
  pc = "kernel" /\ op = "attend" =>
    /\ DOMAIN out = {x \in Item : kpc[x] = "done"}
    /\ \A i \in Lane, h \in QueryHead :
         kpc[<<i, h>>] = "done" => out[<<i, h>>] = Gather(i, h)

(* The output is a function, and nothing of an earlier call's is left when *)
(* a call starts.                                                          *)
FreshOutput ==
  /\ pc \in {"idle", "validate"} => DOMAIN out = {}
  /\ out = [x \in DOMAIN out |-> out[x]]

KernelStatus == pc = "kernel" => st = "ok"

(* What an attention call that returned OK has gathered.                   *)
AttendLands ==
  pc = "returned" /\ op = "attend" /\ ret = "ok" =>
    /\ DOMAIN out = Item
    /\ \A i \in Lane : AttendVerdict(i) = "ok"
    /\ \A i \in Lane, h \in QueryHead : out[<<i, h>>] = Gather(i, h)

HipInv ==
  /\ HipTypeOK /\ VerdictExact /\ WriteLands
  /\ WriteProgress /\ AttendProgress /\ FreshOutput /\ AttendLands /\ KernelStatus
--------------------------------------------------------------------------------
(* Facts about the constants and about a validated write.                  *)

(* Head 0, whose thread sets the validity byte, exists.                    *)
LEMMA ZeroIsHead == 0 \in KVHead
BY ShapeAssumption DEF KVHead

(* The lanes of a call are records of its kind.                            *)
LEMMA LaneTypes ==
  ASSUME HipTypeOK
  PROVE  /\ Len(lanes) \in Nat
         /\ op = "write" => \A i \in Lane : lanes[i] \in WriteLane
         /\ op = "attend" => \A i \in Lane : lanes[i] \in ReadLane
         /\ op \in {"write", "attend"}
BY DEF HipTypeOK, Lane

(* Query head h reads the head of its own group: kv_head is the floor of   *)
(* h * KVHeads / QueryHeads, and a head of the cache.                      *)
LEMMA Quotient ==
  ASSUME NEW a \in Nat, NEW b \in Nat \ {0}
  PROVE  \E q \in Nat :
           /\ a \div b = q /\ q * b <= a /\ a < (q + 1) * b
           /\ a % b = 0 => a = q * b
<1> WITNESS a \div b \in Nat
<1> QED
  OBVIOUS

(* Multiplying by a positive number preserves and reflects order.          *)
LEMMA TimesLess ==
  ASSUME NEW a \in Nat, NEW b \in Nat, NEW c \in Nat \ {0}
  PROVE  (a * c < b * c <=> a < b) /\ (a * c <= b * c <=> a <= b)
OBVIOUS

(* Products may be regrouped.                                              *)
LEMMA TimesAssoc ==
  ASSUME NEW a \in Nat, NEW b \in Nat, NEW c \in Nat
  PROVE  (a * b) * c = a * (b * c)
OBVIOUS

(* The head KVHeadOf gives is a head of the cache, and the one whose group *)
(* of query heads contains h.                                              *)
LEMMA GroupHead ==
  ASSUME NEW h \in QueryHead
  PROVE  /\ KVHeadOf(h) \in KVHead
         /\ KVHeadOf(h) * QueryHeads <= h * KVHeads
         /\ h * KVHeads < (KVHeadOf(h) + 1) * QueryHeads
<1>1. /\ h \in Nat /\ h < QueryHeads
      /\ KVHeads \in Nat \ {0} /\ QueryHeads \in Nat \ {0} /\ QueryHeads % KVHeads = 0
  BY ShapeAssumption DEF QueryHead
<1>2. PICK G \in Nat : QueryHeads \div KVHeads = G /\ QueryHeads = G * KVHeads
  BY <1>1, Quotient
<1>3. G \in Nat \ {0}
  BY <1>1, <1>2
<1>4. PICK q \in Nat : h \div G = q /\ q * G <= h /\ h < (q + 1) * G
  BY <1>1, <1>3, Quotient
<1>5. q * QueryHeads = (q * G) * KVHeads /\ (q + 1) * QueryHeads = ((q + 1) * G) * KVHeads
  BY <1>1, <1>2, <1>3, <1>4, TimesAssoc
<1>6. q * G \in Nat /\ (q + 1) * G \in Nat
  BY <1>3, <1>4
<1>7. q * QueryHeads <= h * KVHeads /\ h * KVHeads < (q + 1) * QueryHeads
  BY <1>1, <1>4, <1>5, <1>6, TimesLess
<1>8. q < KVHeads
  <2>1. q * G < KVHeads * G
    BY <1>1, <1>2, <1>3, <1>4, <1>6
  <2> QED
    BY <1>1, <1>3, <1>4, <2>1, TimesLess
<1> QED
  BY <1>1, <1>2, <1>4, <1>7, <1>8 DEF KVHeadOf, KVHead

(* Every lane of a write with good verdicts is in range, finite and goes   *)
(* to a slot of its own.                                                   *)
LEMMA GoodWrite ==
  ASSUME HipTypeOK, op = "write", \A i \in Lane : Verdict(i) = "ok"
  PROVE  /\ \A i \in Lane : lanes[i].loc \in Slot /\ lanes[i].tok \in Tokens
         /\ \A i, j \in Lane : i # j => lanes[i].loc # lanes[j].loc
<1>1. \A i \in Lane : /\ lanes[i].loc \in Slot
                      /\ \A p \in 1..(i - 1) : lanes[p].loc # lanes[i].loc
                      /\ lanes[i].tok # Bad
  BY DEF Verdict, WriteVerdict
<1>2. \A i \in Lane : lanes[i].tok \in Tokens
  BY <1>1, LaneTypes DEF WriteLane
<1>3. ASSUME NEW i \in Lane, NEW j \in Lane, i # j
      PROVE  lanes[i].loc # lanes[j].loc
  <2>1. Len(lanes) \in Nat
    BY LaneTypes
  <2>2. i \in 1..(j - 1) \/ j \in 1..(i - 1)
    BY <2>1, <1>3 DEF Lane
  <2> QED
    BY <1>1, <2>2
<1> QED
  BY <1>1, <1>2, <1>3
--------------------------------------------------------------------------------
(* The invariant holds initially and is preserved, one lemma per action.   *)

(* The zeroed buffers satisfy the invariant.                               *)
LEMMA InitInv == HipInit => HipInv
BY ShapeAssumption
   DEF HipInit, HipInv, HipTypeOK, VerdictExact, WriteLands, WriteProgress,
       AttendProgress, FreshOutput, AttendLands, KernelStatus, RowOrZero, Status

(* Starting a call, accepted or not, cannot disturb the memory facts.      *)
LEMMA CallInv ==
  ASSUME HipInv, NEW c,
         \/ c \in WriteCalls /\ (BeginCall("write", c) \/ HostRefuses("write", c))
         \/ c \in ReadCalls /\ (BeginCall("attend", c) \/ HostRefuses("attend", c))
  PROVE  HipInv'
<1>1. PICK o \in {"write", "attend"} :
        /\ BeginCall(o, c) \/ HostRefuses(o, c)
        /\ o = "write" => c \in Seq(WriteLane)
        /\ o = "attend" => c \in Seq(ReadLane)
  BY CallAssumption
<1>2. UNCHANGED <<k, v, valid, kpc, out>> /\ op' = o /\ lanes' = c /\ pc = "idle"
  BY <1>1 DEF BeginCall, HostRefuses, Enter, memVars
<1>3. CASE BeginCall(o, c)
  <2>1. pc' = "validate" /\ st' = "ok" /\ vpc' = [i \in 1..Len(c) |-> "start"] /\ ret' = ret
    BY <1>3 DEF BeginCall
  <2>2. HipTypeOK'
    BY <1>1, <1>2, <2>1 DEF HipInv, HipTypeOK, Lane, Status, Item
  <2>3. VerdictExact'
    BY <1>2, <2>1 DEF VerdictExact, Lane
  <2> QED
    BY <1>2, <2>1, <2>2, <2>3
       DEF HipInv, WriteLands, WriteProgress, AttendProgress, FreshOutput, AttendLands, KernelStatus
<1>4. CASE HostRefuses(o, c)
  <2>1. pc' = "returned" /\ ret' = "invalid" /\ UNCHANGED <<st, vpc>>
    BY <1>4 DEF HostRefuses
  <2>2. HipTypeOK'
    BY <1>1, <1>2, <2>1 DEF HipInv, HipTypeOK, Lane, Status, Item
  <2> QED
    BY <1>2, <2>1, <2>2
       DEF HipInv, VerdictExact, WriteLands, WriteProgress, AttendProgress, FreshOutput, AttendLands, KernelStatus
<1> QED
  BY <1>1, <1>3, <1>4

(* A call with no lanes changes no row.                                    *)
LEMMA EmptyInv ==
  ASSUME HipInv, NEW o \in {"write", "attend"}, EmptyCall(o)
  PROVE  HipInv'
<1>1. /\ UNCHANGED <<k, v, valid, kpc, out, st, vpc>> /\ op' = o /\ lanes' = <<>>
      /\ pc = "idle" /\ pc' = "returned" /\ ret' = "ok"
  BY DEF EmptyCall, Enter, memVars
<1>2. HipTypeOK'
  BY <1>1 DEF HipInv, HipTypeOK, Lane, Status, Item
<1>3. Lane' = {} /\ Item' = {}
  BY <1>1 DEF Lane, Item
<1> QED
  BY <1>1, <1>2, <1>3
     DEF HipInv, VerdictExact, WriteLands, WriteProgress, AttendProgress, FreshOutput, AttendLands, KernelStatus, Lane

(* Validation threads.                                                     *)
LEMMA ValidateInv ==
  ASSUME HipInv, NEW i \in Lane, ValidateLoad(i) \/ ValidateReport(i)
  PROVE  HipInv'
<1>1. /\ UNCHANGED <<k, v, valid, pc, op, lanes, kpc, out, ret>> /\ pc = "validate"
      /\ Lane' = Lane /\ Item' = Item
      /\ \A j : Verdict(j)' = Verdict(j)
  BY DEF ValidateLoad, ValidateReport, memVars, Lane, Item, KernelHead, Verdict, WriteVerdict, AttendVerdict
<1>2. vpc \in [Lane -> {"start", "check", "done"}] /\ st \in Status
  BY <1>1 DEF HipInv, HipTypeOK
<1>3. Verdict(i) \in Status
  BY DEF Verdict, WriteVerdict, AttendVerdict, Status
<1>4. HipTypeOK'
  <2>1. vpc' \in [Lane -> {"start", "check", "done"}] /\ st' \in Status
    BY <1>2, <1>3 DEF ValidateLoad, ValidateReport, Status
  <2> QED
    BY <1>1, <2>1 DEF HipInv, HipTypeOK
<1>5. VerdictExact'
  <2>1. CASE ValidateLoad(i)
    BY <1>1, <1>2, <2>1 DEF ValidateLoad, HipInv, VerdictExact
  <2>2. CASE ValidateReport(i)
    BY <1>1, <1>2, <2>2 DEF ValidateReport, HipInv, VerdictExact
  <2> QED
    BY <2>1, <2>2
<1> QED
  BY <1>1, <1>4, <1>5
     DEF HipInv, WriteLands, WriteProgress, AttendProgress, FreshOutput, AttendLands, KernelStatus

(* The second kernel starts only on lanes with good verdicts.              *)
LEMMA LaunchInv == HipInv /\ LaunchKernel => HipInv'
<1> SUFFICES ASSUME HipInv, LaunchKernel PROVE HipInv'
  OBVIOUS
<1>1. /\ UNCHANGED <<k, v, valid, op, lanes, st, vpc, out, ret>>
      /\ pc = "validate" /\ pc' = "kernel" /\ kpc' = [x \in Item |-> "start"]
      /\ st = "ok" /\ \A i \in Lane : vpc[i] = "done"
      /\ Lane' = Lane /\ Item' = Item /\ \A j : Verdict(j)' = Verdict(j)
  BY DEF LaunchKernel, Validated, memVars, Lane, Item, KernelHead, Verdict, WriteVerdict, AttendVerdict
<1>2. HipTypeOK'
  BY <1>1 DEF HipInv, HipTypeOK, FreshOutput
<1>3. VerdictExact'
  BY <1>1 DEF HipInv, VerdictExact
<1>4. WriteProgress'
  BY <1>1 DEF WriteProgress, Item, KernelHead
<1>5. AttendProgress'
  BY <1>1 DEF AttendProgress, Item, KernelHead, HipInv, FreshOutput
<1> QED
  BY <1>1, <1>2, <1>3, <1>4, <1>5 DEF HipInv, WriteLands, FreshOutput, AttendLands, KernelStatus

(* A thread of write_kernel stores into its own row only: the slots of two *)
(* lanes differ, and within a lane the heads do.                           *)
LEMMA WriteStepInv ==
  ASSUME HipInv, NEW i \in Lane, NEW h \in KernelHead, WriteStep(i, h)
  PROVE  HipInv'
<1>1. /\ UNCHANGED <<pc, op, lanes, st, vpc, out, ret>> /\ pc = "kernel" /\ op = "write"
      /\ StoreK(i, h) \/ StoreV(i, h) \/ SetValid(i, h)
  BY DEF WriteStep
<1>2. Lane' = Lane /\ Item' = Item /\ h \in KVHead /\ Item = Lane \X KVHead
  BY <1>1 DEF Lane, Item, KernelHead
<1>3. HipTypeOK /\ WriteProgress /\ kpc \in [Item -> {"start", "v", "flag", "done"}]
  BY <1>1 DEF HipInv, HipTypeOK
<1>4. /\ \A j \in Lane : lanes[j].loc \in Slot /\ lanes[j].tok \in Tokens
      /\ \A j, m \in Lane : j # m => lanes[j].loc # lanes[m].loc
  BY <1>1, GoodWrite DEF HipInv, VerdictExact
<1>5. /\ k \in [Slot -> [KVHead -> RowOrZero]]
      /\ v \in [Slot -> [KVHead -> RowOrZero]]
      /\ valid \in [Slot -> {0, 1}]
  BY <1>3 DEF HipTypeOK
<1>6. <<lanes[i].tok, h>> \in RowOrZero
  BY <1>2, <1>4 DEF RowOrZero, Row
<1>7. HipTypeOK'
  <2>1. /\ k' \in [Slot -> [KVHead -> RowOrZero]]
        /\ v' \in [Slot -> [KVHead -> RowOrZero]]
        /\ valid' \in [Slot -> {0, 1}]
        /\ kpc' \in [Item -> {"start", "v", "flag", "done"}]
    <3>1. lanes[i].loc \in Slot /\ h \in KVHead /\ <<i, h>> \in Item
      BY <1>2, <1>4
    <3>2. CASE StoreK(i, h)
      BY <1>3, <1>5, <1>6, <3>1, <3>2 DEF StoreK
    <3>3. CASE StoreV(i, h)
      BY <1>3, <1>5, <1>6, <3>1, <3>3 DEF StoreV
    <3>4. CASE SetValid(i, h)
      BY <1>3, <1>5, <3>1, <3>4 DEF SetValid
    <3> QED
      BY <1>1, <3>2, <3>3, <3>4
  <2> QED
    BY <1>1, <1>2, <1>3, <2>1 DEF HipTypeOK
<1>8. WriteProgress'
  <2> SUFFICES ASSUME NEW j \in Lane, NEW g \in KVHead
               PROVE  /\ kpc'[<<j, g>>] # "start" => k'[lanes[j].loc][g] = <<lanes[j].tok, g>>
                      /\ kpc'[<<j, g>>] \in {"flag", "done"} => v'[lanes[j].loc][g] = <<lanes[j].tok, g>>
                      /\ kpc'[<<j, g>>] = "done" /\ g = 0 => valid'[lanes[j].loc] = 1
    BY <1>1, <1>2 DEF WriteProgress
  <2>1. /\ kpc[<<j, g>>] # "start" => k[lanes[j].loc][g] = <<lanes[j].tok, g>>
        /\ kpc[<<j, g>>] \in {"flag", "done"} => v[lanes[j].loc][g] = <<lanes[j].tok, g>>
        /\ kpc[<<j, g>>] = "done" /\ g = 0 => valid[lanes[j].loc] = 1
    BY <1>1, <1>3 DEF WriteProgress
  <2>2. <<j, g>> \in Item /\ <<i, h>> \in Item /\ (<<j, g>> = <<i, h>> <=> j = i /\ g = h)
    BY <1>2
  <2>3. lanes[j].loc \in Slot /\ lanes[i].loc \in Slot /\ (j # i => lanes[j].loc # lanes[i].loc)
    BY <1>4
  <2>4. CASE StoreK(i, h)
    BY <1>2, <1>3, <1>5, <2>1, <2>2, <2>3, <2>4 DEF StoreK
  <2>5. CASE StoreV(i, h)
    BY <1>2, <1>3, <1>5, <2>1, <2>2, <2>3, <2>5 DEF StoreV
  <2>6. CASE SetValid(i, h)
    BY <1>2, <1>3, <1>5, <2>1, <2>2, <2>3, <2>6 DEF SetValid
  <2> QED
    BY <1>1, <2>4, <2>5, <2>6
<1>9. VerdictExact'
  BY <1>1, <1>2 DEF HipInv, VerdictExact, Verdict, WriteVerdict
<1> QED
  BY <1>1, <1>7, <1>8, <1>9 DEF HipInv, WriteLands, AttendProgress, FreshOutput, AttendLands, KernelStatus

(* A thread of attention_kernel adds one output row, gathered from rows    *)
(* that no longer change.                                                  *)
LEMMA AttendStepInv ==
  ASSUME HipInv, NEW i \in Lane, NEW h \in KernelHead, AttendStep(i, h)
  PROVE  HipInv'
<1>1. /\ UNCHANGED <<k, v, valid, pc, op, lanes, st, vpc, ret>> /\ pc = "kernel" /\ op = "attend"
      /\ out' = [x \in DOMAIN out \cup {<<i, h>>} |->
                   IF x = <<i, h>> THEN Gather(i, h) ELSE out[x]]
      /\ kpc' = [kpc EXCEPT ![<<i, h>>] = "done"]
  BY DEF AttendStep, memVars
<1>2. /\ Lane' = Lane /\ Item' = Item /\ h \in QueryHead /\ Item = Lane \X QueryHead
      /\ \A j : Verdict(j)' = Verdict(j)
      /\ \A j, g : Gather(j, g)' = Gather(j, g)
  BY <1>1 DEF Lane, Item, KernelHead, Verdict, WriteVerdict, AttendVerdict, Gather
<1>3. HipTypeOK /\ AttendProgress /\ kpc \in [Item -> {"start", "v", "flag", "done"}]
  BY <1>1 DEF HipInv, HipTypeOK
<1>4. DOMAIN out = {x \in Item : kpc[x] = "done"} /\ <<i, h>> \in Item
  BY <1>1, <1>2, <1>3 DEF AttendProgress
<1>5. DOMAIN out' = {x \in Item : kpc'[x] = "done"}
  BY <1>1, <1>3, <1>4
<1>6. HipTypeOK'
  BY <1>1, <1>2, <1>3, <1>4, <1>5 DEF HipTypeOK
<1>7. AttendProgress'
  <2> SUFFICES ASSUME NEW j \in Lane, NEW g \in QueryHead, kpc'[<<j, g>>] = "done"
               PROVE  out'[<<j, g>>] = Gather(j, g)
    BY <1>2, <1>5 DEF AttendProgress
  <2>1. <<j, g>> \in DOMAIN out'
    BY <1>2, <1>5
  <2>2. CASE <<j, g>> = <<i, h>>
    <3>1. j = i /\ g = h
      BY <2>2
    <3> QED
      BY <1>1, <2>1, <3>1
  <2>3. CASE <<j, g>> # <<i, h>>
    <3>1. kpc[<<j, g>>] = "done" /\ out'[<<j, g>>] = out[<<j, g>>]
      BY <1>1, <1>2, <1>3, <2>1, <2>3
    <3> QED
      BY <1>1, <1>3, <3>1 DEF AttendProgress
  <2> QED
    BY <2>2, <2>3
<1>8. VerdictExact'
  BY <1>1, <1>2 DEF HipInv, VerdictExact
<1> QED
  BY <1>1, <1>6, <1>7, <1>8 DEF HipInv, WriteLands, WriteProgress, FreshOutput, AttendLands, KernelStatus

(* When every thread has finished, the rows of all lanes are stored, or    *)
(* all output rows computed.                                               *)
LEMMA ReturnOkInv == HipInv /\ ReturnOk => HipInv'
<1> SUFFICES ASSUME HipInv, ReturnOk PROVE HipInv'
  OBVIOUS
<1>1. /\ UNCHANGED <<k, v, valid, op, lanes, st, out>> /\ pc = "kernel" /\ pc' = "returned"
      /\ ret' = "ok" /\ \A x \in Item : kpc[x] = "done"
      /\ Lane' = Lane /\ Item' = Item
      /\ \A j : AttendVerdict(j)' = AttendVerdict(j)
      /\ \A j, g : Gather(j, g)' = Gather(j, g)
  BY DEF ReturnOk, Return, memVars, Lane, Item, KernelHead, AttendVerdict, Gather
<1>2. HipTypeOK'
  BY <1>1 DEF HipInv, HipTypeOK, Status
<1>3. WriteLands'
  <2> SUFFICES ASSUME op = "write", NEW i \in Lane
               PROVE  /\ valid[lanes[i].loc] = 1
                      /\ \A h \in KVHead : /\ k[lanes[i].loc][h] = <<lanes[i].tok, h>>
                                           /\ v[lanes[i].loc][h] = <<lanes[i].tok, h>>
    BY <1>1 DEF WriteLands
  <2>1. \A h \in KVHead : kpc[<<i, h>>] = "done"
    BY <1>1 DEF Item, KernelHead
  <2> QED
    BY <1>1, <2>1, ZeroIsHead DEF HipInv, WriteProgress
<1>4. AttendLands'
  <2> SUFFICES ASSUME op = "attend"
               PROVE  /\ DOMAIN out = Item
                      /\ \A i \in Lane : AttendVerdict(i) = "ok"
                      /\ \A i \in Lane, h \in QueryHead : out[<<i, h>>] = Gather(i, h)
    BY <1>1 DEF AttendLands
  <2>1. \A i \in Lane, h \in QueryHead : kpc[<<i, h>>] = "done"
    BY <1>1 DEF Item, KernelHead
  <2> QED
    BY <1>1, <2>1 DEF HipInv, AttendProgress, VerdictExact, Verdict
<1> QED
  BY <1>1, <1>2, <1>3, <1>4 DEF HipInv, VerdictExact, WriteProgress, AttendProgress, FreshOutput, KernelStatus

(* A refusal, a failed HIP call and a device fault end the call with a     *)
(* status other than OK; TakeResult leaves only the memory behind.         *)
LEMMA EndInv ==
  ASSUME HipInv, ReturnVerdict \/ Failure \/ TakeResult
  PROVE  HipInv'
<1>1. CASE ReturnVerdict \/ Failure
  <2>1. /\ UNCHANGED <<k, v, valid, op, lanes, st, out>> /\ pc' = "returned"
        /\ ret' # "ok" /\ ret' \in Status /\ Lane' = Lane
    BY <1>1 DEF ReturnVerdict, Failure, HipCallFails, DeviceFault, Return, memVars, Lane, Status, HipInv, HipTypeOK
  <2>2. HipTypeOK'
    BY <2>1 DEF HipInv, HipTypeOK
  <2> QED
    BY <2>1, <2>2 DEF HipInv, VerdictExact, WriteLands, WriteProgress, AttendProgress, FreshOutput, AttendLands, KernelStatus
<1>2. CASE TakeResult
  <2>1. /\ UNCHANGED <<k, v, valid, st>> /\ pc' = "idle" /\ op' = "write" /\ lanes' = <<>>
        /\ ret' = "ok" /\ out' = <<>>
    BY <1>2 DEF TakeResult, memVars
  <2>2. HipTypeOK'
    BY <2>1 DEF HipInv, HipTypeOK, Status
  <2> QED
    BY <2>1, <2>2 DEF HipInv, VerdictExact, WriteLands, WriteProgress, AttendProgress, FreshOutput, AttendLands, KernelStatus
<1> QED
  BY <1>1, <1>2

(* Every step of the native runtime preserves the invariant.               *)
LEMMA StepInv == HipInv /\ [HipNext]_hipVars => HipInv'
<1> SUFFICES ASSUME HipInv, [HipNext]_hipVars PROVE HipInv'
  OBVIOUS
<1>1. ASSUME NEW c \in Calls, BeginCall(c[1], c[2]) \/ HostRefuses(c[1], c[2])
      PROVE  HipInv'
  BY <1>1, CallInv DEF Calls
<1>2. ASSUME NEW o \in {"write", "attend"}, EmptyCall(o) PROVE HipInv'
  BY <1>2, EmptyInv
<1>3. ASSUME Progress PROVE HipInv'
  BY <1>3, ValidateInv, WriteStepInv, AttendStepInv, EndInv, LaunchInv, ReturnOkInv
     DEF Progress, Item
<1>4. ASSUME Failure \/ TakeResult PROVE HipInv'
  BY <1>4, EndInv
<1>5. CASE UNCHANGED hipVars
  <2>1. UNCHANGED <<k, v, valid, pc, op, lanes, st, vpc, kpc, out, ret>>
    BY <1>5 DEF hipVars, memVars, callVars
  <2>2. /\ Lane' = Lane /\ Item' = Item
        /\ \A i : Verdict(i)' = Verdict(i) /\ AttendVerdict(i)' = AttendVerdict(i)
        /\ \A i, h : Gather(i, h)' = Gather(i, h)
    BY <2>1 DEF Lane, Item, KernelHead, Verdict, WriteVerdict, AttendVerdict, Gather
  <2>3. HipTypeOK'
    BY <2>1, <2>2 DEF HipInv, HipTypeOK
  <2>4. VerdictExact' /\ KernelStatus' /\ FreshOutput'
    BY <2>1, <2>2 DEF HipInv, VerdictExact, KernelStatus, FreshOutput
  <2>5. WriteLands' /\ WriteProgress'
    BY <2>1, <2>2 DEF HipInv, WriteLands, WriteProgress
  <2>6. AttendLands' /\ AttendProgress'
    BY <2>1, <2>2 DEF HipInv, AttendLands, AttendProgress
  <2> QED
    BY <2>3, <2>4, <2>5, <2>6 DEF HipInv
<1> QED
  BY <1>1, <1>2, <1>3, <1>4, <1>5 DEF HipNext
--------------------------------------------------------------------------------
(* The theorems.                                                           *)

(* The invariant behind all of them: types, exact verdicts, and what the   *)
(* threads of the running kernel have done.                                *)
THEOREM HipInvariant == HipSpec => []HipInv
<1>1. HipInit => HipInv
  BY InitInv
<1>2. HipInv /\ [HipNext]_hipVars => HipInv'
  BY StepInv
<1> QED
  BY <1>1, <1>2, PTL DEF HipSpec

(* Every variable of the native runtime keeps its type.                    *)
THEOREM HipTypeCorrect == HipSpec => []HipTypeOK
<1>1. HipInv => HipTypeOK
  BY DEF HipInv
<1> QED
  BY <1>1, HipInvariant, PTL

(* The racy early return of the validation kernels is harmless, for any    *)
(* number of threads: a clear status means every lane is good, a set one   *)
(* is some lane's own verdict.                                             *)
THEOREM VerdictsAreExact == HipSpec => []VerdictExact
<1>1. HipInv => VerdictExact
  BY DEF HipInv
<1> QED
  BY <1>1, HipInvariant, PTL

(* A write that returns OK has stored every row of every lane.             *)
THEOREM WritesLand == HipSpec => []WriteLands
<1>1. HipInv => WriteLands
  BY DEF HipInv
<1> QED
  BY <1>1, HipInvariant, PTL

(* Only a fully validated write ever changes the cache.                    *)
THEOREM ValidateBeforeMutate == HipSpec => NoStoreBeforeVerdict
<1> DEFINE Step ==
      memVars' # memVars =>
        /\ op = "write" /\ st = "ok"
        /\ \A i \in Lane : lanes[i].loc \in Slot /\ lanes[i].tok \in Tokens
        /\ \A i, j \in Lane : i # j => lanes[i].loc # lanes[j].loc
<1>1. HipInv /\ [HipNext]_hipVars => [Step]_hipVars
  <2> SUFFICES ASSUME HipInv, HipNext, memVars' # memVars PROVE Step
    OBVIOUS
  <2>1. PICK x \in Item : WriteStep(x[1], x[2])
    BY DEF HipNext, BeginCall, HostRefuses, EmptyCall, Enter, Progress, Failure, TakeResult,
       ValidateLoad, ValidateReport, AttendStep, ReturnVerdict, LaunchKernel, ReturnOk,
       HipCallFails, DeviceFault
  <2>2. pc = "kernel" /\ op = "write"
    BY <2>1 DEF WriteStep
  <2>3. \A i \in Lane : Verdict(i) = "ok"
    BY <2>2 DEF HipInv, VerdictExact
  <2>4. st = "ok"
    BY <2>2 DEF HipInv, KernelStatus
  <2> QED
    BY <2>2, <2>3, <2>4, GoodWrite DEF HipInv
<1> QED
  BY <1>1, HipInvariant, PTL DEF HipSpec, NoStoreBeforeVerdict

(* Attention that returns OK is computed from exactly the listed slots and *)
(* the key/value head of the query head's own group.                       *)
THEOREM ReadsAreExact == HipSpec => []ReadExact
<1>1. HipInv => ReadExact
  <2> SUFFICES ASSUME HipInv, pc = "returned", op = "attend", ret = "ok"
               PROVE  /\ DOMAIN out = Lane \X QueryHead
                      /\ \A i \in Lane :
                           /\ lanes[i].len \in 0..Len(lanes[i].idx)
                           /\ \A t \in 1..lanes[i].len : valid[lanes[i].idx[t]] = 1
                           /\ \A h \in QueryHead :
                                \E g \in KVHead :
                                  /\ g * QueryHeads <= h * KVHeads
                                  /\ h * KVHeads < (g + 1) * QueryHeads
                                  /\ out[<<i, h>>] = [t \in 1..lanes[i].len |->
                                       <<k[lanes[i].idx[t]][g], v[lanes[i].idx[t]][g]>>]
    BY DEF ReadExact
  <2>1. DOMAIN out = Lane \X QueryHead
    BY DEF HipInv, AttendLands, Item, KernelHead
  <2> SUFFICES ASSUME NEW i \in Lane
               PROVE  /\ lanes[i].len \in 0..Len(lanes[i].idx)
                      /\ \A t \in 1..lanes[i].len : valid[lanes[i].idx[t]] = 1
                      /\ \A h \in QueryHead :
                           \E g \in KVHead :
                             /\ g * QueryHeads <= h * KVHeads
                             /\ h * KVHeads < (g + 1) * QueryHeads
                             /\ out[<<i, h>>] = [t \in 1..lanes[i].len |->
                                  <<k[lanes[i].idx[t]][g], v[lanes[i].idx[t]][g]>>]
    BY <2>1
  <2>2. lanes[i] \in ReadLane /\ valid \in [Slot -> {0, 1}]
    BY LaneTypes DEF HipInv, HipTypeOK
  <2>3. AttendVerdict(i) = "ok"
    BY DEF HipInv, AttendLands
  <2>4. lanes[i].len \in 0..Len(lanes[i].idx)
    BY <2>2, <2>3 DEF AttendVerdict, ReadLane
  <2>5. ASSUME NEW t \in 1..lanes[i].len PROVE valid[lanes[i].idx[t]] = 1
    BY <2>2, <2>3 DEF AttendVerdict
  <2>6. ASSUME NEW h \in QueryHead
        PROVE  \E g \in KVHead :
                 /\ g * QueryHeads <= h * KVHeads
                 /\ h * KVHeads < (g + 1) * QueryHeads
                 /\ out[<<i, h>>] = [t \in 1..lanes[i].len |->
                      <<k[lanes[i].idx[t]][g], v[lanes[i].idx[t]][g]>>]
    <3>1. out[<<i, h>>] = Gather(i, h)
      BY DEF HipInv, AttendLands
    <3>2. KVHeadOf(h) \in KVHead
      BY GroupHead
    <3> WITNESS KVHeadOf(h) \in KVHead
    <3> QED
      BY <3>1, GroupHead DEF Gather
  <2> QED
    BY <2>4, <2>5, <2>6
<1> QED
  BY <1>1, HipInvariant, PTL

--------------------------------------------------------------------------------
(* A native call in progress is one the object began: it is not poisoned,  *)
(* the arguments are one of the batches, and the counter has room.         *)
CallInProgress ==
  /\ pc # "idle" => ~poisoned
  /\ pc # "idle" /\ op = "write" => lanes \in WriteCalls /\ writeCalls < MaxCalls
  /\ pc # "idle" /\ op = "attend" => lanes \in ReadCalls /\ attentionCalls < MaxCalls

CacheInv == HipInv /\ CacheTypeOK /\ CallInProgress /\ ReadableRowsWhole
--------------------------------------------------------------------------------
(* A new cache object satisfies the invariant.                             *)
LEMMA CacheInitInv == CacheInit => CacheInv
<1> SUFFICES ASSUME CacheInit PROVE CacheInv
  OBVIOUS
<1>1. HipInv
  BY InitInv DEF CacheInit
<1>2. CacheTypeOK /\ CallInProgress
  <2>1. HipTypeOK /\ pc = "idle"
    BY <1>1 DEF HipInv, CacheInit, HipInit
  <2>2. poisoned \in BOOLEAN
    BY DEF CacheInit
  <2>3. writeCalls \in 0..MaxCalls /\ attentionCalls \in 0..MaxCalls
    BY CacheCallAssumption DEF CacheInit
  <2> QED
    BY <2>1, <2>2, <2>3 DEF CacheTypeOK, CallInProgress
<1>3. ReadableRowsWhole
  BY DEF CacheInit, HipInit, ReadableRowsWhole
<1> QED
  BY <1>1, <1>2, <1>3 DEF CacheInv

(* Calls, native steps and returns are steps of the native runtime.        *)
LEMMA IsHipStep ==
  ASSUME \/ \E w \in WriteCalls : Write(w)
         \/ \E c \in ReadCalls : Attention(c)
         \/ NativeStep
         \/ NativeReturns
  PROVE  HipNext
<1>1. ASSUME NEW w \in WriteCalls, Write(w) PROVE HipNext
  <2>1. <<"write", w>> \in Calls
    BY DEF Calls
  <2> QED
    BY <1>1, <2>1 DEF Write, HipNext
<1>2. ASSUME NEW c \in ReadCalls, Attention(c) PROVE HipNext
  <2>1. <<"attend", c>> \in Calls
    BY DEF Calls
  <2> QED
    BY <1>2, <2>1 DEF Attention, HipNext
<1> QED
  BY <1>1, <1>2 DEF NativeStep, NativeReturns, HipNext

(* A map updated by a parallel move keeps its type.                        *)
LEMMA MovedType ==
  ASSUME NEW S, NEW T, NEW f \in [S -> T], NEW dst, NEW src,
         Len(dst) = Len(src), \A i \in 1..Len(src) : src[i] \in S
  PROVE  Moved(f, dst, src) \in [S -> T]
<1>1. ASSUME NEW s \in S, \E i \in 1..Len(dst) : dst[i] = s
      PROVE  f[src[CHOOSE i \in 1..Len(dst) : dst[i] = s]] \in T
  <2>1. (CHOOSE i \in 1..Len(dst) : dst[i] = s) \in 1..Len(src)
    BY <1>1
  <2> QED
    BY <2>1
<1> QED
  BY <1>1 DEF Moved

(* The torch operations run between native calls.                          *)
LEMMA IdleMemoryInv ==
  ASSUME CacheInv, pc = "idle", UNCHANGED <<callVars, objVars>>,
         k' \in [Slot -> [KVHead -> RowOrZero]],
         v' \in [Slot -> [KVHead -> RowOrZero]],
         valid' \in [Slot -> {0, 1}],
         ReadableRowsWhole'
  PROVE  CacheInv'
<1>1. /\ UNCHANGED <<pc, op, lanes, st, vpc, kpc, out, ret>>
      /\ UNCHANGED <<poisoned, writeCalls, attentionCalls, delivered>>
  BY DEF callVars, objVars
<1>2. HipTypeOK'
  BY <1>1 DEF CacheInv, HipInv, HipTypeOK, Lane, Item
<1>3. HipInv'
  BY <1>1, <1>2 DEF CacheInv, HipInv, VerdictExact, WriteLands, WriteProgress, AttendProgress,
     FreshOutput, AttendLands, KernelStatus
<1> QED
  BY <1>1, <1>2, <1>3 DEF CacheInv, CacheTypeOK, CallInProgress

(* Clearing validity bytes cannot make a row readable.                     *)
LEMMA InvalidateInv ==
  ASSUME CacheInv, NEW loc \in DropCalls, Invalidate(loc)
  PROVE  CacheInv'
<1>1. /\ UNCHANGED <<k, v, pc, op, lanes, st, vpc, kpc, out, ret, poisoned>> /\ pc = "idle"
      /\ UNCHANGED <<callVars, objVars>>
  BY DEF Invalidate, Ready, callVars, objVars
<1>2. k \in [Slot -> [KVHead -> RowOrZero]] /\ v \in [Slot -> [KVHead -> RowOrZero]]
      /\ valid \in [Slot -> {0, 1}]
  BY DEF CacheInv, HipInv, HipTypeOK
<1>3. valid' \in [Slot -> {0, 1}] /\ \A s \in Slot : valid'[s] = 1 => valid[s] = 1
  BY <1>2 DEF Invalidate, Dropped
<1>4. ReadableRowsWhole'
  BY <1>1, <1>3 DEF CacheInv, ReadableRowsWhole, Broken, InFlight, Whole
<1> QED
  BY <1>1, <1>2, <1>3, <1>4, IdleMemoryInv

(* A moved slot holds all rows its source held.                            *)
LEMMA MoveInv ==
  ASSUME CacheInv, NEW m \in MoveCalls, Move(m[1], m[2])
  PROVE  CacheInv'
<1> DEFINE dst == m[1]
           src == m[2]
<1>1. /\ UNCHANGED <<pc, op, lanes, st, vpc, kpc, out, ret, poisoned>> /\ pc = "idle"
      /\ UNCHANGED <<callVars, objVars>>
  BY DEF Move, Ready, callVars, objVars
<1>2. k \in [Slot -> [KVHead -> RowOrZero]] /\ v \in [Slot -> [KVHead -> RowOrZero]]
      /\ valid \in [Slot -> {0, 1}]
  BY DEF CacheInv, HipInv, HipTypeOK
<1>3. Len(dst) = Len(src)
  BY DEF Move
<1>4. \A i \in 1..Len(src) : src[i] \in Slot
  BY DEF Move, InRange
<1>5. /\ k' = Moved(k, dst, src) /\ v' = Moved(v, dst, src) /\ valid' = Moved(valid, dst, src)
  BY DEF Move
<1>6. /\ k' \in [Slot -> [KVHead -> RowOrZero]]
      /\ v' \in [Slot -> [KVHead -> RowOrZero]]
      /\ valid' \in [Slot -> {0, 1}]
  BY <1>2, <1>3, <1>4, <1>5, MovedType
<1>7. ReadableRowsWhole'
  <2> SUFFICES ASSUME ~Broken', NEW s \in Slot, valid'[s] = 1
               PROVE  Whole(s)'
    BY DEF ReadableRowsWhole
  <2>1. ~Broken /\ \A x \in Slot : valid[x] = 1 => Whole(x)
    BY <1>1 DEF Broken, CacheInv, ReadableRowsWhole, InFlight
  <2>2. PICK x \in Slot : k'[s] = k[x] /\ v'[s] = v[x] /\ valid'[s] = valid[x]
    <3>1. CASE \E i \in 1..Len(dst) : dst[i] = s
      <4> DEFINE j == CHOOSE i \in 1..Len(dst) : dst[i] = s
      <4>1. j \in 1..Len(src)
        BY <1>3, <3>1
      <4>2. src[j] \in Slot
        BY <1>4, <4>1
      <4>3. k'[s] = k[src[j]] /\ v'[s] = v[src[j]] /\ valid'[s] = valid[src[j]]
        BY <1>2, <1>5, <3>1 DEF Moved
      <4> QED
        BY <4>2, <4>3
    <3>2. CASE ~\E i \in 1..Len(dst) : dst[i] = s
      BY <1>2, <1>5, <3>2 DEF Moved
    <3> QED
      BY <3>1, <3>2
  <2> QED
    BY <2>1, <2>2 DEF Whole
<1> QED
  BY <1>1, <1>6, <1>7, IdleMemoryInv

(* Calls and returns.                                                      *)
LEMMA CallStep ==
  ASSUME CacheInv,
         \/ \E w \in WriteCalls : Write(w)
         \/ \E c \in ReadCalls : Attention(c)
  PROVE  CacheInv'
<1>1. HipInv'
  BY IsHipStep, StepInv DEF CacheInv
<1>2. /\ UNCHANGED <<k, v, valid, poisoned, writeCalls, attentionCalls>>
      /\ ~poisoned /\ pc = "idle" /\ pc' \in {"validate", "returned"}
      /\ \/ op' = "write" /\ lanes' \in WriteCalls /\ writeCalls < MaxCalls
         \/ op' = "attend" /\ lanes' \in ReadCalls /\ attentionCalls < MaxCalls
  BY DEF Write, Attention, BeginCall, HostRefuses, Enter, Ready, memVars, objVars
<1>3. pc' = "returned" => ret' # "ok"
  BY DEF Write, Attention, BeginCall, HostRefuses
<1>4. CallInProgress'
  BY <1>2 DEF CallInProgress
<1>5. CacheTypeOK'
  BY <1>1, <1>2 DEF CacheInv, CacheTypeOK, HipInv
<1>6. ReadableRowsWhole'
  BY <1>2, <1>3 DEF CacheInv, ReadableRowsWhole, Broken, InFlight, Whole
<1> QED
  BY <1>1, <1>4, <1>5, <1>6 DEF CacheInv

(* Inside a native call only write_kernel touches memory, and only rows of *)
(* lanes in flight; when it has ended those slots hold their tokens.       *)
LEMMA NativeStepInv == CacheInv /\ NativeStep => CacheInv'
<1> SUFFICES ASSUME CacheInv, NativeStep PROVE CacheInv'
  OBVIOUS
<1>1. HipInv /\ HipInv' /\ HipTypeOK
  BY IsHipStep, StepInv DEF CacheInv, HipInv
<1>2. /\ UNCHANGED <<poisoned, writeCalls, attentionCalls, op, lanes>>
      /\ pc \in {"validate", "kernel"} /\ pc' \in {"validate", "kernel", "returned"}
      /\ pc = "kernel" => pc' # "validate"
  BY DEF NativeStep, Progress, Failure, ValidateLoad, ValidateReport, WriteStep, AttendStep,
     ReturnVerdict, LaunchKernel, ReturnOk, HipCallFails, DeviceFault, Return, Validated, objVars
<1>3. CallInProgress'
  BY <1>2 DEF CacheInv, CallInProgress
<1>4. CacheTypeOK'
  BY <1>1, <1>2 DEF CacheInv, CacheTypeOK, HipInv
<1>5. ReadableRowsWhole'
  <2> SUFFICES ASSUME ~Broken', NEW s \in Slot, valid'[s] = 1, ~InFlight(s)'
               PROVE  Whole(s)'
    BY DEF ReadableRowsWhole
  <2>1. ~Broken /\ (valid[s] = 1 /\ ~InFlight(s) => Whole(s))
    BY <1>2 DEF Broken, CacheInv, CallInProgress, ReadableRowsWhole
  <2>2. CASE \E x \in Item : WriteStep(x[1], x[2])
    <3>1. PICK i \in Lane, h \in KVHead : WriteStep(i, h)
      BY <2>2 DEF Item, KernelHead, WriteStep
    <3>2. pc = "kernel" /\ pc' = "kernel" /\ op = "write"
      BY <3>1 DEF WriteStep
    <3>3. ~InFlight(s) /\ lanes[i].loc # s
      BY <1>2, <3>2 DEF InFlight, Lane
    <3>4. UNCHANGED <<k[s], v[s], valid[s]>>
      BY <1>1, <3>1, <3>3 DEF WriteStep, StoreK, StoreV, SetValid, HipTypeOK
    <3> QED
      BY <2>1, <3>3, <3>4 DEF Whole
  <2>3. CASE ~\E x \in Item : WriteStep(x[1], x[2])
    <3>1. UNCHANGED <<k, v, valid>>
      BY <2>3 DEF NativeStep, Progress, Failure, ValidateLoad, ValidateReport, AttendStep,
         ReturnVerdict, LaunchKernel, ReturnOk, HipCallFails, DeviceFault, memVars
    <3>2. CASE InFlight(s)
      <4>1. PICK i \in Lane : lanes[i].loc = s
        BY <3>2 DEF InFlight
      <4>2. pc = "kernel" /\ op = "write" /\ pc' = "returned" /\ ret' = "ok"
        BY <1>2, <3>2 DEF InFlight, Lane, Broken
      <4>3. \A j \in Lane : Verdict(j) = "ok"
        BY <1>1, <4>2 DEF HipInv, VerdictExact
      <4>4. lanes[i].tok \in Tokens
        BY <1>1, <4>2, <4>3, GoodWrite
      <4>5. \A h \in KVHead : k'[s][h] = <<lanes[i].tok, h>> /\ v'[s][h] = <<lanes[i].tok, h>>
        BY <1>1, <1>2, <4>1, <4>2 DEF HipInv, WriteLands, Lane
      <4> QED
        BY <4>4, <4>5 DEF Whole
    <3>3. CASE ~InFlight(s)
      BY <2>1, <3>1, <3>3 DEF Whole
    <3> QED
      BY <3>2, <3>3
  <2> QED
    BY <2>2, <2>3
<1> QED
  BY <1>1, <1>3, <1>4, <1>5 DEF CacheInv

(* A returned call leaves whole rows, or poisons the object.               *)
LEMMA NativeReturnsInv == CacheInv /\ NativeReturns => CacheInv'
<1> SUFFICES ASSUME CacheInv, NativeReturns PROVE CacheInv'
  OBVIOUS
<1>1. HipInv'
  BY IsHipStep, StepInv DEF CacheInv
<1>2. /\ UNCHANGED <<k, v, valid>> /\ pc = "returned" /\ pc' = "idle"
      /\ poisoned' = (poisoned \/ ret # "ok")
  BY DEF NativeReturns, TakeResult, memVars
<1>3. writeCalls' \in 0..MaxCalls /\ attentionCalls' \in 0..MaxCalls
  BY <1>2, CacheCallAssumption DEF NativeReturns, CacheInv, CacheTypeOK, CallInProgress
<1>4. poisoned' \in BOOLEAN
  BY <1>2
<1>5. ReadableRowsWhole'
  <2>1. ~Broken' => ~Broken
    BY <1>2 DEF Broken
  <2>2. \A s : ~InFlight(s)
    BY <1>2 DEF InFlight
  <2> QED
    BY <1>2, <2>1, <2>2 DEF CacheInv, ReadableRowsWhole, Whole
<1> QED
  BY <1>1, <1>2, <1>3, <1>4, <1>5 DEF CacheInv, CacheTypeOK, CallInProgress, HipInv

(* Every step of the cache object preserves the invariant.                 *)
LEMMA CacheStepInv == CacheInv /\ [CacheNext]_cacheVars => CacheInv'
<1> SUFFICES ASSUME CacheInv, [CacheNext]_cacheVars PROVE CacheInv'
  OBVIOUS
<1>1. CASE UNCHANGED cacheVars
  <2>1. HipInv' /\ UNCHANGED <<k, v, valid, pc, op, lanes, ret, poisoned, writeCalls, attentionCalls>>
    BY <1>1, StepInv DEF CacheInv, cacheVars, hipVars, memVars, callVars, objVars
  <2> QED
    BY <2>1 DEF CacheInv, CacheTypeOK, CallInProgress, ReadableRowsWhole, Broken, InFlight, Whole,
       Lane, HipInv
<1> QED
  BY <1>1, CallStep, NativeStepInv, NativeReturnsInv, InvalidateInv, MoveInv DEF CacheNext
--------------------------------------------------------------------------------
(* The theorems.                                                           *)

(* The invariant of the object: its native buffers, its poison flag and    *)
(* the call it has in progress agree.                                      *)
THEOREM CacheInvariant == CacheSpec => []CacheInv
<1>1. CacheInit => CacheInv
  BY CacheInitInv
<1>2. CacheInv /\ [CacheNext]_cacheVars => CacheInv'
  BY CacheStepInv
<1> QED
  BY <1>1, <1>2, PTL DEF CacheSpec

(* Types of the object's state, for any bound on its counters.             *)
THEOREM CacheTypeCorrect == CacheSpec => []CacheTypeOK
<1>1. CacheInv => CacheTypeOK
  BY DEF CacheInv
<1> QED
  BY <1>1, CacheInvariant, PTL

(* No readable slot ever holds a torn row while the object accepts calls.  *)
THEOREM RowsAreWhole == CacheSpec => []ReadableRowsWhole
<1>1. CacheInv => ReadableRowsWhole
  BY DEF CacheInv
<1> QED
  BY <1>1, CacheInvariant, PTL

--------------------------------------------------------------------------------
(* The counters.                                                           *)

(* A readable slot is explained by a counted write, or by the one being    *)
(* run or about to be counted.                                             *)
RowsCounted ==
  ~Broken /\ (\E s \in Slot : valid[s] = 1) =>
    writeCalls > 0 \/ (op = "write" /\ pc \in {"kernel", "returned"})

AnswersCounted ==
  /\ (\E x \in DOMAIN delivered : delivered[x] # <<>>) => writeCalls > 0
  /\ delivered # <<>> <=> attentionCalls > 0

(* The object makes no native call without lanes.                          *)
CallHasLanes == pc # "idle" => lanes # <<>>

EvidenceInv == CacheInv /\ RowsCounted /\ AnswersCounted /\ CallHasLanes

LEMMA EvidenceInit == CacheInit => EvidenceInv
<1> SUFFICES ASSUME CacheInit PROVE EvidenceInv
  OBVIOUS
<1>1. RowsCounted /\ CallHasLanes
  BY DEF CacheInit, HipInit, RowsCounted, CallHasLanes
<1>2. AnswersCounted
  BY DEF CacheInit, AnswersCounted
<1> QED
  BY <1>1, <1>2, CacheInitInv DEF EvidenceInv

(* Inside a native call only a write kernel makes slots readable, and no   *)
(* counter moves.                                                          *)
LEMMA EvidenceNative ==
  ASSUME EvidenceInv, CacheInv', NativeStep
  PROVE  EvidenceInv'
<1>1. /\ UNCHANGED <<poisoned, writeCalls, attentionCalls, delivered, op, lanes>>
      /\ pc \in {"validate", "kernel"} /\ pc' \in {"validate", "kernel", "returned"}
      /\ pc = "kernel" => pc' # "validate"
  BY DEF NativeStep, Progress, Failure, ValidateLoad, ValidateReport, WriteStep, AttendStep,
     ReturnVerdict, LaunchKernel, ReturnOk, HipCallFails, DeviceFault, Return, Validated, objVars
<1>2. AnswersCounted' /\ CallHasLanes'
  BY <1>1 DEF EvidenceInv, AnswersCounted, CallHasLanes
<1>3. ~Broken
  BY <1>1 DEF Broken, EvidenceInv, CacheInv, CallInProgress
<1>4. CASE \E x \in Item : WriteStep(x[1], x[2])
  <2>1. op' = "write" /\ pc' = "kernel"
    BY <1>1, <1>4 DEF WriteStep
  <2>2. RowsCounted'
    BY <2>1 DEF RowsCounted
  <2> QED
    BY <1>2, <2>2 DEF EvidenceInv
<1>5. CASE ~\E x \in Item : WriteStep(x[1], x[2])
  <2>1. valid' = valid
    BY <1>5 DEF NativeStep, Progress, Failure, ValidateLoad, ValidateReport, AttendStep,
       ReturnVerdict, LaunchKernel, ReturnOk, HipCallFails, DeviceFault, memVars
  <2>2. RowsCounted'
    BY <1>1, <1>3, <2>1 DEF EvidenceInv, RowsCounted
  <2> QED
    BY <1>2, <2>2 DEF EvidenceInv
<1> QED
  BY <1>4, <1>5

(* A returned write is counted with the slots it made readable; a nonempty *)
(* row of an answer was gathered from a readable slot.                     *)
LEMMA EvidenceReturns ==
  ASSUME EvidenceInv, CacheInv', NativeReturns
  PROVE  EvidenceInv'
<1>1. /\ valid' = valid /\ pc = "returned" /\ pc' = "idle"
      /\ poisoned' = (poisoned \/ ret # "ok")
      /\ writeCalls' = writeCalls + IF ret = "ok" /\ op = "write" THEN 1 ELSE 0
      /\ attentionCalls' = attentionCalls + IF ret = "ok" /\ op = "attend" THEN 1 ELSE 0
      /\ delivered' = IF ret = "ok" /\ op = "attend" THEN out ELSE delivered
  BY DEF NativeReturns, TakeResult, memVars
<1>2. /\ writeCalls \in Nat /\ attentionCalls \in Nat /\ ~poisoned /\ HipTypeOK
      /\ op \in {"write", "attend"} /\ (Broken <=> ret # "ok")
  BY <1>1, LaneTypes DEF EvidenceInv, CacheInv, CacheTypeOK, CallInProgress, HipInv, Broken
<1>3. CallHasLanes'
  BY <1>1 DEF CallHasLanes
<1>4. RowsCounted'
  <2> SUFFICES ASSUME ~Broken', \E s \in Slot : valid[s] = 1 PROVE writeCalls' > 0
    BY <1>1 DEF RowsCounted
  <2>1. ret = "ok" /\ ~Broken
    BY <1>1, <1>2 DEF Broken
  <2>2. writeCalls > 0 \/ op = "write"
    BY <2>1 DEF EvidenceInv, RowsCounted
  <2> QED
    BY <1>1, <1>2, <2>1, <2>2
<1>5. AnswersCounted'
  <2>1. CASE ret = "ok" /\ op = "attend"
    <3>1. /\ writeCalls' = writeCalls /\ attentionCalls' = attentionCalls + 1 /\ delivered' = out
      BY <1>1, <1>2, <2>1
    <3>2. /\ DOMAIN out = Lane \X QueryHead
          /\ \A i \in Lane : AttendVerdict(i) = "ok"
          /\ \A i \in Lane, h \in QueryHead : out[<<i, h>>] = Gather(i, h)
      BY <1>1, <2>1 DEF EvidenceInv, CacheInv, HipInv, AttendLands, Item, KernelHead
    <3>3. out # <<>>
      <4>1. Len(lanes) \in Nat /\ Len(lanes) # 0
        BY <1>1, <1>2 DEF HipTypeOK, EvidenceInv, CallHasLanes
      <4>2. 1 \in Lane /\ 0 \in QueryHead
        BY <4>1, ShapeAssumption DEF Lane, QueryHead
      <4>3. <<1, 0>> \in DOMAIN out
        BY <3>2, <4>2
      <4> QED
        BY <4>3
    <3>4. ASSUME NEW x \in DOMAIN out, out[x] # <<>> PROVE writeCalls > 0
      <4>1. PICK i \in Lane, h \in QueryHead : x = <<i, h>>
        BY <3>2
      <4>2. Gather(i, h) # <<>>
        BY <3>2, <3>4, <4>1
      <4>3. 1..lanes[i].len # {}
        BY <4>2 DEF Gather
      <4>4. PICK t \in 1..lanes[i].len : TRUE
        BY <4>3
      <4>5. lanes[i].idx[t] \in Slot /\ valid[lanes[i].idx[t]] # 0
        BY <3>2, <4>4 DEF AttendVerdict
      <4>6. valid[lanes[i].idx[t]] = 1
        BY <1>2, <4>5 DEF HipTypeOK
      <4>7. RowsCounted /\ ~Broken /\ op # "write"
        BY <1>2, <2>1 DEF EvidenceInv
      <4> QED
        BY <4>5, <4>6, <4>7 DEF RowsCounted
    <3> QED
      BY <1>2, <3>1, <3>3, <3>4 DEF AnswersCounted
  <2>2. CASE ~(ret = "ok" /\ op = "attend")
    <3>1. attentionCalls' = attentionCalls /\ delivered' = delivered /\ writeCalls' >= writeCalls
          /\ writeCalls' \in Nat
      BY <1>1, <1>2, <2>2
    <3>2. AnswersCounted
      BY DEF EvidenceInv
    <3> QED
      BY <1>2, <3>1, <3>2 DEF AnswersCounted
  <2> QED
    BY <2>1, <2>2
<1> QED
  BY <1>3, <1>4, <1>5 DEF EvidenceInv

(* A call that starts changes neither memory nor counters; a move makes    *)
(* slots readable only from readable ones, invalidate makes none.          *)
LEMMA EvidenceStep == EvidenceInv /\ [CacheNext]_cacheVars => EvidenceInv'
<1> SUFFICES ASSUME EvidenceInv, [CacheNext]_cacheVars PROVE EvidenceInv'
  OBVIOUS
<1>1. CacheInv'
  BY CacheStepInv DEF EvidenceInv
<1>2. CASE (\E w \in WriteCalls : Write(w)) \/ (\E c \in ReadCalls : Attention(c))
  <2>1. /\ UNCHANGED <<valid, poisoned, writeCalls, attentionCalls, delivered>>
        /\ ~poisoned /\ pc = "idle" /\ pc' \in {"validate", "returned"} /\ lanes' # <<>>
        /\ pc' = "returned" => ret' # "ok"
    BY <1>2 DEF Write, Attention, BeginCall, HostRefuses, Enter, Ready, memVars, objVars
  <2>2. RowsCounted' /\ AnswersCounted' /\ CallHasLanes'
    BY <2>1 DEF EvidenceInv, RowsCounted, AnswersCounted, CallHasLanes, Broken
  <2> QED
    BY <1>1, <2>2 DEF EvidenceInv
<1>3. CASE NativeStep
  BY <1>1, <1>3, EvidenceNative
<1>4. CASE NativeReturns
  BY <1>1, <1>4, EvidenceReturns
<1>5. ASSUME UNCHANGED <<pc, op, lanes, ret, poisoned, writeCalls, attentionCalls, delivered>>,
             (\E s \in Slot : valid'[s] = 1) => (\E s \in Slot : valid[s] = 1)
      PROVE  EvidenceInv'
  <2>1. RowsCounted' /\ AnswersCounted' /\ CallHasLanes'
    BY <1>5 DEF EvidenceInv, RowsCounted, AnswersCounted, CallHasLanes, Broken
  <2> QED
    BY <1>1, <2>1 DEF EvidenceInv
<1>6. valid \in [Slot -> {0, 1}]
  BY DEF EvidenceInv, CacheInv, HipInv, HipTypeOK
<1>7. ASSUME NEW loc \in DropCalls, Invalidate(loc) PROVE EvidenceInv'
  <2>1. UNCHANGED <<pc, op, lanes, ret, poisoned, writeCalls, attentionCalls, delivered>>
    BY <1>7 DEF Invalidate, callVars, objVars
  <2>2. \A s \in Slot : valid'[s] = 1 => valid[s] = 1
    BY <1>6, <1>7 DEF Invalidate, Dropped
  <2> QED
    BY <1>5, <2>1, <2>2
<1>8. ASSUME NEW m \in MoveCalls, Move(m[1], m[2]) PROVE EvidenceInv'
  <2>1. UNCHANGED <<pc, op, lanes, ret, poisoned, writeCalls, attentionCalls, delivered>>
    BY <1>8 DEF Move, callVars, objVars
  <2>2. ASSUME NEW s \in Slot, valid'[s] = 1 PROVE \E x \in Slot : valid[x] = 1
    <3>1. /\ valid' = Moved(valid, m[1], m[2]) /\ Len(m[1]) = Len(m[2])
          /\ \A i \in 1..Len(m[2]) : m[2][i] \in Slot
      BY <1>8 DEF Move, InRange
    <3>2. CASE \E i \in 1..Len(m[1]) : m[1][i] = s
      <4> DEFINE j == CHOOSE i \in 1..Len(m[1]) : m[1][i] = s
      <4>1. j \in 1..Len(m[2]) /\ valid'[s] = valid[m[2][j]]
        BY <1>6, <3>1, <3>2 DEF Moved
      <4> HIDE DEF j
      <4> QED
        BY <2>2, <3>1, <4>1
    <3>3. CASE ~\E i \in 1..Len(m[1]) : m[1][i] = s
      BY <1>6, <2>2, <3>1, <3>3 DEF Moved
    <3> QED
      BY <3>2, <3>3
  <2> QED
    BY <1>5, <2>1, <2>2
<1>9. CASE UNCHANGED cacheVars
  <2>1. UNCHANGED <<valid, pc, op, lanes, ret, poisoned, writeCalls, attentionCalls, delivered>>
    BY <1>9 DEF cacheVars, hipVars, memVars, callVars, objVars
  <2> QED
    BY <1>5, <2>1
<1> QED
  BY <1>2, <1>3, <1>4, <1>7, <1>8, <1>9 DEF CacheNext

(* evidence() never counts what did not happen: no row is readable and no  *)
(* row answered without a counted write, none delivered without a counted  *)
(* attention, for every set of calls and every failure.                    *)
THEOREM EvidenceIsBacked == CacheSpec => []EvidenceBacked
<1>1. CacheInit => EvidenceInv
  BY EvidenceInit
<1>2. EvidenceInv /\ [CacheNext]_cacheVars => EvidenceInv'
  BY EvidenceStep
<1>3. EvidenceInv => EvidenceBacked
  BY DEF EvidenceInv, RowsCounted, AnswersCounted, EvidenceBacked
<1> QED
  BY <1>1, <1>2, <1>3, PTL DEF CacheSpec

--------------------------------------------------------------------------------
(* CompressedCache implements KVStore: a validated write takes effect when *)
(* its kernel is launched, an answer when it is returned, a failure when   *)
(* the native call returns its status.                                     *)


(* The initial states of the cache are initial states of the store.        *)
LEMMA RefineInit == CacheInit => Store!StoreInit
BY DEF CacheInit, HipInit, Store!StoreInit, Content, Broken, InFlight, Slot

(* Slots outside a write in flight show their rows.                        *)
LEMMA ContentOf ==
  ASSUME NEW s \in Slot, ~Broken, ~InFlight(s)
  PROVE  Content[s] = IF valid[s] = 1 THEN k[s][0][1] ELSE Zero
BY DEF Content

(* A readable slot shows the token whose rows it holds.                    *)
LEMMA ContentRows ==
  ASSUME CacheInv, NEW s \in Slot, ~Broken, ~InFlight(s), valid[s] = 1
  PROVE  /\ Content[s] \in Tokens /\ Content[s] # Zero
         /\ \A h \in KVHead : k[s][h] = <<Content[s], h>> /\ v[s][h] = <<Content[s], h>>
<1>1. PICK tok \in Tokens : \A h \in KVHead : k[s][h] = <<tok, h>> /\ v[s][h] = <<tok, h>>
  BY DEF CacheInv, ReadableRowsWhole, Whole
<1>2. k[s][0] = <<tok, 0>>
  BY <1>1, ZeroIsHead
<1>3. Content[s] = tok
  BY <1>2, ContentOf
<1> QED
  BY <1>1, <1>3, ZeroAssumption

(* A step that keeps the memory and neither enters nor leaves a write      *)
(* kernel nor fails is invisible.                                          *)
LEMMA Invisible ==
  ASSUME UNCHANGED <<k, valid, delivered>>, Broken' <=> Broken,
         \A s \in Slot : InFlight(s)' <=> InFlight(s),
         \A s \in Slot : InFlight(s) => lanes' = lanes
  PROVE  UNCHANGED Store!storeVars
<1>1. ASSUME NEW s \in Slot PROVE Content'[s] = Content[s]
  <2>1. CASE InFlight(s)
    <3>1. lanes' = lanes /\ InFlight(s)'
      BY <2>1
    <3> QED
      BY <2>1, <3>1 DEF Content, Lane
  <2>2. CASE ~InFlight(s)
    <3>1. ~InFlight(s)'
      BY <2>2
    <3> QED
      BY <2>2, <3>1 DEF Content
  <2> QED
    BY <2>1, <2>2
<1>2. Content' = Content
  BY <1>1 DEF Content
<1>3. (~Broken)' = ~Broken
  OBVIOUS
<1> QED
  BY <1>2, <1>3 DEF Store!storeVars

(* Starting a native call is invisible in the store.                       *)
LEMMA RefineCall ==
  ASSUME CacheInv,
         \/ \E w \in WriteCalls : Write(w)
         \/ \E c \in ReadCalls : Attention(c)
  PROVE  Store!Break \/ UNCHANGED Store!storeVars
<1>1. /\ UNCHANGED <<k, v, valid, poisoned, delivered>> /\ ~poisoned /\ pc = "idle"
      /\ \/ pc' = "validate"
         \/ pc' = "returned" /\ ret' = "invalid"
  BY DEF Write, Attention, BeginCall, HostRefuses, Enter, Ready, memVars, objVars
<1>2. ~Broken /\ \A s \in Slot : ~InFlight(s) /\ ~InFlight(s)'
  BY <1>1 DEF Broken, InFlight
<1>3. CASE pc' = "validate"
  <2>1. ~Broken'
    BY <1>1, <1>3 DEF Broken
  <2> QED
    BY <1>1, <1>2, <2>1, Invisible
<1>4. CASE pc' = "returned" /\ ret' = "invalid"
  <2>1. Broken'
    BY <1>4 DEF Broken
  <2>2. Content' = [s \in Slot |-> Zero]
    BY <2>1 DEF Content
  <2> QED
    BY <1>1, <1>2, <2>1, <2>2 DEF Store!Break
<1> QED
  BY <1>1, <1>3, <1>4

(* Launching the kernel of a validated write is the store's Put: the       *)
(* verdict is what Put asks of its batch.                                  *)
LEMMA RefineLaunchWrite ==
  ASSUME CacheInv, CacheInv', LaunchKernel, UNCHANGED objVars, op = "write"
  PROVE  Store!Put(lanes) /\ lanes \in WriteCalls
<1>1. /\ UNCHANGED <<k, v, valid, op, lanes, poisoned, delivered>>
      /\ pc = "validate" /\ pc' = "kernel"
  BY DEF LaunchKernel, Validated, memVars, objVars
<1>2. ~Broken /\ ~Broken' /\ lanes \in WriteCalls
  BY <1>1 DEF Broken, CacheInv, CallInProgress
<1>3. \A i \in Lane : Verdict(i) = "ok"
  BY DEF LaunchKernel, Validated, CacheInv, HipInv, VerdictExact
<1>4. /\ \A i \in Lane : lanes[i].loc \in Slot /\ lanes[i].tok \in Tokens
      /\ \A i, j \in Lane : i # j => lanes[i].loc # lanes[j].loc
  BY <1>3, GoodWrite DEF CacheInv, HipInv
<1>5. \A s \in Slot : ~InFlight(s) /\ (InFlight(s)' <=> \E i \in Lane : lanes[i].loc = s)
  BY <1>1 DEF InFlight, Lane
<1>6. Content' = Store!Stored(Content, lanes)
  <2>1. DOMAIN Content = Slot
    BY DEF Content
  <2>2. ASSUME NEW s \in Slot
        PROVE  Content'[s] = IF \E i \in 1..Len(lanes) : lanes[i].loc = s
                             THEN lanes[CHOOSE i \in 1..Len(lanes) : lanes[i].loc = s].tok
                             ELSE Content[s]
    BY <1>1, <1>2, <1>5 DEF Content, Lane
  <2>3. Content' = [s \in Slot |-> Content'[s]]
    BY DEF Content
  <2> QED
    BY <2>1, <2>2, <2>3 DEF Store!Stored
<1>7. (~Broken)' = ~Broken
  BY <1>2
<1> QED
  BY <1>1, <1>2, <1>4, <1>6, <1>7 DEF Store!Put, Lane

(* Threads of write_kernel work on slots already shown with the new token. *)
LEMMA RefineWriteStep ==
  ASSUME CacheInv, NEW i \in Lane, NEW h \in KernelHead, WriteStep(i, h), UNCHANGED objVars
  PROVE  UNCHANGED Store!storeVars
<1>1. /\ UNCHANGED <<pc, op, lanes, ret, poisoned, delivered>> /\ pc = "kernel" /\ op = "write"
      /\ StoreK(i, h) \/ StoreV(i, h) \/ SetValid(i, h)
  BY DEF WriteStep, objVars
<1>2. HipTypeOK
  BY DEF CacheInv, HipInv
<1>3. ASSUME NEW s \in Slot, ~InFlight(s) PROVE k'[s] = k[s] /\ valid'[s] = valid[s]
  <2>1. lanes[i].loc # s
    BY <1>1, <1>3 DEF InFlight, Lane
  <2> QED
    BY <1>1, <1>2, <2>1 DEF StoreK, StoreV, SetValid, HipTypeOK
<1>4. (Broken' <=> Broken) /\ \A s \in Slot : InFlight(s)' <=> InFlight(s)
  BY <1>1 DEF Broken, InFlight, Lane
<1>5. ASSUME NEW s \in Slot PROVE Content'[s] = Content[s]
  BY <1>1, <1>3, <1>4 DEF Content, Lane
<1>6. Content' = Content
  BY <1>5 DEF Content
<1>7. (~Broken)' = ~Broken
  BY <1>4
<1> QED
  BY <1>1, <1>6, <1>7 DEF Store!storeVars

(* A kernel that ends is invisible: a write's rows are those of the tokens *)
(* the store already shows in their slots.                                 *)
LEMMA RefineReturnOk ==
  ASSUME CacheInv, CacheInv', ReturnOk, UNCHANGED objVars
  PROVE  UNCHANGED Store!storeVars
<1>1. /\ UNCHANGED <<k, v, valid, op, lanes, poisoned, delivered>>
      /\ pc = "kernel" /\ pc' = "returned" /\ ret' = "ok"
  BY DEF ReturnOk, Return, memVars, objVars
<1>2. ~Broken /\ ~Broken' /\ \A s \in Slot : ~InFlight(s)'
  BY <1>1 DEF Broken, InFlight, CacheInv, CallInProgress
<1>3. ASSUME NEW s \in Slot PROVE Content'[s] = Content[s]
  <2>1. CASE InFlight(s)
    <3> DEFINE j == CHOOSE i \in Lane : lanes[i].loc = s
    <3>1. op = "write" /\ j \in Lane /\ lanes[j].loc = s /\ Lane' = Lane
      BY <1>1, <2>1 DEF InFlight, Lane
    <3>2. valid[s] = 1 /\ k[s][0] = <<lanes[j].tok, 0>>
      BY <1>1, <3>1, ZeroIsHead DEF CacheInv, HipInv, WriteLands
    <3>3. Content[s] = lanes[j].tok
      BY <1>2, <2>1 DEF Content
    <3>4. Content'[s] = k[s][0][1]
      BY <1>1, <1>2, <3>2 DEF Content
    <3> QED
      BY <3>2, <3>3, <3>4
  <2>2. CASE ~InFlight(s)
    BY <1>1, <1>2, <2>2 DEF Content
  <2> QED
    BY <2>1, <2>2
<1>4. Content' = Content
  BY <1>3 DEF Content
<1>5. (~Broken)' = ~Broken
  BY <1>2
<1> QED
  BY <1>1, <1>4, <1>5 DEF Store!storeVars

(* The first failing return of a native call is the store's Break.         *)
LEMMA RefineFailure ==
  ASSUME CacheInv, ReturnVerdict \/ Failure, UNCHANGED objVars
  PROVE  Store!Break
<1>1. /\ UNCHANGED <<poisoned, delivered>> /\ pc \in {"validate", "kernel"}
      /\ pc' = "returned" /\ ret' # "ok"
  BY DEF ReturnVerdict, Failure, HipCallFails, DeviceFault, Validated, Return, objVars
<1>2. ~Broken /\ Broken'
  BY <1>1 DEF Broken, CacheInv, CallInProgress
<1>3. Content' = [s \in Slot |-> Zero]
  BY <1>2 DEF Content
<1> QED
  BY <1>1, <1>2, <1>3 DEF Store!Break

(* Attention's answer: every row it gathered is the row of the token the   *)
(* store shows in that slot.                                               *)
LEMMA RefineAnswer ==
  ASSUME CacheInv, NativeReturns, ret = "ok", op = "attend"
  PROVE  Store!Read(lanes) /\ lanes \in ReadCalls
<1>1. /\ UNCHANGED <<k, v, valid>> /\ pc = "returned" /\ pc' = "idle"
      /\ poisoned' = (poisoned \/ ret # "ok") /\ delivered' = out
  BY DEF NativeReturns, TakeResult, memVars
<1>2. ~Broken /\ ~Broken' /\ lanes \in ReadCalls /\ \A s \in Slot : ~InFlight(s) /\ ~InFlight(s)'
  BY <1>1 DEF Broken, InFlight, CacheInv, CallInProgress
<1>3. /\ DOMAIN out = Lane \X QueryHead
      /\ \A i \in Lane : AttendVerdict(i) = "ok"
      /\ \A i \in Lane, h \in QueryHead : out[<<i, h>>] = Gather(i, h)
      /\ out = [x \in DOMAIN out |-> out[x]]
  BY <1>1 DEF CacheInv, HipInv, AttendLands, FreshOutput, Item, KernelHead
<1>4. ASSUME NEW i \in Lane, NEW t \in 1..lanes[i].len
      PROVE  lanes[i].idx[t] \in Slot /\ valid[lanes[i].idx[t]] = 1
  <2>1. valid \in [Slot -> {0, 1}]
    BY DEF CacheInv, HipInv, HipTypeOK
  <2> QED
    BY <1>3, <2>1 DEF AttendVerdict
<1>5. Store!Readable(lanes)
  BY <1>2, <1>4, ContentRows DEF Store!Readable, Lane
<1>6. out = Store!Rows(lanes)
  <2>1. ASSUME NEW i \in Lane, NEW h \in QueryHead
        PROVE  out[<<i, h>>] =
                 [t \in 1..lanes[i].len |->
                    <<<<Content[lanes[i].idx[t]], KVHeadOf(h)>>,
                      <<Content[lanes[i].idx[t]], KVHeadOf(h)>>>>]
    <3>1. KVHeadOf(h) \in KVHead
      BY GroupHead
    <3>2. ASSUME NEW t \in 1..lanes[i].len
          PROVE  /\ k[lanes[i].idx[t]][KVHeadOf(h)] = <<Content[lanes[i].idx[t]], KVHeadOf(h)>>
                 /\ v[lanes[i].idx[t]][KVHeadOf(h)] = <<Content[lanes[i].idx[t]], KVHeadOf(h)>>
      BY <1>2, <1>4, <3>1, ContentRows
    <3>3. ASSUME NEW t \in 1..lanes[i].len
          PROVE  <<k[lanes[i].idx[t]][KVHeadOf(h)], v[lanes[i].idx[t]][KVHeadOf(h)]>> =
                 <<<<Content[lanes[i].idx[t]], KVHeadOf(h)>>, <<Content[lanes[i].idx[t]], KVHeadOf(h)>>>>
      BY <3>2
    <3>4. Gather(i, h) =
            [t \in 1..lanes[i].len |->
               <<<<Content[lanes[i].idx[t]], KVHeadOf(h)>>, <<Content[lanes[i].idx[t]], KVHeadOf(h)>>>>]
      BY <3>3, Zenon DEF Gather
    <3> QED
      BY <1>3, <3>4
  <2>2. ASSUME NEW x \in (1..Len(lanes)) \X QueryHead
        PROVE  out[x] =
                 [t \in 1..lanes[x[1]].len |->
                    LET row == <<Content[lanes[x[1]].idx[t]], KVHeadOf(x[2])>>
                    IN  <<row, row>>]
    <3>1. x[1] \in Lane /\ x[2] \in QueryHead /\ x = <<x[1], x[2]>>
      BY DEF Lane
    <3>2. out[x] = out[<<x[1], x[2]>>]
      BY <3>1
    <3> QED
      BY <2>1, <3>1, <3>2
  <2> QED
    BY <1>3, <2>2 DEF Store!Rows, Lane
<1>7. ASSUME NEW s \in Slot PROVE Content'[s] = Content[s]
  BY <1>1, <1>2 DEF Content
<1>8. Content' = Content /\ (~Broken)' = ~Broken
  BY <1>2, <1>7 DEF Content
<1> QED
  BY <1>1, <1>2, <1>5, <1>6, <1>8 DEF Store!Read

(* The object taking any other status is invisible in the store.           *)
LEMMA RefineReturn ==
  ASSUME CacheInv, NativeReturns, ~(ret = "ok" /\ op = "attend")
  PROVE  UNCHANGED Store!storeVars
<1>1. /\ UNCHANGED <<k, valid, delivered>> /\ pc = "returned" /\ pc' = "idle"
      /\ poisoned' = (poisoned \/ ret # "ok")
  BY DEF NativeReturns, TakeResult, memVars
<1>2. (Broken' <=> Broken) /\ \A s \in Slot : ~InFlight(s) /\ ~InFlight(s)'
  BY <1>1 DEF Broken, InFlight
<1> QED
  BY <1>1, <1>2, Invisible

(* invalidate is the store's Drop.                                         *)
LEMMA RefineInvalidate ==
  ASSUME CacheInv, NEW loc \in DropCalls, Invalidate(loc)
  PROVE  \E S \in {{q[i] : i \in 1..Len(q)} : q \in DropCalls} : Store!Drop(S)
<1> DEFINE S == {loc[i] : i \in 1..Len(loc)}
<1>1. /\ UNCHANGED <<k, v, pc, op, lanes, ret, poisoned, delivered>> /\ pc = "idle" /\ ~poisoned
      /\ valid' = Dropped(valid, S, 0) /\ valid \in [Slot -> {0, 1}]
  BY DEF Invalidate, Ready, callVars, objVars, CacheInv, HipInv, HipTypeOK
<1>2. ~Broken /\ ~Broken' /\ \A s \in Slot : ~InFlight(s) /\ ~InFlight(s)'
  BY <1>1 DEF Broken, InFlight
<1>3. \A s \in Slot : valid'[s] = IF s \in S THEN 0 ELSE valid[s]
  BY <1>1 DEF Dropped
<1>4. \A s \in Slot : Content'[s] = IF s \in S THEN Zero ELSE Content[s]
  BY <1>1, <1>2, <1>3 DEF Content
<1>5. Content' = Store!Dropped(Content, S, Zero)
  <2>1. DOMAIN Content = Slot /\ Content' = [s \in Slot |-> Content'[s]]
    BY DEF Content
  <2> HIDE DEF S
  <2> QED
    BY <1>4, <2>1 DEF Store!Dropped
<1>6. Store!Drop(S)
  BY <1>1, <1>2, <1>5 DEF Store!Drop
<1> QED
  BY <1>6

(* move is the store's Move.                                               *)
LEMMA RefineMove ==
  ASSUME CacheInv, NEW m \in MoveCalls, Move(m[1], m[2])
  PROVE  Store!Move(m[1], m[2])
<1> DEFINE dst == m[1]
           src == m[2]
<1>1. /\ UNCHANGED <<pc, op, lanes, ret, poisoned, delivered>> /\ pc = "idle" /\ ~poisoned
      /\ k' = Moved(k, dst, src) /\ valid' = Moved(valid, dst, src)
      /\ Distinct(dst) /\ Len(dst) = Len(src)
      /\ \A i \in 1..Len(src) : src[i] \in Slot /\ valid[src[i]] # 0
      /\ DOMAIN k = Slot /\ valid \in [Slot -> {0, 1}]
  BY DEF Move, InRange, Ready, callVars, objVars, CacheInv, HipInv, HipTypeOK
<1>2. ~Broken /\ ~Broken' /\ \A s \in Slot : ~InFlight(s) /\ ~InFlight(s)'
  BY <1>1 DEF Broken, InFlight
<1>3. \A i \in 1..Len(src) : valid[src[i]] = 1 /\ Content[src[i]] # Zero
  BY <1>1, <1>2, ContentRows
<1>4. ASSUME NEW s \in Slot
      PROVE  Content'[s] = IF \E i \in 1..Len(dst) : dst[i] = s
                           THEN Content[src[CHOOSE i \in 1..Len(dst) : dst[i] = s]]
                           ELSE Content[s]
  <2>1. CASE \E i \in 1..Len(dst) : dst[i] = s
    <3> DEFINE j == CHOOSE i \in 1..Len(dst) : dst[i] = s
    <3>1. j \in 1..Len(src)
      BY <1>1, <2>1
    <3>2. k'[s] = k[src[j]] /\ valid'[s] = valid[src[j]]
      BY <1>1, <2>1 DEF Moved
    <3>3. valid[src[j]] = 1 /\ src[j] \in Slot
      BY <1>1, <1>3, <3>1
    <3> HIDE DEF j
    <3>4. Content'[s] = Content[src[j]]
      BY <1>2, <3>2, <3>3 DEF Content
    <3> QED
      BY <2>1, <3>4 DEF j
  <2>2. CASE ~\E i \in 1..Len(dst) : dst[i] = s
    <3>1. k'[s] = k[s] /\ valid'[s] = valid[s]
      BY <1>1, <2>2 DEF Moved
    <3> QED
      BY <1>2, <2>2, <3>1 DEF Content
  <2> QED
    BY <2>1, <2>2
<1>5. Content' = Store!Moved(Content, dst, src)
  <2>1. DOMAIN Content = Slot /\ Content' = [s \in Slot |-> Content'[s]]
    BY DEF Content
  <2> QED
    BY <1>4, <2>1 DEF Store!Moved
<1>6. Store!Distinct(dst)
  BY <1>1 DEF Distinct, Store!Distinct
<1>7. (~Broken)' = ~Broken
  BY <1>2
<1> QED
  BY <1>1, <1>2, <1>3, <1>5, <1>6, <1>7 DEF Store!Move

(* Every step inside a native call is a step of the store or a stutter.    *)
LEMMA RefineNativeStep ==
  ASSUME CacheInv, CacheInv', NativeStep
  PROVE  \/ Store!Break \/ UNCHANGED Store!storeVars
         \/ \E w \in WriteCalls : Store!Put(w)
<1>1. UNCHANGED objVars
  BY DEF NativeStep
<1>2. CASE LaunchKernel
  <2>1. CASE op = "write"
    BY <1>1, <1>2, <2>1, RefineLaunchWrite
  <2>2. CASE op # "write"
    <3>1. UNCHANGED <<k, valid, lanes, poisoned, delivered>> /\ pc' = "kernel" /\ pc = "validate"
          /\ op' # "write"
      BY <1>1, <1>2, <2>2 DEF LaunchKernel, Validated, memVars, objVars
    <3>2. (Broken' <=> Broken) /\ \A s \in Slot : ~InFlight(s) /\ ~InFlight(s)'
      BY <2>2, <3>1 DEF Broken, InFlight
    <3> QED
      BY <3>1, <3>2, Invisible
  <2> QED
    BY <2>1, <2>2
<1>3. ASSUME NEW i \in Lane, ValidateLoad(i) \/ ValidateReport(i)
      PROVE  UNCHANGED Store!storeVars
  <2>1. UNCHANGED <<k, valid, pc, op, lanes, ret, poisoned, delivered>>
    BY <1>1, <1>3 DEF ValidateLoad, ValidateReport, memVars, objVars
  <2>2. (Broken' <=> Broken) /\ \A s \in Slot : InFlight(s)' <=> InFlight(s)
    BY <2>1 DEF Broken, InFlight, Lane
  <2> QED
    BY <2>1, <2>2, Invisible
<1>4. ASSUME NEW i \in Lane, NEW h \in KernelHead, AttendStep(i, h)
      PROVE  UNCHANGED Store!storeVars
  <2>1. UNCHANGED <<k, valid, pc, op, lanes, ret, poisoned, delivered>>
    BY <1>1, <1>4 DEF AttendStep, memVars, objVars
  <2>2. (Broken' <=> Broken) /\ \A s \in Slot : InFlight(s)' <=> InFlight(s)
    BY <2>1 DEF Broken, InFlight, Lane
  <2> QED
    BY <2>1, <2>2, Invisible
<1> QED
  BY <1>1, <1>2, <1>3, <1>4, RefineWriteStep, RefineReturnOk, RefineFailure
     DEF NativeStep, Progress, Item

(* Every step of the cache is a step of the store or a stutter.            *)
LEMMA RefineStep == CacheInv /\ CacheInv' /\ [CacheNext]_cacheVars => [Store!StoreNext]_(Store!storeVars)
<1> SUFFICES ASSUME CacheInv, CacheInv', [CacheNext]_cacheVars
             PROVE  Store!StoreNext \/ UNCHANGED Store!storeVars
  OBVIOUS
<1>1. CASE (\E w \in WriteCalls : Write(w)) \/ (\E c \in ReadCalls : Attention(c))
  BY <1>1, RefineCall DEF Store!StoreNext
<1>2. CASE NativeStep
  BY <1>2, RefineNativeStep DEF Store!StoreNext
<1>3. CASE NativeReturns
  <2>1. CASE ret = "ok" /\ op = "attend"
    BY <1>3, <2>1, RefineAnswer DEF Store!StoreNext
  <2>2. CASE ~(ret = "ok" /\ op = "attend")
    BY <1>3, <2>2, RefineReturn
  <2> QED
    BY <2>1, <2>2
<1>4. ASSUME NEW loc \in DropCalls, Invalidate(loc) PROVE Store!StoreNext
  BY <1>4, RefineInvalidate DEF Store!StoreNext
<1>5. ASSUME NEW m \in MoveCalls, Move(m[1], m[2]) PROVE Store!StoreNext
  BY <1>5, RefineMove DEF Store!StoreNext
<1>6. CASE UNCHANGED cacheVars
  <2>1. UNCHANGED <<k, valid, pc, op, lanes, ret, poisoned, delivered>>
    BY <1>6 DEF cacheVars, hipVars, memVars, callVars, objVars
  <2>2. (Broken' <=> Broken) /\ \A s \in Slot : InFlight(s)' <=> InFlight(s)
    BY <2>1 DEF Broken, InFlight, Lane
  <2> QED
    BY <2>1, <2>2, Invisible
<1> QED
  BY <1>1, <1>2, <1>3, <1>4, <1>5, <1>6 DEF CacheNext

(* Every behaviour of the cache, at GPU-thread granularity and with every  *)
(* failure, is a behaviour of the abstract store.                          *)
THEOREM CacheImplementsStore == CacheSpec => ImplementsStore
<1>1. CacheInit => Store!StoreInit
  BY RefineInit
<1>2. CacheInv /\ CacheInv' /\ [CacheNext]_cacheVars => [Store!StoreNext]_(Store!storeVars)
  BY RefineStep
<1> QED
  BY <1>1, <1>2, CacheInvariant, PTL DEF CacheSpec, ImplementsStore, Store!StoreSpec
================================================================================
