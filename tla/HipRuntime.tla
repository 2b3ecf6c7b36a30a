------------------------------ MODULE HipRuntime ------------------------------
(***************************************************************************)
(* The native runtime of native/runtime_hip.hip behind its C ABI, one GPU  *)
(* thread step at a time.  A call refuses on the host, or launches a       *)
(* validation kernel (one thread per lane: per token to write, per query   *)
(* to attend), copies the device status back, and only then launches the   *)
(* kernel that stores rows or computes attention (one thread per lane and  *)
(* head).  The host waits for the stream, so one call runs at a time; the  *)
(* interleaving is that of the threads inside a kernel.                    *)
(*                                                                         *)
(* A compressed row is abstracted to <<token, head>>: whose row it is and  *)
(* which head's.  SPRY_UQ_MALFORMED_ENCODING has no transition: the check  *)
(* at runtime_hip.hip:134-137 rejects scale bytes above 140, and no row    *)
(* this library stores has one (module Codec).                             *)
(***************************************************************************)
EXTENDS Integers, Sequences

CONSTANTS
  SlotCount,     \* physical slots of the cache
  KVHeads,       \* key/value heads per token
  QueryHeads,    \* query heads, a multiple of KVHeads
  Tokens,        \* tokens whose K/V is finite and within +-256
  Bad,           \* a token with a nonfinite or out-of-range K/V element
  Zero,          \* a row never stored (the buffers start zeroed)
  WriteCalls,    \* argument batches of spry_uq_hip_write
  ReadCalls      \* argument batches of spry_uq_hip_attention

Slot == 0..(SlotCount - 1)
KVHead == 0..(KVHeads - 1)
QueryHead == 0..(QueryHeads - 1)
Row == Tokens \X KVHead

WriteLane == [loc : Int, tok : Tokens \cup {Bad}]
ReadLane == [idx : Seq(Int), len : Int, finite : BOOLEAN]

ASSUME ShapeAssumption ==
  /\ SlotCount \in Nat \ {0} /\ KVHeads \in Nat \ {0} /\ QueryHeads \in Nat \ {0}
  /\ QueryHeads % KVHeads = 0
ASSUME ValueAssumption == Bad \notin Tokens /\ Zero \notin Row
ASSUME CallAssumption ==
  /\ WriteCalls \subseteq Seq(WriteLane)
  /\ ReadCalls \subseteq Seq(ReadLane)
  \* indices is one [queries, max_length] tensor
  /\ \A c \in ReadCalls : \A i, j \in 1..Len(c) : Len(c[i].idx) = Len(c[j].idx)

VARIABLES
  k, v,     \* k[s][h], v[s][h]: compressed K and V row of head h in slot s
  valid,    \* valid[s]: the validity byte of slot s
  pc,       \* host: "idle", "validate", "kernel" (second launch) or "returned"
  op,       \* "write" or "attend": the ABI function last called
  lanes,    \* its arguments
  st,       \* the int at device_status
  vpc,      \* vpc[i]: validation thread of lane i
  kpc,      \* kpc[<<i, h>>]: kernel thread of lane i and head h
  out,      \* output rows computed so far, by kernel thread
  ret       \* status returned to the caller

memVars == <<k, v, valid>>
callVars == <<pc, op, lanes, st, vpc, kpc, out, ret>>
hipVars == <<memVars, callVars>>

Lane == 1..Len(lanes)
KernelHead == IF op = "write" THEN KVHead ELSE QueryHead
Item == Lane \X KernelHead

(* Mutant of KVHeadOf: heads interleaved instead of grouped.               *)
KVHeadInterleaved(h) == h % KVHeads

(* Grouped-query attention: query head h reads this key/value head.        *)
KVHeadOf(h) == h \div (QueryHeads \div KVHeads)

(* Mutants of WriteVerdict: the values are not looked at; the scan for an  *)
(* earlier lane with the same slot ends one lane too early.                *)
WriteVerdictSlotsOnly(i) ==
  IF \/ lanes[i].loc \notin Slot
     \/ \E p \in 1..(i - 1) : lanes[p].loc = lanes[i].loc
  THEN "invalid" ELSE "ok"

WriteVerdictShortScan(i) ==
  IF \/ lanes[i].loc \notin Slot
     \/ \E p \in 1..(i - 2) : lanes[p].loc = lanes[i].loc
  THEN "invalid"
  ELSE IF lanes[i].tok = Bad THEN "nonfinite" ELSE "ok"

(* What validate_write_kernel stores for lane i, "ok" for nothing.         *)
WriteVerdict(i) ==
  IF \/ lanes[i].loc \notin Slot
     \/ \E p \in 1..(i - 1) : lanes[p].loc = lanes[i].loc
  THEN "invalid"
  ELSE IF lanes[i].tok = Bad THEN "nonfinite" ELSE "ok"

(* What validate_attention_kernel stores for lane i.  Entries of idx at or *)
(* beyond len are never read.                                              *)
AttendVerdict(i) ==
  IF ~lanes[i].finite THEN "nonfinite"
  ELSE IF \/ lanes[i].len < 0 \/ lanes[i].len > Len(lanes[i].idx)
          \/ \E t \in 1..lanes[i].len :
                \/ lanes[i].idx[t] \notin Slot
                \/ valid[lanes[i].idx[t]] = 0
  THEN "invalid" ELSE "ok"

Verdict(i) == IF op = "write" THEN WriteVerdict(i) ELSE AttendVerdict(i)

(* Rows kernel thread <<i, h>> of attention_kernel combines, in order.     *)
Gather(i, h) ==
  [t \in 1..lanes[i].len |->
     <<k[lanes[i].idx[t]][KVHeadOf(h)], v[lanes[i].idx[t]][KVHeadOf(h)]>>]

--------------------------------------------------------------------------------
HipInit ==
  /\ k = [s \in Slot |-> [h \in KVHead |-> Zero]]
  /\ v = [s \in Slot |-> [h \in KVHead |-> Zero]]
  /\ valid = [s \in Slot |-> 0]
  /\ pc = "idle" /\ op = "write" /\ lanes = <<>> /\ st = "ok"
  /\ vpc = <<>> /\ kpc = <<>> /\ out = <<>> /\ ret = "ok"

(* Common to the ways a call starts.                                       *)
Enter(o, c) ==
  /\ pc = "idle"
  /\ op' = o /\ lanes' = c
  /\ UNCHANGED <<memVars, kpc, out>>

(* Host checks and device/stream/pointer checks pass: the status word is   *)
(* zeroed and the validation kernel is launched.                           *)
BeginCall(o, c) ==
  /\ c # <<>>
  /\ Enter(o, c)
  /\ pc' = "validate" /\ st' = "ok"
  /\ vpc' = [i \in 1..Len(c) |-> "start"]
  /\ UNCHANGED ret

(* A call with no lanes succeeds before the device is touched.             *)
EmptyCall(o) ==
  /\ Enter(o, <<>>)
  /\ pc' = "returned" /\ ret' = "ok"
  /\ UNCHANGED <<st, vpc>>

(* A wrong device, stream, pointer or shape: the host refuses.  "invalid"  *)
(* stands for each status of a refusal or of a failing HIP call.           *)
HostRefuses(o, c) ==
  /\ Enter(o, c)
  /\ pc' = "returned" /\ ret' = "invalid"
  /\ UNCHANGED <<st, vpc>>

(* Thread i reads *status without synchronisation and returns early if it  *)
(* is set.  The read races with atomicCAS: it yields the word's value or   *)
(* the zero it held when the kernel started.                               *)
ValidateLoad(i) ==
  /\ pc = "validate" /\ vpc[i] = "start"
  /\ \E seen \in {st, "ok"} :
       vpc' = [vpc EXCEPT ![i] = IF seen = "ok" THEN "check" ELSE "done"]
  /\ UNCHANGED <<memVars, pc, op, lanes, st, kpc, out, ret>>

(* Mutant of ValidateReport: a plain store instead of atomicCAS.           *)
ValidateReportOverwrites(i) ==
  /\ pc = "validate" /\ vpc[i] = "check"
  /\ st' = Verdict(i)
  /\ vpc' = [vpc EXCEPT ![i] = "done"]
  /\ UNCHANGED <<memVars, pc, op, lanes, kpc, out, ret>>

(* Thread i decides; set_device_error keeps the first failure.             *)
ValidateReport(i) ==
  /\ pc = "validate" /\ vpc[i] = "check"
  /\ st' = IF st = "ok" THEN Verdict(i) ELSE st
  /\ vpc' = [vpc EXCEPT ![i] = "done"]
  /\ UNCHANGED <<memVars, pc, op, lanes, kpc, out, ret>>

(* The call ends and its threads are gone.                                 *)
Return(status) ==
  /\ pc' = "returned" /\ ret' = status
  /\ vpc' = <<>> /\ kpc' = <<>>
  /\ UNCHANGED <<op, lanes, st, out>>

(* Any HIP API error up to and including the status copy and the free of   *)
(* the status word is reported as SPRY_UQ_INVALID_ARGUMENT.                *)
HipCallFails == pc = "validate" /\ Return("invalid") /\ UNCHANGED memVars

Validated == pc = "validate" /\ \A i \in Lane : vpc[i] = "done"

ReturnVerdict == Validated /\ st # "ok" /\ Return(st) /\ UNCHANGED memVars

(* Mutant of LaunchKernel: a grid sized by lanes instead of lanes times    *)
(* heads.                                                                  *)
LaunchKernelSmallGrid ==
  /\ Validated /\ st = "ok"
  /\ pc' = "kernel"
  /\ kpc' = [x \in Item |->
       IF (x[1] - 1) * (IF op = "write" THEN KVHeads ELSE QueryHeads) + x[2] < Len(lanes)
       THEN "start" ELSE "done"]
  /\ UNCHANGED <<memVars, op, lanes, st, vpc, out, ret>>

LaunchKernel ==
  /\ Validated /\ st = "ok"
  /\ pc' = "kernel"
  /\ kpc' = [x \in Item |-> "start"]
  /\ UNCHANGED <<memVars, op, lanes, st, vpc, out, ret>>

(* write_kernel, thread <<i, h>>: rotate, encode and store the K row, then *)
(* the V row; the thread of head 0 then marks the slot valid.              *)
StoreK(i, h) ==
  /\ kpc[<<i, h>>] = "start"
  /\ k' = [k EXCEPT ![lanes[i].loc][h] = <<lanes[i].tok, h>>]
  /\ kpc' = [kpc EXCEPT ![<<i, h>>] = "v"]
  /\ UNCHANGED <<v, valid>>

StoreV(i, h) ==
  /\ kpc[<<i, h>>] = "v"
  /\ v' = [v EXCEPT ![lanes[i].loc][h] = <<lanes[i].tok, h>>]
  /\ kpc' = [kpc EXCEPT ![<<i, h>>] = IF h = 0 THEN "flag" ELSE "done"]
  /\ UNCHANGED <<k, valid>>

(* Mutant of SetValid: head 0 waits for every head of its lane, itself     *)
(* included.                                                               *)
SetValidAwaitsHeads(i, h) ==
  /\ kpc[<<i, h>>] = "flag"
  /\ \A g \in KVHead : kpc[<<i, g>>] = "done"
  /\ valid' = [valid EXCEPT ![lanes[i].loc] = 1]
  /\ kpc' = [kpc EXCEPT ![<<i, h>>] = "done"]
  /\ UNCHANGED <<k, v>>

SetValid(i, h) ==
  /\ kpc[<<i, h>>] = "flag"
  /\ valid' = [valid EXCEPT ![lanes[i].loc] = 1]
  /\ kpc' = [kpc EXCEPT ![<<i, h>>] = "done"]
  /\ UNCHANGED <<k, v>>

WriteStep(i, h) ==
  /\ pc = "kernel" /\ op = "write"
  /\ StoreK(i, h) \/ StoreV(i, h) \/ SetValid(i, h)
  /\ UNCHANGED <<pc, op, lanes, st, vpc, out, ret>>

(* attention_kernel, thread <<i, h>>: nothing else writes while it runs.   *)
AttendStep(i, h) ==
  /\ pc = "kernel" /\ op = "attend" /\ kpc[<<i, h>>] = "start"
  /\ out' = [x \in DOMAIN out \cup {<<i, h>>} |->
               IF x = <<i, h>> THEN Gather(i, h) ELSE out[x]]
  /\ kpc' = [kpc EXCEPT ![<<i, h>>] = "done"]
  /\ UNCHANGED <<memVars, pc, op, lanes, st, vpc, ret>>

ReturnOk ==
  /\ pc = "kernel" /\ \A x \in Item : kpc[x] = "done"
  /\ Return("ok") /\ UNCHANGED memVars

(* The second launch or its synchronisation fails after any number of its  *)
(* threads' steps took effect.  The stream orders steps that would come    *)
(* after the return before those of a later call, so that they belong to   *)
(* the steps that came before the fault.                                   *)
DeviceFault == pc = "kernel" /\ Return("invalid") /\ UNCHANGED memVars

(* The caller takes the status; arguments and output leave the ABI.        *)
TakeResult ==
  /\ pc = "returned" /\ pc' = "idle"
  /\ op' = "write" /\ lanes' = <<>> /\ out' = <<>> /\ ret' = "ok"
  /\ UNCHANGED <<memVars, st, vpc, kpc>>

Calls == {<<"write", w>> : w \in WriteCalls} \cup {<<"attend", c>> : c \in ReadCalls}

(* What the device and the host do inside a call without an error.         *)
Progress ==
  \/ \E i \in Lane : ValidateLoad(i) \/ ValidateReport(i)
  \/ \E x \in Item : WriteStep(x[1], x[2]) \/ AttendStep(x[1], x[2])
  \/ ReturnVerdict \/ LaunchKernel \/ ReturnOk

Failure == HipCallFails \/ DeviceFault

HipNext ==
  \/ \E c \in Calls : BeginCall(c[1], c[2]) \/ HostRefuses(c[1], c[2])
  \/ \E o \in {"write", "attend"} : EmptyCall(o)
  \/ Progress
  \/ Failure
  \/ TakeResult

(* The host waits on the stream and the GPU runs every launched thread to  *)
(* its end; nothing obliges a caller to call.                              *)
HipSpec == HipInit /\ [][HipNext]_hipVars /\ WF_hipVars(Progress) /\ WF_hipVars(TakeResult)
--------------------------------------------------------------------------------
Status == {"ok", "invalid", "nonfinite"}
RowOrZero == Row \cup {Zero}

(* Type invariant.                                                         *)
HipTypeOK ==
  /\ k \in [Slot -> [KVHead -> RowOrZero]]
  /\ v \in [Slot -> [KVHead -> RowOrZero]]
  /\ valid \in [Slot -> {0, 1}]
  /\ pc \in {"idle", "validate", "kernel", "returned"}
  /\ \/ op = "write" /\ lanes \in Seq(WriteLane)
     \/ op = "attend" /\ lanes \in Seq(ReadLane)
  /\ st \in Status /\ ret \in Status
  /\ pc = "validate" => vpc \in [Lane -> {"start", "check", "done"}]
  /\ pc = "kernel" => kpc \in [Item -> {"start", "v", "flag", "done"}]
  /\ pc = "kernel" => DOMAIN out \subseteq Item

(* The racy early return never lets a bad lane through and never invents a *)
(* failure: a zero status with every thread finished means every lane is   *)
(* good, and a nonzero one is some lane's own verdict (runtime_hip.hip:49, *)
(* :114, with set_device_error at :27).                                    *)
VerdictExact ==
  /\ pc = "validate" /\ st = "ok" =>
       \A i \in Lane : vpc[i] = "done" => Verdict(i) = "ok"
  /\ pc = "kernel" => \A i \in Lane : Verdict(i) = "ok"
  /\ pc = "validate" /\ st # "ok" => \E i \in Lane : Verdict(i) = st

(* A write that returns OK has stored every lane's K and V rows of every   *)
(* head in its slot and marked it valid, in whatever order the threads ran *)
(* (write_kernel, runtime_hip.hip:73-105).                                 *)
WriteLands ==
  pc = "returned" /\ op = "write" /\ ret = "ok" =>
    \A i \in Lane :
      /\ valid[lanes[i].loc] = 1
      /\ \A h \in KVHead : /\ k[lanes[i].loc][h] = <<lanes[i].tok, h>>
                           /\ v[lanes[i].loc][h] = <<lanes[i].tok, h>>

(* An attention call that returns OK has computed every output row, each   *)
(* from exactly the first len listed slots, all of them written, and from  *)
(* the key/value head of its own group (runtime_hip.hip:158-207).          *)
ReadExact ==
  pc = "returned" /\ op = "attend" /\ ret = "ok" =>
    /\ DOMAIN out = Lane \X QueryHead
    /\ \A i \in Lane :
         /\ lanes[i].len \in 0..Len(lanes[i].idx)
         /\ \A t \in 1..lanes[i].len : valid[lanes[i].idx[t]] = 1
         /\ \A h \in QueryHead :
              \E g \in KVHead :
                /\ g * QueryHeads <= h * KVHeads /\ h * KVHeads < (g + 1) * QueryHeads
                /\ out[<<i, h>>] = [t \in 1..lanes[i].len |->
                     <<k[lanes[i].idx[t]][g], v[lanes[i].idx[t]][g]>>]

(* Validate before mutate: the only steps that change the cache belong to  *)
(* a write all of whose lanes are in range, distinct and finite, so a      *)
(* refused call has changed nothing (runtime_hip.hip:332-338).             *)
NoStoreBeforeVerdict ==
  [][memVars' # memVars =>
       /\ op = "write" /\ st = "ok"
       /\ \A i \in Lane : lanes[i].loc \in Slot /\ lanes[i].tok \in Tokens
       /\ \A i, j \in Lane : i # j => lanes[i].loc # lanes[j].loc]_hipVars

(* Every launched call returns (the synchronisations at runtime_hip.hip:303*)
(* and :342 wait for threads that all finish).                             *)
CallReturns == pc \in {"validate", "kernel"} ~> pc = "returned"
===============================================================================
