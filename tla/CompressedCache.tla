---------------------------- MODULE CompressedCache ----------------------------
(***************************************************************************)
(* CompressedCache of python/spry_uq/runtime.py: one attention layer's     *)
(* cache.  Its methods run on one host thread, one after the other, on the *)
(* buffers of HipRuntime; write and attention go through the native ABI    *)
(* and poison the object if it fails, invalidate and move are torch        *)
(* operations followed by a stream synchronisation.  A call whose Python   *)
(* checks raise changes nothing and is not a step.                         *)
(***************************************************************************)
EXTENDS HipRuntime, SlotMaps

CONSTANTS
  MoveCalls,   \* arguments <<dst, src>> of move
  DropCalls,   \* arguments loc of invalidate
  MaxCalls     \* bound on the evidence counters

ASSUME CacheCallAssumption ==
  /\ MoveCalls \subseteq Seq(Int) \X Seq(Int)
  /\ DropCalls \subseteq Seq(Int)
  /\ MaxCalls \in Nat
ASSUME ZeroAssumption == Zero \notin Tokens   \* it marks unreadable slots

VARIABLES
  poisoned,         \* self._poisoned
  writeCalls,       \* self.write_calls
  attentionCalls,   \* self.attention_calls
  delivered         \* the output tensor attention last returned to its caller

objVars == <<poisoned, writeCalls, attentionCalls, delivered>>
cacheVars == <<hipVars, objVars>>

InRange(q) == \A i \in 1..Len(q) : q[i] \in Slot

Locations(w) == [i \in 1..Len(w) |-> w[i].loc]

CacheInit ==
  /\ HipInit
  /\ poisoned = FALSE /\ writeCalls = 0 /\ attentionCalls = 0 /\ delivered = <<>>

(* _ready, on the only host thread.                                        *)
Ready == ~poisoned /\ pc = "idle"

(* write: the slots are checked here, the values by the native kernel.     *)
(* With no locations it returns without a native call.                     *)
Write(w) ==
  /\ Ready /\ writeCalls < MaxCalls
  /\ w # <<>>
  /\ InRange(Locations(w)) /\ Distinct(Locations(w))
  /\ BeginCall("write", w) \/ HostRefuses("write", w)
  /\ UNCHANGED objVars

(* attention: only the shape is checked here; slots and lengths are left   *)
(* to the native kernel.  With no queries there is no native call.         *)
Attention(c) ==
  /\ Ready /\ attentionCalls < MaxCalls
  /\ c # <<>>
  /\ Len(c[1].idx) \in 1..SlotCount
  /\ BeginCall("attend", c) \/ HostRefuses("attend", c)
  /\ UNCHANGED objVars

NativeStep == (Progress \/ Failure) /\ UNCHANGED objVars

(* Mutants of NativeReturns: a failure raised without poisoning; the       *)
(* counter raised before the status is seen.                               *)
NativeReturnsUnpoisoned ==
  /\ TakeResult
  /\ UNCHANGED poisoned
  /\ writeCalls' = writeCalls + IF ret = "ok" /\ op = "write" THEN 1 ELSE 0
  /\ attentionCalls' = attentionCalls + IF ret = "ok" /\ op = "attend" THEN 1 ELSE 0
  /\ delivered' = IF ret = "ok" /\ op = "attend" THEN out ELSE delivered

NativeReturnsCountsFirst ==
  /\ TakeResult
  /\ poisoned' = (poisoned \/ ret # "ok")
  /\ writeCalls' = writeCalls + IF op = "write" THEN 1 ELSE 0
  /\ attentionCalls' = attentionCalls + IF op = "attend" THEN 1 ELSE 0
  /\ delivered' = IF ret = "ok" /\ op = "attend" THEN out ELSE delivered

(* _call: any nonzero status poisons the object and raises; otherwise the  *)
(* method counts the call and returns.                                     *)
NativeReturns ==
  /\ TakeResult
  /\ poisoned' = (poisoned \/ ret # "ok")
  /\ writeCalls' = writeCalls + IF ret = "ok" /\ op = "write" THEN 1 ELSE 0
  /\ attentionCalls' = attentionCalls + IF ret = "ok" /\ op = "attend" THEN 1 ELSE 0
  /\ delivered' = IF ret = "ok" /\ op = "attend" THEN out ELSE delivered

Invalidate(loc) ==
  /\ Ready /\ InRange(loc)
  /\ valid' = Dropped(valid, {loc[i] : i \in 1..Len(loc)}, 0)
  /\ UNCHANGED <<k, v, callVars, objVars>>

(* Mutant of Move: rows copied one after the other, without a snapshot.    *)
MoveInPlace(dst, src) ==
  LET after(f) ==
        LET step[i \in 0..Len(dst)] ==
              IF i = 0 THEN f ELSE [step[i - 1] EXCEPT ![dst[i]] = step[i - 1][src[i]]]
        IN  step[Len(dst)]
  IN
  /\ Ready
  /\ InRange(dst) /\ Distinct(dst) /\ InRange(src)
  /\ Len(dst) = Len(src)
  /\ \A i \in 1..Len(src) : valid[src[i]] # 0
  /\ k' = after(k) /\ v' = after(v) /\ valid' = after(valid)
  /\ UNCHANGED <<callVars, objVars>>

(* move: all three arrays of every source are read before any is written.  *)
Move(dst, src) ==
  /\ Ready
  /\ InRange(dst) /\ Distinct(dst) /\ InRange(src)
  /\ Len(dst) = Len(src)
  /\ \A i \in 1..Len(src) : valid[src[i]] # 0
  /\ k' = Moved(k, dst, src)
  /\ v' = Moved(v, dst, src)
  /\ valid' = Moved(valid, dst, src)
  /\ UNCHANGED <<callVars, objVars>>

CacheNext ==
  \/ \E w \in WriteCalls : Write(w)
  \/ \E c \in ReadCalls : Attention(c)
  \/ NativeStep
  \/ NativeReturns
  \/ \E loc \in DropCalls : Invalidate(loc)
  \/ \E m \in MoveCalls : Move(m[1], m[2])

CacheSpec == CacheInit /\ [][CacheNext]_cacheVars
--------------------------------------------------------------------------------
(* A native call has failed, noticed by the object or not yet.             *)
Broken == poisoned \/ (pc = "returned" /\ ret # "ok")

(* Slot s is about to hold, or is being given, lane content by a write     *)
(* whose verdict is in.                                                    *)
InFlight(s) == pc = "kernel" /\ op = "write" /\ \E i \in Lane : lanes[i].loc = s

(* Slot s holds K and V rows of every head of one token.                   *)
Whole(s) ==
  \E tok \in Tokens : \A h \in KVHead : k[s][h] = <<tok, h>> /\ v[s][h] = <<tok, h>>

(* Type invariant.                                                         *)
CacheTypeOK ==
  /\ HipTypeOK
  /\ poisoned \in BOOLEAN
  /\ writeCalls \in 0..MaxCalls /\ attentionCalls \in 0..MaxCalls

(* As long as the object accepts calls, a slot that may be read holds all  *)
(* heads of K and V of one token: the early validity flag of head 0, a     *)
(* device fault in the middle of write_kernel, and moves over overlapping  *)
(* slots never let a torn row be read (runtime_hip.hip:104, runtime.py:128,*)
(* :192-193).                                                              *)
ReadableRowsWhole ==
  ~Broken => \A s \in Slot : valid[s] = 1 /\ ~InFlight(s) => Whole(s)

(* The counters of evidence() are backed by effects: rows are readable, or *)
(* were answered from, only after a counted write, and an answer was       *)
(* returned exactly if an attention call was counted (runtime.py:145,:170, *)
(* docs/handoff.md on runtime counters).                                   *)
EvidenceBacked ==
  /\ ~Broken /\ pc \in {"idle", "validate"} /\ (\E s \in Slot : valid[s] = 1)
       => writeCalls > 0
  /\ (\E x \in DOMAIN delivered : delivered[x] # <<>>) => writeCalls > 0
  /\ delivered # <<>> <=> attentionCalls > 0

(* The tokens of the abstract store: a validated write counts as stored    *)
(* from its launch, and a failure loses everything at once.                *)
Content ==
  [s \in Slot |->
     IF Broken THEN Zero
     ELSE IF InFlight(s) THEN lanes[CHOOSE i \in Lane : lanes[i].loc = s].tok
     ELSE IF valid[s] = 1 THEN k[s][0][1] ELSE Zero]

Store == INSTANCE KVStore WITH
  Slot <- Slot, Tokens <- Tokens, Unwritten <- Zero,
  QueryHead <- QueryHead, KVHeadOf <- KVHeadOf,
  WriteCalls <- WriteCalls, ReadCalls <- ReadCalls, MoveCalls <- MoveCalls,
  DropCalls <- {{loc[i] : i \in 1..Len(loc)} : loc \in DropCalls},
  content <- Content, usable <- ~Broken, answer <- delivered

(* The cache implements the abstract store: writes are all or nothing,     *)
(* attention is computed from whole tokens last stored in the listed       *)
(* slots, moves are simultaneous, and a native failure ends everything.    *)
ImplementsStore == Store!StoreSpec
===============================================================================
