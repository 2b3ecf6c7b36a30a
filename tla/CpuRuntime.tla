------------------------------ MODULE CpuRuntime -------------------------------
(***************************************************************************)
(* spry_uq_cpu_write and spry_uq_cpu_attention of native/runtime_cpu.cpp,  *)
(* the sequential oracle the HIP runtime is tested against: each check is  *)
(* a loop of its own over all lanes, and a call that passes them works off *)
(* lanes and heads in order.  Arguments, rows and statuses are those of    *)
(* HipRuntime, whose checked properties this runtime is held to.  Shape    *)
(* arguments are module IndexRange's business, halves HalfPrecision's.     *)
(***************************************************************************)
EXTENDS Integers, Sequences

CONSTANTS SlotCount, KVHeads, QueryHeads, Tokens, Bad, Zero, WriteCalls, ReadCalls

VARIABLES
  k, v, valid,  \* the buffers
  op, lanes,    \* the function called and its arguments
  at,           \* "idle", the loop it is in, or "returned"
  i, h,         \* loop variables: lane and head
  used,         \* validate_write_inputs' set of locations
  out, ret      \* output rows and status

bufferVars == <<k, v, valid>>
cpuVars == <<k, v, valid, op, lanes, at, i, h, used, out, ret>>

Checks == {"locations", "values", "queries", "lengths"}
Phase == IF at \in Checks THEN "validate" ELSE IF at \in {"rows", "heads"} THEN "kernel" ELSE at

Hip == INSTANCE HipRuntime WITH
  pc <- Phase, st <- ret, vpc <- [l \in 1..Len(lanes) |-> "check"], kpc <- <<>>

ASSUME CpuAssumption ==
  /\ SlotCount \in Nat \ {0} /\ KVHeads \in Nat \ {0} /\ QueryHeads \in Nat \ {0}
  /\ QueryHeads % KVHeads = 0
  /\ WriteCalls \subseteq Seq(Hip!WriteLane) /\ ReadCalls \subseteq Seq(Hip!ReadLane)

CpuInit ==
  /\ k = [s \in Hip!Slot |-> [g \in Hip!KVHead |-> Zero]] /\ v = k
  /\ valid = [s \in Hip!Slot |-> 0]
  /\ op = "write" /\ lanes = <<>> /\ at = "idle" /\ i = 1 /\ h = 0 /\ used = {}
  /\ out = <<>> /\ ret = "ok"

Call(o, c, first) ==
  /\ at = "idle" /\ at' = first
  /\ op' = o /\ lanes' = c /\ i' = 1 /\ h' = 0 /\ used' = {}
  /\ UNCHANGED <<bufferVars, out, ret>>

BeginWrite == \E c \in WriteCalls : Call("write", c, "locations")
BeginAttention == \E c \in ReadCalls : Call("attend", c, "queries")

Return(status) == at' = "returned" /\ ret' = status /\ UNCHANGED <<bufferVars, op, lanes, i, h, used, out>>

(* A loop over all lanes that returns at the first bad one.                *)
Check(here, bad, status, next, seen) ==
  /\ at = here
  /\ IF i > Len(lanes)
     THEN at' = next /\ i' = 1 /\ UNCHANGED <<bufferVars, op, lanes, h, used, out, ret>>
     ELSE IF bad THEN Return(status)
     ELSE i' = i + 1 /\ used' = seen /\ UNCHANGED <<bufferVars, op, lanes, at, h, out, ret>>

(* Mutant of Locations: duplicates are let through.                        *)
LocationsRepeated ==
  Check("locations", lanes[i].loc \notin Hip!Slot, "invalid", "values", used)

Locations ==
  Check("locations", lanes[i].loc \notin Hip!Slot \ used, "invalid", "values", used \cup {lanes[i].loc})

Values == Check("values", lanes[i].tok = Bad, "nonfinite", "rows", used)

Queries == Check("queries", ~lanes[i].finite, "nonfinite", "lengths", used)

Readable(slot) == slot \in Hip!Slot /\ valid[slot] = 1

Lengths ==
  Check("lengths",
        ~(/\ lanes[i].len \in 0..Len(lanes[i].idx)
          /\ \A t \in 1..lanes[i].len : Readable(lanes[i].idx[t])),
        "invalid", "heads", used)

(* The inner loop's next head, or the next lane.                           *)
Advance(heads) == IF h + 1 < heads THEN h' = h + 1 /\ i' = i ELSE h' = 0 /\ i' = i + 1

(* Mutant of StoreRow: the slot of the lane's number.                      *)
StoreRowInOrder ==
  /\ at = "rows" /\ i <= Len(lanes)
  /\ LET s == (i - 1) % SlotCount
         row == <<lanes[i].tok, h>>
     IN /\ k' = [k EXCEPT ![s][h] = row] /\ v' = [v EXCEPT ![s][h] = row]
        /\ valid' = IF h + 1 = KVHeads THEN [valid EXCEPT ![s] = 1] ELSE valid
  /\ Advance(KVHeads)
  /\ UNCHANGED <<op, lanes, at, used, out, ret>>

(* One head of a token: K row and V row; the last marks the slot valid.    *)
StoreRow ==
  /\ at = "rows" /\ i <= Len(lanes)
  /\ LET s == lanes[i].loc
         row == <<lanes[i].tok, h>>
     IN /\ k' = [k EXCEPT ![s][h] = row] /\ v' = [v EXCEPT ![s][h] = row]
        /\ valid' = IF h + 1 = KVHeads THEN [valid EXCEPT ![s] = 1] ELSE valid
  /\ Advance(KVHeads)
  /\ UNCHANGED <<op, lanes, at, used, out, ret>>

AttendHead ==
  /\ at = "heads" /\ i <= Len(lanes)
  /\ LET g == h \div (QueryHeads \div KVHeads)
         row == [t \in 1..lanes[i].len |-> <<k[lanes[i].idx[t]][g], v[lanes[i].idx[t]][g]>>]
     IN out' = [x \in DOMAIN out \cup {<<i, h>>} |-> IF x = <<i, h>> THEN row ELSE out[x]]
  /\ Advance(QueryHeads)
  /\ UNCHANGED <<bufferVars, op, lanes, at, used, ret>>

Finish == at \in {"rows", "heads"} /\ i > Len(lanes) /\ Return("ok")

TakeResult ==
  /\ at = "returned" /\ at' = "idle"
  /\ op' = "write" /\ lanes' = <<>> /\ i' = 1 /\ h' = 0 /\ used' = {} /\ out' = <<>> /\ ret' = "ok"
  /\ UNCHANGED bufferVars

CpuNext ==
  \/ BeginWrite \/ BeginAttention
  \/ Locations \/ Values \/ Queries \/ Lengths
  \/ StoreRow \/ AttendHead \/ Finish \/ TakeResult

CpuSpec == CpuInit /\ [][CpuNext]_cpuVars
--------------------------------------------------------------------------------
(* What the oracle refuses the HIP runtime refuses, with a status one of   *)
(* its threads reports too, although the two look at the lanes and at      *)
(* their faults in different orders; what the oracle accepts the HIP       *)
(* runtime does not refuse (runtime_cpu.cpp:158-221, runtime_hip.hip:44-144).*)
OracleVerdict ==
  /\ at \in {"rows", "heads"} => \A l \in Hip!Lane : Hip!Verdict(l) = "ok"
  /\ at = "returned" /\ ret # "ok" => \E l \in Hip!Lane : Hip!Verdict(l) = ret

(* The oracle's results are those HipRuntime promises: every row of a      *)
(* write in its slot, every output row from the listed slots and the right *)
(* key/value head (runtime_cpu.cpp:257-276, :299-334).                     *)
OracleResults == Hip!WriteLands /\ Hip!ReadExact

(* The call at hand passes all of the checks of a write.                   *)
WriteAccepted ==
  /\ op = "write"
  /\ \A l \in Hip!Lane :
       /\ lanes[l].loc \in Hip!Slot /\ lanes[l].tok # Bad
       /\ \A p \in Hip!Lane : p # l => lanes[p].loc # lanes[l].loc

(* A call that succeeds has those results, and a refused write changes     *)
(* nothing: a slot is stored to, or made valid, only by a write that names *)
(* it and of which no lane, looked at yet or not, has a fault.             *)
OracleEffect ==
  /\ []OracleResults
  /\ [][\A s \in Hip!Slot :
          <<k[s], v[s], valid[s]>>' # <<k[s], v[s], valid[s]>> =>
            WriteAccepted /\ \E l \in Hip!Lane : lanes[l].loc = s]_cpuVars

================================================================================
