--------------------------- MODULE CpuRuntimeProofs ----------------------------
(* The oracle's verdicts and results are those of HipRuntime, for every    *)
(* number of slots, heads and lanes and every set of calls.                *)
EXTENDS CpuRuntime, TLAPS

(* What the loops over the lanes have found out, and done, so far.         *)
Placed(n) ==
  \A l \in 1..n : /\ lanes[l].loc \in Hip!Slot
                  /\ \A p \in 1..(l - 1) : lanes[p].loc # lanes[l].loc
Finite(n) == \A l \in 1..n : lanes[l].tok # Bad
Asked(n) == \A l \in 1..n : lanes[l].finite
InReach(l) ==
  /\ lanes[l].len \in 0..Len(lanes[l].idx)
  /\ \A t \in 1..lanes[l].len : Readable(lanes[l].idx[t])
Stored(l, g) ==
  k[lanes[l].loc][g] = <<lanes[l].tok, g>> /\ v[lanes[l].loc][g] = <<lanes[l].tok, g>>
Written(n) ==
  \A l \in 1..n : valid[lanes[l].loc] = 1 /\ \A g \in Hip!KVHead : Stored(l, g)
Attended ==
  /\ DOMAIN out = {x \in Hip!Lane \X Hip!QueryHead : x[1] < i \/ (x[1] = i /\ x[2] < h)}
  /\ \A l \in Hip!Lane, g \in Hip!QueryHead :
       <<l, g>> \in DOMAIN out => out[<<l, g>>] = Hip!Gather(l, g)

CpuTypeOK ==
  /\ k \in [Hip!Slot -> [Hip!KVHead -> Hip!RowOrZero]]
  /\ v \in [Hip!Slot -> [Hip!KVHead -> Hip!RowOrZero]]
  /\ valid \in [Hip!Slot -> {0, 1}]
  /\ at \in Checks \cup {"idle", "rows", "heads", "returned"}
  /\ op \in {"write", "attend"}
  /\ lanes \in Seq(IF op = "write" THEN Hip!WriteLane ELSE Hip!ReadLane)
  /\ at \in {"locations", "values", "rows"} => op = "write"
  /\ at \in {"queries", "lengths", "heads"} => op = "attend"
  /\ i \in 1..(Len(lanes) + 1)
  /\ h \in IF op = "write" THEN Hip!KVHead ELSE Hip!QueryHead
  /\ at \in Checks => h = 0

(* A loop's fact about the lanes before i, and those of the loops before   *)
(* it about every lane.                                                    *)
Writing ==
  /\ at = "locations" => Placed(i - 1) /\ used = {lanes[p].loc : p \in 1..(i - 1)}
  /\ at \in {"values", "rows"} => Placed(Len(lanes))
  /\ at = "values" => Finite(i - 1)
  /\ at = "rows" =>
       /\ Finite(Len(lanes)) /\ Written(i - 1)
       /\ i <= Len(lanes) => \A g \in 0..(h - 1) : Stored(i, g)

Attending ==
  /\ at = "queries" => Asked(i - 1)
  /\ at \in {"lengths", "heads"} => Asked(Len(lanes))
  /\ at = "lengths" => \A l \in 1..(i - 1) : InReach(l)
  /\ at = "heads" => (\A l \in Hip!Lane : InReach(l)) /\ Attended
  /\ at \notin {"heads", "returned"} => DOMAIN out = {}
  /\ i > Len(lanes) => h = 0

CpuInv == CpuTypeOK /\ Writing /\ Attending /\ OracleVerdict /\ OracleResults
--------------------------------------------------------------------------------
LEMMA Names ==
  /\ Hip!Slot = 0..(SlotCount - 1) /\ Hip!KVHead = 0..(KVHeads - 1)
  /\ Hip!QueryHead = 0..(QueryHeads - 1) /\ Hip!Lane = 1..Len(lanes)
  BY DEF Hip!Slot, Hip!KVHead, Hip!QueryHead, Hip!Lane

(* Query head g reads the key/value head of its own group.                 *)
LEMMA GroupOf ==
  ASSUME NEW g \in Hip!QueryHead
  PROVE  /\ Hip!KVHeadOf(g) \in Hip!KVHead
         /\ Hip!KVHeadOf(g) * QueryHeads <= g * KVHeads
         /\ g * KVHeads < (Hip!KVHeadOf(g) + 1) * QueryHeads
         /\ Hip!KVHeadOf(g) = g \div (QueryHeads \div KVHeads)
<1> DEFINE w == QueryHeads \div KVHeads
           q == g \div w
<1>1. /\ KVHeads \in Nat \ {0} /\ QueryHeads \in Nat \ {0} /\ QueryHeads % KVHeads = 0
      /\ g \in Nat /\ g < QueryHeads
  BY CpuAssumption, Names
<1>2. w \in Nat /\ QueryHeads = w * KVHeads BY <1>1
<1>3. w # 0
  <2> SUFFICES ASSUME w = 0 PROVE FALSE OBVIOUS
  <2>1. 0 * KVHeads = 0 BY <1>1
  <2> QED BY <1>1, <1>2, <2>1
<1> HIDE DEF w
<1>4. q \in Nat /\ q * w <= g /\ g < (q + 1) * w BY <1>1, <1>2, <1>3
<1> HIDE DEF q
<1>5. q < KVHeads
  <2> SUFFICES ASSUME KVHeads <= q PROVE FALSE BY <1>1, <1>4
  <2>1. KVHeads * w <= q * w BY <1>1, <1>2, <1>4
  <2>2. KVHeads * w = QueryHeads BY <1>1, <1>2
  <2>3. q * w \in Nat BY <1>2, <1>4
  <2> QED BY <1>1, <1>4, <2>1, <2>2, <2>3
<1>6. q * QueryHeads = (q * w) * KVHeads /\ (q + 1) * QueryHeads = ((q + 1) * w) * KVHeads
  BY <1>1, <1>2, <1>4
<1>7. (q * w) * KVHeads <= g * KVHeads /\ g * KVHeads < ((q + 1) * w) * KVHeads
  <2>1. q * w \in Nat /\ (q + 1) * w \in Nat BY <1>2, <1>4
  <2>2. \A a, b \in Nat : (a <= b => a * KVHeads <= b * KVHeads)
                          /\ (a < b => a * KVHeads < b * KVHeads)
    BY <1>1
  <2> QED BY <1>1, <1>4, <2>1, <2>2
<1>8. Hip!KVHeadOf(g) = q BY DEF Hip!KVHeadOf, q, w
<1> QED BY <1>1, <1>4, <1>5, <1>6, <1>7, <1>8, Names DEF q, w

(* A write's lane whose slot is its own and whose token is good, and a     *)
(* query's lane that is finite and in reach, pass.                         *)
LEMMA GoodLane ==
  ASSUME CpuTypeOK, NEW l \in Hip!Lane
  PROVE  /\ op = "write" /\ Placed(Len(lanes)) /\ Finite(Len(lanes)) => Hip!Verdict(l) = "ok"
         /\ op = "attend" /\ Asked(Len(lanes)) /\ InReach(l) => Hip!Verdict(l) = "ok"
<1>1. l \in 1..Len(lanes) BY Names
<1>2. CASE op = "write"
  BY <1>1, <1>2 DEF Placed, Finite, Hip!Verdict, Hip!WriteVerdict
<1>3. CASE op = "attend"
  <2> SUFFICES ASSUME Asked(Len(lanes)), InReach(l) PROVE Hip!AttendVerdict(l) = "ok"
    BY <1>3 DEF Hip!Verdict
  <2>1. lanes[l] \in Hip!ReadLane BY <1>1, <1>3 DEF CpuTypeOK
  <2>2. lanes[l].len \in Int /\ Len(lanes[l].idx) \in Nat BY <2>1 DEF Hip!ReadLane
  <2>3. lanes[l].finite BY <1>1 DEF Asked
  <2>4. ~(lanes[l].len < 0 \/ lanes[l].len > Len(lanes[l].idx)) BY <2>2 DEF InReach
  <2>5. \A t \in 1..lanes[l].len : lanes[l].idx[t] \in Hip!Slot /\ valid[lanes[l].idx[t]] # 0
    BY DEF InReach, Readable
  <2> QED BY <2>3, <2>4, <2>5 DEF Hip!AttendVerdict
<1> QED BY <1>2, <1>3 DEF CpuTypeOK

LEMMA Starts == ASSUME CpuInit PROVE CpuInv
<1>1. 0 \in Hip!KVHead /\ <<>> \in Seq(Hip!WriteLane) /\ Len(<<>>) = 0
  BY CpuAssumption, Names
<1>2. CpuTypeOK
  <2>1. [s \in Hip!Slot |-> [g \in Hip!KVHead |-> Zero]] \in [Hip!Slot -> [Hip!KVHead -> Hip!RowOrZero]]
    BY DEF Hip!RowOrZero
  <2> QED BY <1>1, <2>1 DEF CpuInit, CpuTypeOK, Checks
<1>3. Writing /\ Attending BY DEF CpuInit, Writing, Attending
<1>4. Phase = "idle" BY DEF CpuInit, Phase, Checks
<1>5. OracleVerdict /\ OracleResults
  BY <1>4 DEF CpuInit, OracleVerdict, OracleResults, Hip!WriteLands, Hip!ReadExact
<1> QED BY <1>2, <1>3, <1>5 DEF CpuInv

(* While the call goes on, nothing is said of its result.                  *)
LEMMA NotReturned == at # "returned" => OracleResults
<1>1. at # "returned" => Phase # "returned" BY DEF Phase, Checks
<1> QED BY <1>1 DEF OracleResults, Hip!WriteLands, Hip!ReadExact

LEMMA CallKeeps ==
  ASSUME CpuInv, BeginWrite \/ BeginAttention \/ TakeResult
  PROVE  CpuInv'
<1>1. 0 \in Hip!KVHead /\ 0 \in Hip!QueryHead /\ \A n \in Nat : 1 \in 1..(n + 1)
  BY CpuAssumption, Names
<1>2. CASE BeginWrite
  <2>1. PICK c \in WriteCalls : Call("write", c, "locations") BY <1>2 DEF BeginWrite
  <2>2. c \in Seq(Hip!WriteLane) /\ Len(c) \in Nat BY CpuAssumption
  <2>3. /\ at' = "locations" /\ op' = "write" /\ lanes' = c /\ i' = 1 /\ h' = 0 /\ used' = {}
        /\ UNCHANGED <<k, v, valid, out, ret>> /\ at = "idle"
    BY <2>1 DEF Call, bufferVars
  <2>4. CpuTypeOK' BY <1>1, <2>2, <2>3 DEF CpuInv, CpuTypeOK, Checks
  <2>5. Writing' /\ Attending'
    <3>1. Placed(i - 1)' /\ {lanes'[p].loc : p \in 1..(i' - 1)} = {} BY <2>3 DEF Placed
    <3> QED BY <2>3, <3>1 DEF CpuInv, Writing, Attending
  <2>6. OracleVerdict' BY <2>3 DEF OracleVerdict
  <2>7. OracleResults'
    <3>1. (at # "returned")' BY <2>3
    <3> QED BY <3>1, NotReturned, PTL
  <2> QED BY <2>4, <2>5, <2>6, <2>7 DEF CpuInv
<1>3. CASE BeginAttention
  <2>1. PICK c \in ReadCalls : Call("attend", c, "queries") BY <1>3 DEF BeginAttention
  <2>2. c \in Seq(Hip!ReadLane) /\ Len(c) \in Nat BY CpuAssumption
  <2>3. /\ at' = "queries" /\ op' = "attend" /\ lanes' = c /\ i' = 1 /\ h' = 0 /\ used' = {}
        /\ UNCHANGED <<k, v, valid, out, ret>> /\ at = "idle"
    BY <2>1 DEF Call, bufferVars
  <2>4. CpuTypeOK' BY <1>1, <2>2, <2>3 DEF CpuInv, CpuTypeOK, Checks
  <2>5. Writing' /\ Attending' BY <2>3 DEF CpuInv, Writing, Attending, Asked
  <2>6. OracleVerdict' BY <2>3 DEF OracleVerdict
  <2>7. OracleResults'
    <3>1. (at # "returned")' BY <2>3
    <3> QED BY <3>1, NotReturned, PTL
  <2> QED BY <2>4, <2>5, <2>6, <2>7 DEF CpuInv
<1>4. CASE TakeResult
  <2>1. <<>> \in Seq(Hip!WriteLane) /\ Len(<<>>) = 0 OBVIOUS
  <2>2. /\ at' = "idle" /\ op' = "write" /\ lanes' = <<>> /\ i' = 1 /\ h' = 0 /\ out' = <<>>
        /\ UNCHANGED <<k, v, valid>>
    BY <1>4 DEF TakeResult, bufferVars
  <2>3. CpuTypeOK' BY <1>1, <2>1, <2>2 DEF CpuInv, CpuTypeOK, Checks
  <2>4. Writing' /\ Attending' BY <2>2 DEF Writing, Attending
  <2>5. OracleVerdict' BY <2>2 DEF OracleVerdict
  <2>6. OracleResults'
    <3>1. (at # "returned")' BY <2>2
    <3> QED BY <3>1, NotReturned, PTL
  <2> QED BY <2>3, <2>4, <2>5, <2>6 DEF CpuInv
<1> QED BY <1>2, <1>3, <1>4

(* A check that refuses reports a verdict of a lane.                       *)
LEMMA RefuseKeeps ==
  ASSUME CpuInv, at \in Checks, NEW status \in {"invalid", "nonfinite"}, Return(status),
         NEW l \in Hip!Lane, Hip!Verdict(l) = status
  PROVE  CpuInv'
<1>1. /\ at' = "returned" /\ ret' = status
      /\ UNCHANGED <<k, v, valid, op, lanes, i, h, used, out>>
  BY DEF Return, bufferVars
<1>2. CpuTypeOK' BY <1>1 DEF CpuInv, CpuTypeOK, Checks
<1>3. Writing' /\ Attending'
  <2>1. i > Len(lanes) => h = 0 BY DEF CpuInv, CpuTypeOK
  <2> QED BY <1>1, <2>1 DEF Writing, Attending
<1>4. (l \in Hip!Lane)' /\ (Hip!Verdict(l) = status)'
  BY <1>1 DEF Hip!Lane, Hip!Verdict, Hip!WriteVerdict, Hip!AttendVerdict, Hip!Slot
<1>5. OracleVerdict' BY <1>1, <1>4 DEF OracleVerdict
<1>6. ret' # "ok" BY <1>1
<1>7. OracleResults' BY <1>6 DEF OracleResults, Hip!WriteLands, Hip!ReadExact
<1> QED BY <1>2, <1>3, <1>5, <1>7 DEF CpuInv

(* Arithmetic of the loops.                                                *)
LEMMA Loop ==
  ASSUME CpuTypeOK
  PROVE  /\ Len(lanes) \in Nat /\ i \in Nat \ {0} /\ Hip!Lane = 1..Len(lanes)
         /\ i > Len(lanes) => i - 1 = Len(lanes)
         /\ ~(i > Len(lanes)) => i \in Hip!Lane /\ i + 1 \in 1..(Len(lanes) + 1)
         /\ (i + 1) - 1 = i /\ 1 - 1 = 0 /\ 1 \in 1..(Len(lanes) + 1)
         /\ \A p \in 1..i : p \in 1..(i - 1) \/ p = i
<1>1. Len(lanes) \in Nat /\ i \in 1..(Len(lanes) + 1) BY DEF CpuTypeOK
<1> QED BY <1>1, Names

LEMMA LocationsKeeps == ASSUME CpuInv, Locations PROVE CpuInv'
<1>1. at = "locations" /\ Placed(i - 1) /\ used = {lanes[p].loc : p \in 1..(i - 1)}
      /\ op = "write" /\ CpuTypeOK /\ h = 0 /\ DOMAIN out = {}
  BY DEF Locations, Check, CpuInv, CpuTypeOK, Writing, Attending, Checks
<1>2. CASE i > Len(lanes)
  <2>1. at' = "values" /\ i' = 1 /\ UNCHANGED <<k, v, valid, op, lanes, h, used, out, ret>>
    BY <1>1, <1>2 DEF Locations, Check, bufferVars
  <2>2. CpuTypeOK' BY <1>1, <2>1, Loop DEF CpuTypeOK, Checks
  <2>3. Placed(Len(lanes)) BY <1>1, <1>2, Loop
  <2>4. Placed(Len(lanes))' BY <2>1, <2>3 DEF Placed, Hip!Slot
  <2>5. Writing' /\ Attending' BY <1>1, <2>1, <2>4 DEF Writing, Attending, Finite
  <2>6. OracleVerdict' BY <2>1 DEF OracleVerdict
  <2>7. OracleResults'
    <3>1. (at # "returned")' BY <2>1
    <3> QED BY <3>1, NotReturned, PTL
  <2> QED BY <2>2, <2>5, <2>6, <2>7 DEF CpuInv
<1>3. CASE ~(i > Len(lanes)) /\ lanes[i].loc \notin Hip!Slot \ used
  <2>1. Return("invalid") BY <1>3 DEF Locations, Check
  <2>2. i \in Hip!Lane BY <1>1, <1>3, Loop
  <2>3. Hip!Verdict(i) = "invalid" BY <1>1, <1>3 DEF Hip!Verdict, Hip!WriteVerdict
  <2>4. at \in Checks BY <1>1 DEF Checks
  <2> QED BY <2>1, <2>2, <2>3, <2>4, RefuseKeeps
<1>4. CASE ~(i > Len(lanes)) /\ lanes[i].loc \in Hip!Slot \ used
  <2>1. /\ i' = i + 1 /\ used' = used \cup {lanes[i].loc}
        /\ UNCHANGED <<k, v, valid, op, lanes, at, h, out, ret>>
    BY <1>4 DEF Locations, Check, bufferVars
  <2>2. CpuTypeOK' BY <1>1, <1>4, <2>1, Loop DEF CpuTypeOK
  <2>3. Placed(i)
    <3>1. \A p \in 1..(i - 1) : lanes[p].loc # lanes[i].loc BY <1>1, <1>4
    <3> QED BY <1>1, <1>4, <3>1, Loop DEF Placed
  <2>5. used' = {lanes'[p].loc : p \in 1..(i' - 1)}
    <3>1. 1..i = 1..(i - 1) \cup {i} /\ i' - 1 = i BY <1>1, <2>1, Loop
    <3> QED BY <1>1, <2>1, <3>1
  <2>6. Placed(i - 1)'
    <3>1. i' - 1 = i BY <1>1, <2>1, Loop
    <3> QED BY <2>1, <2>3, <3>1 DEF Placed, Hip!Slot
  <2>7. Writing' /\ Attending' BY <1>1, <2>1, <2>5, <2>6 DEF Writing, Attending
  <2>8. OracleVerdict' BY <1>1, <2>1 DEF OracleVerdict
  <2>9. OracleResults'
    <3>1. (at # "returned")' BY <1>1, <2>1
    <3> QED BY <3>1, NotReturned, PTL
  <2> QED BY <2>2, <2>7, <2>8, <2>9 DEF CpuInv
<1> QED BY <1>2, <1>3, <1>4

LEMMA ValuesKeeps == ASSUME CpuInv, Values PROVE CpuInv'
<1>1. at = "values" /\ Placed(Len(lanes)) /\ Finite(i - 1)
      /\ op = "write" /\ CpuTypeOK /\ h = 0 /\ DOMAIN out = {}
  BY DEF Values, Check, CpuInv, CpuTypeOK, Writing, Attending, Checks
<1>2. CASE i > Len(lanes)
  <2>1. at' = "rows" /\ i' = 1 /\ UNCHANGED <<k, v, valid, op, lanes, h, used, out, ret>>
    BY <1>1, <1>2 DEF Values, Check, bufferVars
  <2>2. CpuTypeOK' BY <1>1, <2>1, Loop DEF CpuTypeOK, Checks
  <2>3. Finite(Len(lanes)) BY <1>1, <1>2, Loop
  <2>4. Placed(Len(lanes))' /\ Finite(Len(lanes))'
    BY <1>1, <2>1, <2>3 DEF Placed, Finite, Hip!Slot
  <2>5. Written(i - 1)' BY <1>1, <2>1 DEF Written
  <2>6. Writing' /\ Attending'
    <3>1. \A g \in 0..(h' - 1) : FALSE BY <1>1, <2>1
    <3> QED BY <1>1, <2>1, <2>4, <2>5, <3>1 DEF Writing, Attending
  <2>7. \A l \in Hip!Lane : Hip!Verdict(l) = "ok" BY <1>1, <2>3, GoodLane
  <2>8. OracleVerdict'
    BY <2>1, <2>7 DEF OracleVerdict, Hip!Lane, Hip!Verdict, Hip!WriteVerdict,
                      Hip!AttendVerdict, Hip!Slot
  <2>9. OracleResults'
    <3>1. (at # "returned")' BY <2>1
    <3> QED BY <3>1, NotReturned, PTL
  <2> QED BY <2>2, <2>6, <2>8, <2>9 DEF CpuInv
<1>3. CASE ~(i > Len(lanes)) /\ lanes[i].tok = Bad
  <2>1. Return("nonfinite") BY <1>3 DEF Values, Check
  <2>2. i \in Hip!Lane /\ i \in 1..Len(lanes) BY <1>1, <1>3, Loop
  <2>3. Hip!Verdict(i) = "nonfinite"
    BY <1>1, <1>3, <2>2 DEF Placed, Hip!Verdict, Hip!WriteVerdict
  <2>4. at \in Checks BY <1>1 DEF Checks
  <2> QED BY <2>1, <2>2, <2>3, <2>4, RefuseKeeps
<1>4. CASE ~(i > Len(lanes)) /\ lanes[i].tok # Bad
  <2>1. /\ i' = i + 1 /\ used' = used
        /\ UNCHANGED <<k, v, valid, op, lanes, at, h, out, ret>>
    BY <1>4 DEF Values, Check, bufferVars
  <2>2. CpuTypeOK' BY <1>1, <1>4, <2>1, Loop DEF CpuTypeOK
  <2>3. Finite(i) BY <1>1, <1>4, Loop DEF Finite
  <2>4. Finite(i - 1)'
    <3>1. i' - 1 = i BY <1>1, <2>1, Loop
    <3> QED BY <2>1, <2>3, <3>1 DEF Finite
  <2>5. Placed(Len(lanes))' BY <1>1, <2>1 DEF Placed, Hip!Slot
  <2>6. Writing' /\ Attending' BY <1>1, <2>1, <2>4, <2>5 DEF Writing, Attending
  <2>7. OracleVerdict' BY <1>1, <2>1 DEF OracleVerdict
  <2>8. OracleResults'
    <3>1. (at # "returned")' BY <1>1, <2>1
    <3> QED BY <3>1, NotReturned, PTL
  <2> QED BY <2>2, <2>6, <2>7, <2>8 DEF CpuInv
<1> QED BY <1>2, <1>3, <1>4

LEMMA QueriesKeeps == ASSUME CpuInv, Queries PROVE CpuInv'
<1>1. at = "queries" /\ Asked(i - 1) /\ op = "attend" /\ CpuTypeOK /\ h = 0 /\ DOMAIN out = {}
  BY DEF Queries, Check, CpuInv, CpuTypeOK, Attending, Checks
<1>2. CASE i > Len(lanes)
  <2>1. at' = "lengths" /\ i' = 1 /\ UNCHANGED <<k, v, valid, op, lanes, h, used, out, ret>>
    BY <1>1, <1>2 DEF Queries, Check, bufferVars
  <2>2. CpuTypeOK' BY <1>1, <2>1, Loop DEF CpuTypeOK, Checks
  <2>3. Asked(Len(lanes)) BY <1>1, <1>2, Loop
  <2>4. Asked(Len(lanes))' BY <2>1, <2>3 DEF Asked
  <2>5. Writing' /\ Attending' BY <1>1, <2>1, <2>4 DEF Writing, Attending
  <2>6. OracleVerdict' BY <2>1 DEF OracleVerdict
  <2>7. OracleResults'
    <3>1. (at # "returned")' BY <2>1
    <3> QED BY <3>1, NotReturned, PTL
  <2> QED BY <2>2, <2>5, <2>6, <2>7 DEF CpuInv
<1>3. CASE ~(i > Len(lanes)) /\ ~lanes[i].finite
  <2>1. Return("nonfinite") BY <1>3 DEF Queries, Check
  <2>2. i \in Hip!Lane BY <1>1, <1>3, Loop
  <2>3. Hip!Verdict(i) = "nonfinite" BY <1>1, <1>3 DEF Hip!Verdict, Hip!AttendVerdict
  <2>4. at \in Checks BY <1>1 DEF Checks
  <2> QED BY <2>1, <2>2, <2>3, <2>4, RefuseKeeps
<1>4. CASE ~(i > Len(lanes)) /\ lanes[i].finite
  <2>1. i' = i + 1 /\ UNCHANGED <<k, v, valid, op, lanes, at, h, used, out, ret>>
    BY <1>4 DEF Queries, Check, bufferVars
  <2>2. CpuTypeOK' BY <1>1, <1>4, <2>1, Loop DEF CpuTypeOK
  <2>3. Asked(i) BY <1>1, <1>4, Loop DEF Asked
  <2>4. Asked(i - 1)'
    <3>1. i' - 1 = i BY <1>1, <2>1, Loop
    <3> QED BY <2>1, <2>3, <3>1 DEF Asked
  <2>5. Writing' /\ Attending' BY <1>1, <2>1, <2>4 DEF Writing, Attending
  <2>6. OracleVerdict' BY <1>1, <2>1 DEF OracleVerdict
  <2>7. OracleResults'
    <3>1. (at # "returned")' BY <1>1, <2>1
    <3> QED BY <3>1, NotReturned, PTL
  <2> QED BY <2>2, <2>5, <2>6, <2>7 DEF CpuInv
<1> QED BY <1>2, <1>3, <1>4

LEMMA LengthsKeeps == ASSUME CpuInv, Lengths PROVE CpuInv'
<1>1. /\ at = "lengths" /\ Asked(Len(lanes)) /\ op = "attend" /\ CpuTypeOK /\ h = 0
      /\ DOMAIN out = {} /\ \A l \in 1..(i - 1) : InReach(l)
  BY DEF Lengths, Check, CpuInv, CpuTypeOK, Attending, Checks
<1>2. CASE i > Len(lanes)
  <2>1. at' = "heads" /\ i' = 1 /\ UNCHANGED <<k, v, valid, op, lanes, h, used, out, ret>>
    BY <1>1, <1>2 DEF Lengths, Check, bufferVars
  <2>2. CpuTypeOK' BY <1>1, <2>1, Loop DEF CpuTypeOK, Checks
  <2>3. \A l \in Hip!Lane : InReach(l) BY <1>1, <1>2, Loop
  <2>4. Asked(Len(lanes))' /\ (\A l \in Hip!Lane : InReach(l))'
    BY <1>1, <2>1, <2>3 DEF Asked, InReach, Readable, Hip!Lane, Hip!Slot
  <2>5. Attended'
    <3>1. {x \in Hip!Lane \X Hip!QueryHead : x[1] < 1 \/ (x[1] = 1 /\ x[2] < 0)} = {}
      BY CpuAssumption, Names
    <3>2. Hip!Lane' = Hip!Lane /\ Hip!QueryHead' = Hip!QueryHead
      BY <2>1 DEF Hip!Lane, Hip!QueryHead
    <3>3. DOMAIN out' = {} BY <1>1, <2>1
    <3> QED BY <1>1, <2>1, <3>1, <3>2, <3>3 DEF Attended
  <2>6. Writing' /\ Attending' BY <1>1, <2>1, <2>4, <2>5 DEF Writing, Attending
  <2>7. \A l \in Hip!Lane : Hip!Verdict(l) = "ok" BY <1>1, <2>3, GoodLane
  <2>8. OracleVerdict'
    BY <2>1, <2>7 DEF OracleVerdict, Hip!Lane, Hip!Verdict, Hip!WriteVerdict,
                      Hip!AttendVerdict, Hip!Slot
  <2>9. OracleResults'
    <3>1. (at # "returned")' BY <2>1
    <3> QED BY <3>1, NotReturned, PTL
  <2> QED BY <2>2, <2>6, <2>8, <2>9 DEF CpuInv
<1>3. CASE ~(i > Len(lanes)) /\ ~InReach(i)
  <2>1. Return("invalid") BY <1>3 DEF Lengths, Check, InReach
  <2>2. i \in Hip!Lane /\ i \in 1..Len(lanes) BY <1>1, <1>3, Loop
  <2>3. Hip!AttendVerdict(i) = "invalid"
    <3>1. lanes[i] \in Hip!ReadLane BY <1>1, <2>2 DEF CpuTypeOK
    <3>2. lanes[i].len \in Int /\ Len(lanes[i].idx) \in Nat BY <3>1 DEF Hip!ReadLane
    <3>3. lanes[i].finite BY <1>1, <2>2 DEF Asked
    <3>4. \A s \in Hip!Slot : valid[s] = 1 \/ valid[s] = 0 BY <1>1 DEF CpuTypeOK
    <3> QED BY <1>3, <3>2, <3>3, <3>4 DEF InReach, Readable, Hip!AttendVerdict
  <2>4. Hip!Verdict(i) = "invalid" BY <1>1, <2>3 DEF Hip!Verdict
  <2>5. at \in Checks BY <1>1 DEF Checks
  <2> QED BY <2>1, <2>2, <2>4, <2>5, RefuseKeeps
<1>4. CASE ~(i > Len(lanes)) /\ InReach(i)
  <2>1. i' = i + 1 /\ UNCHANGED <<k, v, valid, op, lanes, at, h, used, out, ret>>
    BY <1>4 DEF Lengths, Check, InReach, bufferVars
  <2>2. CpuTypeOK' BY <1>1, <1>4, <2>1, Loop DEF CpuTypeOK
  <2>3. \A l \in 1..i : InReach(l) BY <1>1, <1>4, Loop
  <2>4. \A l \in 1..(i' - 1) : InReach(l)'
    <3>1. i' - 1 = i BY <1>1, <2>1, Loop
    <3> QED BY <2>1, <2>3, <3>1 DEF InReach, Readable, Hip!Slot
  <2>5. Asked(Len(lanes))' BY <1>1, <2>1 DEF Asked
  <2>6. Writing' /\ Attending' BY <1>1, <2>1, <2>4, <2>5 DEF Writing, Attending
  <2>7. OracleVerdict' BY <1>1, <2>1 DEF OracleVerdict
  <2>8. OracleResults'
    <3>1. (at # "returned")' BY <1>1, <2>1
    <3> QED BY <3>1, NotReturned, PTL
  <2> QED BY <2>2, <2>6, <2>7, <2>8 DEF CpuInv
<1> QED BY <1>2, <1>3, <1>4

(* Where the inner loop over heads goes, for any number of heads.          *)
LEMMA NextHead ==
  ASSUME CpuTypeOK, i \in Hip!Lane, NEW n \in Nat \ {0}, h \in 0..(n - 1), Advance(n)
  PROVE  \/ h + 1 = n /\ h' = 0 /\ i' = i + 1
         \/ h + 1 \in 0..(n - 1) /\ h' = h + 1 /\ i' = i
<1>1. h \in Nat /\ h < n BY Loop
<1> QED BY <1>1 DEF Advance

(* The row of head n of lane j is stored; every row stored before is in    *)
(* another slot or of another head.                                        *)
LEMMA StoreRowKeeps == ASSUME CpuInv, StoreRow PROVE CpuInv'
<1>0. PICK j, n : j = i /\ n = h OBVIOUS
<1>1. /\ at = "rows" /\ op = "write" /\ CpuTypeOK /\ Placed(Len(lanes)) /\ Finite(Len(lanes))
      /\ Written(j - 1) /\ DOMAIN out = {} /\ i <= Len(lanes)
      /\ \A g \in 0..(n - 1) : Stored(j, g)
      /\ \A l \in Hip!Lane : Hip!Verdict(l) = "ok"
  BY <1>0 DEF StoreRow, CpuInv, CpuTypeOK, Writing, Attending, OracleVerdict
<1>2. PICK s, row :
        /\ s = lanes[j].loc /\ row = <<lanes[j].tok, n>>
        /\ k' = [k EXCEPT ![s][n] = row] /\ v' = [v EXCEPT ![s][n] = row]
        /\ valid' = IF n + 1 = KVHeads THEN [valid EXCEPT ![s] = 1] ELSE valid
        /\ Advance(KVHeads) /\ UNCHANGED <<op, lanes, at, used, out, ret>>
  BY <1>0 DEF StoreRow
<1>3. /\ j \in Hip!Lane /\ j \in 1..Len(lanes) /\ Len(lanes) \in Nat
      /\ j + 1 \in 1..(Len(lanes) + 1) /\ (j + 1) - 1 = j /\ j \in 1..(Len(lanes) + 1)
      /\ \A p \in 1..j : p \in 1..(j - 1) \/ p = j
  BY <1>0, <1>1, Loop DEF CpuTypeOK
<1>4. s \in Hip!Slot /\ lanes[j].tok # Bad /\ n \in Hip!KVHead /\ lanes[j] \in Hip!WriteLane
  BY <1>0, <1>1, <1>2, <1>3 DEF Placed, Finite, CpuTypeOK
<1>5. row \in Hip!RowOrZero BY <1>2, <1>4 DEF Hip!RowOrZero, Hip!Row, Hip!WriteLane
<1>6. n \in 0..(KVHeads - 1) /\ KVHeads \in Nat \ {0} /\ 0 \in 0..(KVHeads - 1)
  BY <1>4, CpuAssumption, Names
<1>7. \/ n + 1 = KVHeads /\ h' = 0 /\ i' = j + 1
      \/ n + 1 \in 0..(KVHeads - 1) /\ n + 1 # KVHeads /\ h' = n + 1 /\ i' = j
  <2>1. \/ h + 1 = KVHeads /\ h' = 0 /\ i' = i + 1
        \/ h + 1 \in 0..(KVHeads - 1) /\ h' = h + 1 /\ i' = i
    BY <1>0, <1>1, <1>2, <1>3, <1>6, NextHead
  <2> QED BY <1>0, <1>6, <2>1
<1>8. /\ k' \in [Hip!Slot -> [Hip!KVHead -> Hip!RowOrZero]]
      /\ v' \in [Hip!Slot -> [Hip!KVHead -> Hip!RowOrZero]]
      /\ valid' \in [Hip!Slot -> {0, 1}]
  BY <1>1, <1>2, <1>4, <1>5 DEF CpuTypeOK
<1>9. /\ k'[s][n] = row /\ v'[s][n] = row /\ (n + 1 = KVHeads => valid'[s] = 1)
      /\ \A x \in Hip!Slot, g \in Hip!KVHead :
           x # s \/ g # n => k'[x][g] = k[x][g] /\ v'[x][g] = v[x][g]
      /\ \A x \in Hip!Slot : x # s => valid'[x] = valid[x]
  BY <1>1, <1>2, <1>4 DEF CpuTypeOK
<1>10. CpuTypeOK'
  <2>1. at' = "rows" /\ op' = "write" /\ lanes' = lanes /\ lanes \in Seq(Hip!WriteLane)
    BY <1>1, <1>2 DEF CpuTypeOK
  <2>2. i' \in 1..(Len(lanes) + 1) /\ h' \in Hip!KVHead BY <1>3, <1>6, <1>7, Names
  <2>3. Hip!KVHead' = Hip!KVHead /\ Hip!Slot' = Hip!Slot /\ Hip!WriteLane' = Hip!WriteLane
    BY DEF Hip!KVHead, Hip!Slot, Hip!WriteLane
  <2> QED BY <1>8, <2>1, <2>2, <2>3 DEF CpuTypeOK, Checks
<1>11. \A l \in 1..(j - 1) : lanes[l].loc \in Hip!Slot /\ lanes[l].loc # s
  BY <1>1, <1>2, <1>3 DEF Placed
<1>12. \A l \in 1..(j - 1) : valid'[lanes[l].loc] = 1 /\ \A g \in Hip!KVHead : Stored(l, g)'
  <2>1. \A l \in 1..(j - 1) : valid[lanes[l].loc] = 1 /\ \A g \in Hip!KVHead : Stored(l, g)
    BY <1>1 DEF Written
  <2>2. TAKE l \in 1..(j - 1)
  <2>3. lanes' = lanes /\ lanes[l].loc \in Hip!Slot /\ lanes[l].loc # s BY <1>1, <1>2, <1>11
  <2>4. valid'[lanes[l].loc] = 1 BY <1>9, <2>1, <2>3
  <2>5. \A g \in Hip!KVHead : Stored(l, g)'
    <3>1. SUFFICES ASSUME NEW g \in Hip!KVHead PROVE Stored(l, g)' OBVIOUS
    <3>2. Stored(l, g) BY <2>1
    <3>3. k'[lanes[l].loc][g] = k[lanes[l].loc][g] /\ v'[lanes[l].loc][g] = v[lanes[l].loc][g]
      BY <1>9, <2>3
    <3> QED BY <2>3, <3>2, <3>3 DEF Stored
  <2> QED BY <2>4, <2>5
<1>13. \A g \in 0..n : Stored(j, g)'
  <2>1. Stored(j, n)' BY <1>2, <1>9 DEF Stored
  <2>2. \A g \in 0..(n - 1) : g \in Hip!KVHead /\ g # n BY <1>6, Names
  <2>3. \A g \in 0..(n - 1) : Stored(j, g)' BY <1>1, <1>2, <1>4, <1>9, <2>2 DEF Stored
  <2>4. \A g \in 0..n : g \in 0..(n - 1) \/ g = n BY <1>6
  <2> QED BY <2>1, <2>3, <2>4
<1>14. ASSUME n + 1 = KVHeads PROVE Writing' /\ Attending'
  <2>1. h' = 0 /\ i' = j + 1 BY <1>6, <1>7, <1>14
  <2>2. \A g \in Hip!KVHead : Stored(j, g)'
    <3>1. Hip!KVHead = 0..n BY <1>6, <1>14, Names
    <3> QED BY <1>13, <3>1
  <2>3. valid'[lanes'[j].loc] = 1 BY <1>2, <1>9, <1>14
  <2>4. Written(i - 1)'
    <3>1. i' - 1 = j /\ lanes' = lanes BY <1>2, <1>3, <2>1
    <3>2. Hip!KVHead' = Hip!KVHead BY DEF Hip!KVHead
    <3> QED BY <1>3, <1>12, <2>2, <2>3, <3>1, <3>2 DEF Written
  <2>5. Placed(Len(lanes))' /\ Finite(Len(lanes))' BY <1>1, <1>2 DEF Placed, Finite, Hip!Slot
  <2>6. \A g \in 0..(h' - 1) : FALSE BY <2>1
  <2>7. Writing' /\ Attending' BY <1>1, <1>2, <2>1, <2>4, <2>5, <2>6 DEF Writing, Attending
  <2> QED BY <2>7
<1>15. ASSUME n + 1 # KVHeads PROVE Writing' /\ Attending'
  <2>1. h' = n + 1 /\ i' = j BY <1>7, <1>15
  <2>2. h' - 1 = n /\ lanes' = lanes BY <1>2, <1>6, <2>1
  <2>3. Written(i - 1)'
    <3>1. Hip!KVHead' = Hip!KVHead BY DEF Hip!KVHead
    <3> QED BY <1>2, <1>12, <2>1, <3>1 DEF Written
  <2>4. Placed(Len(lanes))' /\ Finite(Len(lanes))' BY <1>1, <1>2 DEF Placed, Finite, Hip!Slot
  <2>5. \A g \in 0..(h' - 1) : Stored(i, g)'
    <3>1. \A g \in 0..(h' - 1) : Stored(j, g)' BY <1>13, <2>2
    <3> QED BY <2>1, <3>1 DEF Stored
  <2>6. ~(i' > Len(lanes')) BY <1>3, <2>1, <2>2
  <2>7. Writing' /\ Attending'
    <3>1. at' = "rows" /\ DOMAIN out' = {} BY <1>1, <1>2
    <3> QED BY <2>3, <2>4, <2>5, <2>6, <3>1 DEF Writing, Attending
  <2> QED BY <2>7
<1>16. Writing' /\ Attending' BY <1>14, <1>15
<1>17. OracleVerdict'
  <2>1. at' = "rows" /\ lanes' = lanes /\ op' = "write" BY <1>1, <1>2
  <2> QED BY <1>1, <2>1 DEF OracleVerdict, Hip!Lane, Hip!Verdict, Hip!WriteVerdict, Hip!Slot
<1>18. OracleResults'
  <2>1. (at # "returned")' BY <1>1, <1>2
  <2> QED BY <2>1, NotReturned, PTL
<1> QED BY <1>10, <1>16, <1>17, <1>18 DEF CpuInv

(* Items before <<j, n>> in the order of the two loops, and that item.     *)
LEMMA OneMoreHead ==
  ASSUME NEW I, NEW j \in 1..I, I \in Nat, NEW n \in Hip!QueryHead
  PROVE  LET S == (1..I) \X Hip!QueryHead
             B == {x \in S : x[1] < j \/ (x[1] = j /\ x[2] < n)} \cup {<<j, n>>}
         IN /\ n + 1 = QueryHeads => B = {x \in S : x[1] < j + 1 \/ (x[1] = j + 1 /\ x[2] < 0)}
            /\ n + 1 # QueryHeads => B = {x \in S : x[1] < j \/ (x[1] = j /\ x[2] < n + 1)}
<1> DEFINE S == (1..I) \X Hip!QueryHead
           B == {x \in S : x[1] < j \/ (x[1] = j /\ x[2] < n)} \cup {<<j, n>>}
<1>1. QueryHeads \in Nat \ {0} /\ n \in 0..(QueryHeads - 1) /\ j \in Nat
      /\ Hip!QueryHead = 0..(QueryHeads - 1)
  BY CpuAssumption, Names
<1>2. \A x \in S : x[1] \in Nat /\ x[2] \in 0..(QueryHeads - 1) BY <1>1
<1>3. \A x \in S : x = <<j, n>> <=> x[1] = j /\ x[2] = n OBVIOUS
<1>4. <<j, n>> \in S OBVIOUS
<1> HIDE DEF S
<1>5. ASSUME n + 1 = QueryHeads
      PROVE  B = {x \in S : x[1] < j + 1 \/ (x[1] = j + 1 /\ x[2] < 0)}
  <2>1. \A x \in S : (x[1] < j \/ (x[1] = j /\ x[2] < n) \/ (x[1] = j /\ x[2] = n))
                     <=> (x[1] < j + 1 \/ (x[1] = j + 1 /\ x[2] < 0))
    BY <1>1, <1>2, <1>5
  <2> QED BY <1>3, <1>4, <2>1
<1>6. ASSUME n + 1 # QueryHeads
      PROVE  B = {x \in S : x[1] < j \/ (x[1] = j /\ x[2] < n + 1)}
  <2>1. \A x \in S : (x[1] < j \/ (x[1] = j /\ x[2] < n) \/ (x[1] = j /\ x[2] = n))
                     <=> (x[1] < j \/ (x[1] = j /\ x[2] < n + 1))
    BY <1>1, <1>2
  <2> QED BY <1>3, <1>4, <2>1
<1> QED BY <1>5, <1>6 DEF S

LEMMA AttendHeadKeeps == ASSUME CpuInv, AttendHead PROVE CpuInv'
<1>0. PICK j, n : j = i /\ n = h OBVIOUS
<1>1. /\ at = "heads" /\ op = "attend" /\ CpuTypeOK /\ Asked(Len(lanes)) /\ i <= Len(lanes)
      /\ (\A l \in Hip!Lane : InReach(l)) /\ Attended
      /\ \A l \in Hip!Lane : Hip!Verdict(l) = "ok"
  BY DEF AttendHead, CpuInv, CpuTypeOK, Writing, Attending, OracleVerdict
<1>2. /\ out' = [x \in DOMAIN out \cup {<<j, n>>} |-> IF x = <<j, n>> THEN Hip!Gather(j, n) ELSE out[x]]
      /\ Advance(QueryHeads) /\ UNCHANGED <<k, v, valid, op, lanes, at, used, ret>>
  BY <1>0 DEF AttendHead, bufferVars, Hip!Gather, Hip!KVHeadOf
<1>3. /\ j \in Hip!Lane /\ j \in 1..Len(lanes) /\ Len(lanes) \in Nat /\ Hip!Lane = 1..Len(lanes)
      /\ j + 1 \in 1..(Len(lanes) + 1) /\ j \in 1..(Len(lanes) + 1)
  BY <1>0, <1>1, Loop DEF CpuTypeOK
<1>4. n \in Hip!QueryHead /\ n \in 0..(QueryHeads - 1) /\ QueryHeads \in Nat \ {0}
      /\ 0 \in 0..(QueryHeads - 1)
  BY <1>0, <1>1, CpuAssumption, Names DEF CpuTypeOK
<1>5. \/ n + 1 = QueryHeads /\ h' = 0 /\ i' = j + 1
      \/ n + 1 \in 0..(QueryHeads - 1) /\ n + 1 # QueryHeads /\ h' = n + 1 /\ i' = j
  <2>1. \/ h + 1 = QueryHeads /\ h' = 0 /\ i' = i + 1
        \/ h + 1 \in 0..(QueryHeads - 1) /\ h' = h + 1 /\ i' = i
    BY <1>0, <1>1, <1>2, <1>3, <1>4, NextHead
  <2> QED BY <1>0, <1>4, <2>1
<1>6. Hip!QueryHead' = Hip!QueryHead /\ Hip!Lane' = Hip!Lane /\ Hip!Slot' = Hip!Slot
      /\ Hip!KVHead' = Hip!KVHead /\ Hip!ReadLane' = Hip!ReadLane /\ Hip!RowOrZero' = Hip!RowOrZero
  BY <1>2 DEF Hip!QueryHead, Hip!Lane, Hip!Slot, Hip!KVHead, Hip!ReadLane, Hip!RowOrZero, Hip!Row
<1>7. CpuTypeOK'
  <2>1. i' \in 1..(Len(lanes) + 1) /\ h' \in Hip!QueryHead BY <1>3, <1>4, <1>5, Names
  <2>2. at' = "heads" /\ op' = "attend" /\ lanes' = lanes /\ lanes \in Seq(Hip!ReadLane)
    BY <1>1, <1>2 DEF CpuTypeOK
  <2> QED BY <1>1, <1>2, <1>6, <2>1, <2>2 DEF CpuTypeOK, Checks
<1>8. DOMAIN out' = {x \in Hip!Lane \X Hip!QueryHead : x[1] < i' \/ (x[1] = i' /\ x[2] < h')}
  <2>1. DOMAIN out' = {x \in Hip!Lane \X Hip!QueryHead : x[1] < j \/ (x[1] = j /\ x[2] < n)}
                        \cup {<<j, n>>}
    BY <1>0, <1>1, <1>2 DEF Attended
  <2> QED BY <1>3, <1>4, <1>5, <2>1, OneMoreHead
<1>9. \A l \in Hip!Lane, g \in Hip!QueryHead :
        <<l, g>> \in DOMAIN out' => out'[<<l, g>>] = Hip!Gather(l, g)
  BY <1>1, <1>2 DEF Attended
<1>10. \A l, g : Hip!Gather(l, g)' = Hip!Gather(l, g) BY <1>2 DEF Hip!Gather, Hip!KVHeadOf
<1>11. Attended' BY <1>6, <1>8, <1>9, <1>10 DEF Attended
<1>12. Asked(Len(lanes))' /\ (\A l \in Hip!Lane : InReach(l))'
  BY <1>1, <1>2 DEF Asked, InReach, Readable, Hip!Lane, Hip!Slot
<1>13. i' > Len(lanes') => h' = 0 BY <1>2, <1>3, <1>5
<1>14. Writing' /\ Attending' BY <1>1, <1>2, <1>11, <1>12, <1>13 DEF Writing, Attending
<1>15. OracleVerdict'
  <2>1. at' = "heads" BY <1>1, <1>2
  <2> QED BY <1>1, <1>2, <2>1 DEF OracleVerdict, Hip!Lane, Hip!Verdict, Hip!WriteVerdict,
                                  Hip!AttendVerdict, Hip!Slot
<1>16. OracleResults'
  <2>1. (at # "returned")' BY <1>1, <1>2
  <2> QED BY <2>1, NotReturned, PTL
<1> QED BY <1>7, <1>14, <1>15, <1>16 DEF CpuInv

(* The output row of query head g of lane l.                               *)
Exact(l, g) ==
  \E q \in Hip!KVHead :
    /\ q * QueryHeads <= g * KVHeads /\ g * KVHeads < (q + 1) * QueryHeads
    /\ out[<<l, g>>] = [t \in 1..lanes[l].len |->
         <<k[lanes[l].idx[t]][q], v[lanes[l].idx[t]][q]>>]

AllExact ==
  /\ DOMAIN out = Hip!Lane \X Hip!QueryHead
  /\ \A l \in Hip!Lane :
       /\ lanes[l].len \in 0..Len(lanes[l].idx)
       /\ \A t \in 1..lanes[l].len : valid[lanes[l].idx[t]] = 1
       /\ \A g \in Hip!QueryHead : Exact(l, g)

LEMMA ReadExactIs ==
  Hip!ReadExact <=> (Phase = "returned" /\ op = "attend" /\ ret = "ok" => AllExact)
  BY DEF Hip!ReadExact, AllExact, Exact

LEMMA AllExactKept ==
  ASSUME AllExact, UNCHANGED <<k, v, valid, lanes, out>>
  PROVE  AllExact'
<1>1. \A l, g : Exact(l, g) => Exact(l, g)' BY DEF Exact, Hip!KVHead
<1>2. Hip!Lane' = Hip!Lane /\ Hip!QueryHead' = Hip!QueryHead
  BY DEF Hip!Lane, Hip!QueryHead
<1>3. DOMAIN out' = Hip!Lane' \X Hip!QueryHead' BY <1>2 DEF AllExact
<1>4. ASSUME NEW l \in Hip!Lane'
      PROVE  /\ lanes'[l].len \in 0..Len(lanes'[l].idx)
             /\ \A t \in 1..lanes'[l].len : valid'[lanes'[l].idx[t]] = 1
             /\ \A g \in Hip!QueryHead' : Exact(l, g)'
  BY <1>1, <1>2 DEF AllExact
<1> QED BY <1>3, <1>4 DEF AllExact

(* What the loops have done when they end is what HipRuntime promises.     *)
LEMMA FinishKeeps == ASSUME CpuInv, Finish PROVE CpuInv'
<1>1. /\ at \in {"rows", "heads"} /\ i > Len(lanes) /\ CpuTypeOK /\ Writing /\ Attending
      /\ at' = "returned" /\ ret' = "ok"
      /\ UNCHANGED <<k, v, valid, op, lanes, i, h, used, out>>
  BY DEF Finish, Return, bufferVars, CpuInv
<1>2. i - 1 = Len(lanes) /\ Hip!Lane = 1..Len(lanes) /\ h = 0 /\ Len(lanes) \in Nat
      /\ i = Len(lanes) + 1
  BY <1>1, Loop DEF Attending
<1>3. CpuTypeOK' BY <1>1 DEF CpuTypeOK, Checks
<1>4. Writing' /\ Attending' BY <1>1, <1>2 DEF Writing, Attending
<1>5. OracleVerdict' BY <1>1 DEF OracleVerdict
<1>6. Hip!WriteLands'
  <2>1. CASE at = "rows"
    <3>1. Written(Len(lanes)) BY <1>1, <1>2, <2>1 DEF Writing
    <3> QED BY <1>1, <1>2, <3>1 DEF Hip!WriteLands, Written, Stored, Hip!Lane, Hip!KVHead
  <2>2. CASE at = "heads"
    <3>1. op' # "write" BY <1>1, <2>2 DEF CpuTypeOK
    <3> QED BY <3>1 DEF Hip!WriteLands
  <2> QED BY <1>1, <2>1, <2>2
<1>7. Hip!ReadExact'
  <2>1. CASE at = "rows"
    <3>1. op' # "attend" BY <1>1, <2>1 DEF CpuTypeOK
    <3> QED BY <3>1 DEF Hip!ReadExact
  <2>2. CASE at = "heads"
    <3>1. Attended /\ \A l \in Hip!Lane : InReach(l) BY <1>1, <2>2 DEF Attending
    <3>2. DOMAIN out = Hip!Lane \X Hip!QueryHead
      <4>1. \A x \in Hip!Lane \X Hip!QueryHead : x[1] < i BY <1>2
      <4> QED BY <3>1, <4>1 DEF Attended
    <3>3. \A l \in Hip!Lane, g \in Hip!QueryHead : out[<<l, g>>] = Hip!Gather(l, g)
      BY <3>1, <3>2 DEF Attended
    <3>4. ASSUME NEW l \in Hip!Lane
          PROVE  /\ lanes[l].len \in 0..Len(lanes[l].idx)
                 /\ \A t \in 1..lanes[l].len : valid[lanes[l].idx[t]] = 1
                 /\ \A g \in Hip!QueryHead : Exact(l, g)
      <4>1. InReach(l) BY <3>1
      <4>2. ASSUME NEW g \in Hip!QueryHead
            PROVE  Exact(l, g)
        <5>1. Hip!KVHeadOf(g) \in Hip!KVHead BY GroupOf
        <5>2. out[<<l, g>>] = Hip!Gather(l, g) BY <3>3
        <5> QED BY <5>1, <5>2, GroupOf DEF Exact, Hip!Gather
      <4> QED BY <4>1, <4>2 DEF InReach, Readable
    <3>5. AllExact BY <3>2, <3>4 DEF AllExact
    <3>6. AllExact' BY <1>1, <3>5, AllExactKept
    <3> QED BY <3>6, ReadExactIs, PTL
  <2> QED BY <1>1, <2>1, <2>2
<1> QED BY <1>3, <1>4, <1>5, <1>6, <1>7 DEF CpuInv, OracleResults

(* What the oracle's loops have validated, stored and attended so far:     *)
(* the invariant behind its verdicts and effects.                          *)
THEOREM CpuInvariant == CpuSpec => []CpuInv
<1>1. CpuInv /\ [CpuNext]_cpuVars => CpuInv'
  <2> SUFFICES ASSUME CpuInv, [CpuNext]_cpuVars PROVE CpuInv' OBVIOUS
  <2>1. CASE CpuNext
    BY <2>1, CallKeeps, LocationsKeeps, ValuesKeeps, QueriesKeeps, LengthsKeeps,
       StoreRowKeeps, AttendHeadKeeps, FinishKeeps DEF CpuNext
  <2>2. CASE UNCHANGED cpuVars
    <3>1. UNCHANGED <<k, v, valid, op, lanes, at, i, h, used, out, ret>> BY <2>2 DEF cpuVars
    <3>2. CpuTypeOK'
      BY <3>1 DEF CpuInv, CpuTypeOK, Hip!Slot, Hip!KVHead, Hip!QueryHead, Hip!RowOrZero,
                  Hip!Row, Hip!WriteLane, Hip!ReadLane
    <3>3. Writing'
      BY <3>1 DEF CpuInv, Writing, Placed, Finite, Written, Stored, Hip!Slot, Hip!KVHead
    <3>4. Attended => Attended'
      BY <3>1 DEF Attended, Hip!Lane, Hip!QueryHead, Hip!Gather, Hip!KVHeadOf
    <3>5. Attending'
      BY <3>1, <3>4 DEF CpuInv, Attending, Asked, InReach, Readable, Hip!Slot, Hip!Lane
    <3>6. OracleVerdict'
      BY <3>1 DEF CpuInv, OracleVerdict, Hip!Lane, Hip!Verdict, Hip!WriteVerdict,
                  Hip!AttendVerdict, Hip!Slot
    <3>7. Hip!WriteLands'
      BY <3>1 DEF CpuInv, OracleResults, Phase, Hip!WriteLands, Hip!Lane, Hip!KVHead
    <3>8. Hip!ReadExact'
      <4>1. Phase = "returned" /\ op = "attend" /\ ret = "ok" => AllExact
        BY ReadExactIs DEF CpuInv, OracleResults
      <4>2. (Phase = "returned" /\ op = "attend" /\ ret = "ok" => AllExact)'
        <5>1. AllExact => AllExact' BY <3>1, AllExactKept
        <5> QED BY <3>1, <4>1, <5>1 DEF Phase
      <4> QED BY <4>2, ReadExactIs, PTL
    <3> QED BY <3>2, <3>3, <3>5, <3>6, <3>7, <3>8 DEF CpuInv, OracleResults
  <2> QED BY <2>1, <2>2
<1> QED BY <1>1, Starts, PTL DEF CpuSpec

(* The oracle refuses with a verdict that one of HipRuntime's threads      *)
(* gives too, and what it accepts each of them accepts                     *)
(* (runtime_cpu.cpp:158-221, runtime_hip.hip:44-144).                      *)
THEOREM OracleVerdictsAgree == CpuSpec => []OracleVerdict
<1>1. CpuInv => OracleVerdict BY DEF CpuInv
<1> QED BY <1>1, CpuInvariant, PTL

(* A row of K and V is stored, and a slot made valid, by a write that the  *)
(* four loops have let pass.                                               *)
LEMMA OnlyAcceptedStores ==
  ASSUME CpuInv, [CpuNext]_cpuVars, NEW s \in Hip!Slot,
         <<k[s], v[s], valid[s]>>' # <<k[s], v[s], valid[s]>>
  PROVE  WriteAccepted /\ \E l \in Hip!Lane : lanes[l].loc = s
<1>1. ~UNCHANGED bufferVars BY DEF bufferVars
<1>2. StoreRow
  <2>1. CpuNext BY <1>1 DEF cpuVars, bufferVars
  <2>2. ASSUME BeginWrite \/ BeginAttention PROVE UNCHANGED bufferVars
    BY <2>2 DEF BeginWrite, BeginAttention, Call
  <2>3. ASSUME Locations PROVE UNCHANGED bufferVars BY <2>3 DEF Locations, Check, Return
  <2>4. ASSUME Values PROVE UNCHANGED bufferVars BY <2>4 DEF Values, Check, Return
  <2>5. ASSUME Queries PROVE UNCHANGED bufferVars BY <2>5 DEF Queries, Check, Return
  <2>6. ASSUME Lengths PROVE UNCHANGED bufferVars BY <2>6 DEF Lengths, Check, Return
  <2>7. ASSUME AttendHead \/ TakeResult PROVE UNCHANGED bufferVars
    BY <2>7 DEF AttendHead, TakeResult
  <2>8. ASSUME Finish PROVE UNCHANGED bufferVars BY <2>8 DEF Finish, Return
  <2> QED
    BY <1>1, <2>1, <2>2, <2>3, <2>4, <2>5, <2>6, <2>7, <2>8 DEF CpuNext
<1>3. /\ i <= Len(lanes) /\ op = "write" /\ Placed(Len(lanes)) /\ Finite(Len(lanes))
      /\ CpuTypeOK
  BY <1>2 DEF StoreRow, CpuInv, CpuTypeOK, Writing
<1>4. i \in Hip!Lane /\ Hip!Lane = 1..Len(lanes) /\ Len(lanes) \in Nat
  BY <1>3, Loop
<1>5. WriteAccepted
  <2>1. \A l, p \in Hip!Lane : p # l => lanes[p].loc # lanes[l].loc
    <3>1. \A l, p \in Hip!Lane : p # l => p \in 1..(l - 1) \/ l \in 1..(p - 1) BY <1>4
    <3> QED BY <1>3, <1>4, <3>1 DEF Placed
  <2> QED BY <1>3, <1>4, <2>1 DEF WriteAccepted, Placed, Finite
<1>6. lanes[i].loc = s
  <2> SUFFICES ASSUME lanes[i].loc # s PROVE FALSE OBVIOUS
  <2>1. k'[s] = k[s] /\ v'[s] = v[s] /\ valid'[s] = valid[s]
    BY <1>2, <1>3 DEF StoreRow, CpuTypeOK
  <2> QED BY <2>1
<1> QED BY <1>4, <1>5, <1>6

(* A call of the oracle that succeeds has the effect HipRuntime promises,  *)
(* and a write that it refuses, whichever lane has the fault, has changed  *)
(* no slot (runtime_cpu.cpp:158-221, :257-276, :299-334).                  *)
THEOREM OracleEffectsAgree == CpuSpec => OracleEffect
<1>1. CpuInv => OracleResults BY DEF CpuInv
<1>2. CpuInv /\ [CpuNext]_cpuVars =>
        [\A s \in Hip!Slot :
           <<k[s], v[s], valid[s]>>' # <<k[s], v[s], valid[s]>> =>
             WriteAccepted /\ \E l \in Hip!Lane : lanes[l].loc = s]_cpuVars
  BY OnlyAcceptedStores
<1> QED BY <1>1, <1>2, CpuInvariant, PTL DEF CpuSpec, OracleEffect

================================================================================
