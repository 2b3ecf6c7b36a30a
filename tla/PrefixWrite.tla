------------------------------ MODULE PrefixWrite ------------------------------
(***************************************************************************)
(* The write paths of SpryUQTokenToKVPool (python/spry_uq/sglang_pool.py): *)
(* how a layer id finds its cache, and how set_kv_buffer_prefix_valid      *)
(* turns a matrix of locations and a committed length for each row into    *)
(* one write.  A slot of a cache has room for a K and a V row, which need  *)
(* not be of one token.  A row stands for itself: row i of the K (or V)    *)
(* tensor of call c is <<c, i>>.                                           *)
(***************************************************************************)
EXTENDS Integers, Sequences, FiniteSets

CONSTANTS
  StartLayer,   \* start_layer of the pipeline stage
  Layers,       \* len(self.caches)
  SlotCount,    \* slots of each cache
  Calls,        \* arguments of set_kv_buffer and set_kv_buffer_prefix_valid
  NoOverride,   \* layer_id_override is None
  Unwritten,    \* bytes of a row never stored
  Torn          \* bytes of a row that was stored in part

(* Tensors are rectangular; set_kv_buffer's vector is a matrix of one row. *)
ASSUME PrefixAssumption ==
  /\ StartLayer \in Int /\ Layers \in Nat \ {0} /\ SlotCount \in Nat \ {0}
  /\ NoOverride \notin Int
  /\ Unwritten # Torn /\ Unwritten \notin Calls \X Nat /\ Torn \notin Calls \X Nat
  /\ \A c \in Calls :
       /\ c.op \in {"plain", "prefix"} /\ c.scaled \in BOOLEAN
       /\ c.layer \in Int /\ c.override \in Int \cup {NoOverride}
       /\ {c.rows, c.cols, c.kRows, c.vRows} \subseteq Nat
       /\ c.loc \in [1..c.rows -> [1..c.cols -> Int]] /\ c.lens \in Seq(Int)
       /\ c.op = "plain" => c.rows = 1

Layer == 0..(Layers - 1)
Slot == 0..(SlotCount - 1)

VARIABLES
  store,    \* the caches: layer -> slot -> K and V row
  usable,   \* layer -> not self._poisoned
  last      \* the last call and how it ended

prefixVars == <<store, usable, last>>

(* loc_2d.reshape(-1), row by row.                                         *)
Flat(c) == 0..(c.rows * c.cols - 1)
Place(c, i) == c.loc[1 + (i \div c.cols)][1 + (i % c.cols)]

(* Mutant of Selected: the mask takes one column too many.                 *)
SelectedInclusive(c) ==
  {i \in Flat(c) : c.op = "plain" \/ i % c.cols <= c.lens[1 + (i \div c.cols)]}

(* mask.reshape(-1).nonzero(); set_kv_buffer writes every row.             *)
Selected(c) ==
  {i \in Flat(c) : c.op = "plain" \/ i % c.cols < c.lens[1 + (i \div c.cols)]}

LayerId(c) == IF c.override # NoOverride THEN c.override ELSE c.layer
Index(c) == LayerId(c) - StartLayer

ShapedPlain(c) == c.kRows = c.cols /\ c.vRows = c.cols /\ ~c.scaled

ShapedPrefix(c) ==
  /\ Len(c.lens) = c.rows /\ \A r \in 1..c.rows : c.lens[r] \in 0..c.cols
  /\ c.kRows = c.rows * c.cols /\ c.vRows = c.rows * c.cols

Shaped(c) == IF c.op = "plain" THEN ShapedPlain(c) ELSE ShapedPrefix(c)

(* Mutant of Distinct: padding that follows a committed prefix counts.     *)
DistinctMatrix(c) ==
  \A i, j \in Flat(c) : Place(c, i) \in Slot /\ (Place(c, i) = Place(c, j) => i = j)

(* CompressedCache._locations, on the locations that are left.             *)
Distinct(c) ==
  \A i, j \in Selected(c) : Place(c, i) \in Slot /\ (Place(c, i) = Place(c, j) => i = j)

Accepts(c) == Shaped(c) /\ Index(c) \in Layer /\ usable[Index(c)] /\ Distinct(c)

(* Mutant of Row: the rows are the first ones, as many as there are        *)
(* locations.                                                              *)
RowUnselected(c, i) == <<c, Cardinality({j \in Selected(c) : j < i})>>

Row(c, i) == <<c, i>>

(* How much of a location's K and V row is stored: every head's thread     *)
(* stores its part of the K row, then its part of the V row.               *)
Progress ==
  {p \in [k : {"none", "part", "all"}, v : {"none", "part", "all"}] :
     (p.v # "none" => p.k # "none") /\ (p.v = "all" => p.k = "all")}

After(progress, old, row) ==
  IF progress = "all" THEN row ELSE IF progress = "part" THEN Torn ELSE old

Stored(cache, c, progress) ==
  [s \in Slot |->
     IF \E i \in Selected(c) : Place(c, i) = s
     THEN LET i == CHOOSE j \in Selected(c) : Place(c, j) = s
          IN [k |-> After(progress[i].k, cache[s].k, Row(c, i)),
              v |-> After(progress[i].v, cache[s].v, Row(c, i))]
     ELSE cache[s]]

PrefixInit ==
  /\ store = [l \in Layer |-> [s \in Slot |-> [k |-> Unwritten, v |-> Unwritten]]]
  /\ usable = [l \in Layer |-> TRUE]
  /\ last = [call |-> Unwritten, result |-> "none"]

(* A write without locations changes nothing: there is no native call.     *)
Write(c) ==
  /\ Accepts(c)
  /\ LET done == [i \in Selected(c) |-> [k |-> "all", v |-> "all"]]
     IN  store' = [store EXCEPT ![Index(c)] = Stored(@, c, done)]
  /\ last' = [call |-> c, result |-> "ok"]
  /\ UNCHANGED usable

(* The native call fails: a value is not finite, or the device faults with *)
(* every row stored as far as its threads got.  CompressedCache then       *)
(* refuses every other call.                                               *)
NativeFailure(c) ==
  /\ Accepts(c) /\ Selected(c) # {}
  /\ \E progress \in [Selected(c) -> Progress] :
       store' = [store EXCEPT ![Index(c)] = Stored(@, c, progress)]
  /\ usable' = [usable EXCEPT ![Index(c)] = FALSE]
  /\ last' = [call |-> c, result |-> "failed"]

Refuse(c) ==
  /\ ~Accepts(c)
  /\ last' = [call |-> c, result |-> "refused"]
  /\ UNCHANGED <<store, usable>>

PrefixNext == \E c \in Calls : Write(c) \/ NativeFailure(c) \/ Refuse(c)

PrefixSpec == PrefixInit /\ [][PrefixNext]_prefixVars
--------------------------------------------------------------------------------
(* What the caller committed: the first lens[r] columns of each row.       *)
Committed(c) ==
  {p \in (1..c.rows) \X (1..c.cols) : c.op = "plain" \/ p[2] <= c.lens[p[1]]}
Source(c, p) == (p[1] - 1) * c.cols + p[2] - 1
Target(c, p) == c.loc[p[1]][p[2]]

Rows == Calls \X Nat
Bytes == Rows \cup {Unwritten, Torn}

(* Type invariant: nothing ties a slot's K to its V.                       *)
PrefixTypeOK ==
  /\ store \in [Layer -> [Slot -> [k : Bytes, v : Bytes]]]
  /\ usable \in [Layer -> BOOLEAN]
  /\ last.result \in {"none", "ok", "failed", "refused"}
  /\ last.result # "none" => last.call \in Calls

RowOf(c, p) == <<c, Source(c, p)>>

(* Some call committed this row to slot s of layer l.                      *)
CommittedTo(row, l, s) ==
  \E c \in Calls : Shaped(c) /\ \E p \in Committed(c) :
    LayerId(c) = StartLayer + l /\ Target(c, p) = s /\ row = RowOf(c, p)

(* Whatever calls were made, a slot of a layer that still answers is empty *)
(* or holds K and V of one token that its call committed, for that layer,  *)
(* to that slot, and never padding (:193-201).  A poisoned layer may hold  *)
(* K of one token beside V of another and torn rows, but no whole row that *)
(* was not committed there (runtime_hip.hip:93-103).                       *)
CommittedOnly ==
  \A l \in Layer, s \in Slot :
    LET slot == store[l][s] IN
    /\ \A row \in {slot.k, slot.v} : row \in {Unwritten, Torn} \/ CommittedTo(row, l, s)
    /\ usable[l] => slot.k = slot.v /\ slot.k # Torn

(* A write is judged by what it commits and nothing else: on a usable      *)
(* layer, lengths within the rows and committed locations in range and     *)
(* distinct are accepted whatever the padding repeats or points at.        *)
JudgedByCommitted ==
  LET c == last.call IN
    last.result = "refused" =>
      \/ ~Shaped(c) \/ LayerId(c) \notin StartLayer..(StartLayer + Layers - 1)
      \/ ~usable[LayerId(c) - StartLayer]
      \/ \E p \in Committed(c) : Target(c, p) \notin Slot
      \/ \E p, q \in Committed(c) : p # q /\ Target(c, p) = Target(c, q)

(* An accepted write stores every committed row at its location in its own *)
(* layer and leaves every other slot of every layer alone; a refused one   *)
(* changes nothing; a failed one takes no other layer with it (:95-102,    *)
(* :193-201).                                                              *)
ExactStep ==
  LET c == last'.call
      l == LayerId(c) - StartLayer
      Untouched(m, s) == store'[m][s] = store[m][s]
      Aimed(s) == \E p \in Committed(c) : Target(c, p) = s
  IN /\ last'.result = "refused" => UNCHANGED <<store, usable>>
     /\ last'.result \in {"ok", "failed"} =>
          \A m \in Layer :
            /\ m # l => usable'[m] = usable[m]
            /\ \A s \in Slot : (m = l /\ Aimed(s)) \/ Untouched(m, s)
     /\ last'.result = "ok" =>
          \A p \in Committed(c) :
            store'[l][Target(c, p)] = [k |-> RowOf(c, p), v |-> RowOf(c, p)]
PrefixExact == [][ExactStep]_prefixVars
================================================================================
