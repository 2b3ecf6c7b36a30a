------------------------------- MODULE KVStore --------------------------------
(***************************************************************************)
(* What one compressed cache promises its caller: a map from slots to      *)
(* whole tokens (all heads, K and V together) that answers attention from  *)
(* exactly the tokens stored, changes only by whole operations, and, once  *)
(* broken, neither answers nor changes again.                              *)
(***************************************************************************)
EXTENDS Integers, Sequences, SlotMaps

CONSTANTS
  Slot,          \* physical slots
  Tokens,        \* whole-token contents
  Unwritten,     \* content of a slot that may not be read
  QueryHead,     \* query heads of an attention call
  KVHeadOf(_),   \* key/value head a query head reads
  WriteCalls,    \* batches <<[loc, tok], ...>> a caller may store
  ReadCalls,     \* batches <<[idx, len, finite], ...>> a caller may ask about
  MoveCalls,     \* pairs <<destinations, sources>>
  DropCalls      \* sets of slots

VARIABLES
  content,   \* content[s]: the token in slot s, or Unwritten
  usable,    \* FALSE after the first failure, for ever
  answer     \* the rows the last answered attention call was computed from

storeVars == <<content, usable, answer>>

(* Rows an attention call reads: for lane i and query head h, the K and V  *)
(* rows of the mapped head of each of the first len tokens, in order.      *)
Rows(c) ==
  [x \in (1..Len(c)) \X QueryHead |->
     [t \in 1..c[x[1]].len |->
        LET row == <<content[c[x[1]].idx[t]], KVHeadOf(x[2])>> IN <<row, row>>]]

Readable(c) ==
  \A i \in 1..Len(c) :
    \A t \in 1..c[i].len : c[i].idx[t] \in Slot /\ content[c[i].idx[t]] # Unwritten

StoreInit ==
  /\ content = [s \in Slot |-> Unwritten]
  /\ usable = TRUE
  /\ answer = <<>>

Put(w) ==
  /\ usable
  /\ \A i \in 1..Len(w) : w[i].loc \in Slot /\ w[i].tok \in Tokens
  /\ \A i, j \in 1..Len(w) : w[i].loc = w[j].loc => i = j
  /\ content' = Stored(content, w)
  /\ UNCHANGED <<usable, answer>>

Read(c) ==
  /\ usable
  /\ Readable(c)
  /\ answer' = Rows(c)
  /\ UNCHANGED <<content, usable>>

Drop(S) ==
  /\ usable
  /\ content' = Dropped(content, S, Unwritten)
  /\ UNCHANGED <<usable, answer>>

Move(dst, src) ==
  /\ usable
  /\ Distinct(dst) /\ Len(dst) = Len(src)
  /\ \A i \in 1..Len(src) : src[i] \in Slot /\ content[src[i]] # Unwritten
  /\ content' = Moved(content, dst, src)
  /\ UNCHANGED <<usable, answer>>

Break ==
  /\ usable
  /\ usable' = FALSE
  /\ content' = [s \in Slot |-> Unwritten]
  /\ UNCHANGED answer

StoreNext ==
  \/ \E w \in WriteCalls : Put(w)
  \/ \E c \in ReadCalls : Read(c)
  \/ \E S \in DropCalls : Drop(S)
  \/ \E m \in MoveCalls : Move(m[1], m[2])
  \/ Break

StoreSpec == StoreInit /\ [][StoreNext]_storeVars
===============================================================================
