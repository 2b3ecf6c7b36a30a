-------------------------------- MODULE KVPool ---------------------------------
(***************************************************************************)
(* SpryUQTokenToKVPool (python/spry_uq/sglang_pool.py) and the attention   *)
(* backend that drives it (python/spry_uq/sglang_backend.py), under the    *)
(* patched SGLang allocator (patches/0001-spry-uq.patch) and a scheduler   *)
(* that admits requests, shares page-aligned prefixes, runs prefill and    *)
(* decode passes over all layers and releases requests.  Each layer's      *)
(* cache is the KVStore that CompressedCache is shown to implement: a map  *)
(* from slots to tokens, and whether the layer still accepts calls.        *)
(*                                                                         *)
(* Scheduler, allocator and forward pass run on one host thread and every  *)
(* native call is synchronous, so a pass is interrupted only by an         *)
(* exception of its own; failures fall between any two layer calls.        *)
(***************************************************************************)
EXTENDS Integers, Sequences, FiniteSets, SlotMaps, ExtendPlan

CONSTANTS
  Layers,       \* number of attention layers
  Pages,        \* number of allocatable pages; page 0 is padding
  PageSize,
  Requests,     \* request ids, each admitted at most once
  Rows,         \* rows of req_to_token
  MaxContext,   \* width of a row
  MaxExtend,    \* bound on the new tokens of one request in one pass
  Skews,        \* errors of the host's decode lengths
  Unwritten,
  None

ASSUME PoolAssumption ==
  /\ {Layers, Pages, PageSize, MaxContext, MaxExtend} \subseteq Nat \ {0}
  /\ Skews \subseteq Int
  /\ IsFiniteSet(Rows)

VARIABLES
  content,    \* content[l][s]: token in slot s of layer l, or Unwritten
  usable,     \* usable[l]: layer l is not poisoned
  freePages,  \* free_pages and release_pages of the allocator
  grouping,   \* ~is_not_in_free_group
  deferred,   \* slots freed while grouping
  table,      \* table[w]: row w of req_to_token, never cleared
  rowOf,      \* rowOf[r]: its row while r is running, else None
  status,     \* "waiting", "running" or "done"
  held,       \* held[r]: how many entries of its row r owns
  hist,       \* hist[r]: tokens committed for r, oldest first
  pass,       \* the forward pass in progress, or None
  seen        \* what the last attention was computed from, by query

layerVars == <<content, usable>>
allocVars == <<freePages, grouping, deferred>>
reqVars == <<table, rowOf, status, held, hist>>
poolVars == <<layerVars, allocVars, reqVars, pass, seen>>

Layer == 1..Layers
Page == 1..Pages
Slot == 0..((Pages + 1) * PageSize - 1)   \* slot_count = size + page_size
Token == Requests \X (1..MaxContext)      \* <<request, position>>

PageOf(s) == s \div PageSize
SlotsOf(P) == {s \in Slot : PageOf(s) \in P}
Ceil(n) == (n + PageSize - 1) \div PageSize

Running == {r \in Requests : status[r] = "running"}
Entry(r, p) == table[rowOf[r]][p]
Owned(r) == {Entry(r, p) : p \in 1..held[r]}
PagesOf(r) == {PageOf(s) : s \in Owned(r)}

(* The tokens of r after n more.                                           *)
Extended(r, n) ==
  hist[r] \o [j \in 1..n |-> <<r, Len(hist[r]) + j>>]

PoolInit ==
  /\ content = [l \in Layer |-> [s \in Slot |-> Unwritten]]
  /\ usable = [l \in Layer |-> TRUE]
  /\ freePages = Page /\ grouping = FALSE /\ deferred = {}
  /\ table = [w \in Rows |-> [p \in 1..MaxContext |-> 0]]
  /\ rowOf = [r \in Requests |-> None]
  /\ status = [r \in Requests |-> "waiting"]
  /\ held = [r \in Requests |-> 0]
  /\ hist = [r \in Requests |-> <<>>]
  /\ pass = None /\ seen = <<>>

--------------------------------------------------------------------------------
(* Releasing slots.  The patched free: pages the indices touch, all their  *)
(* slots invalidated layer by layer, then the pages become allocatable. A  *)
(* poisoned layer raises out of that loop, before the pages are returned.  *)

Reached == {l \in Layer : \A m \in 1..l : usable[m]}

(* Mutants of FreeNow: pages returned before the layers are invalidated;   *)
(* one slot too many per page.                                             *)
FreeNowPagesFirst(F) ==
  LET P == {PageOf(s) : s \in F} IN
  /\ content' = [l \in Layer |->
       IF l \in Reached THEN Dropped(content[l], SlotsOf(P), Unwritten) ELSE content[l]]
  /\ freePages' = freePages \cup P

FreeNowOneSlotMore(F) ==
  LET P == {PageOf(s) : s \in F}
      S == UNION {(p * PageSize)..((p + 1) * PageSize) : p \in P} IN
  /\ content' = [l \in Layer |->
       IF l \in Reached THEN Dropped(content[l], S, Unwritten) ELSE content[l]]
  /\ freePages' = IF Reached = Layer THEN freePages \cup P ELSE freePages

FreeNow(F) ==
  LET P == {PageOf(s) : s \in F} IN
  /\ content' = [l \in Layer |->
       IF l \in Reached THEN Dropped(content[l], SlotsOf(P), Unwritten) ELSE content[l]]
  /\ freePages' = IF Reached = Layer THEN freePages \cup P ELSE freePages

(* Mutant of Free: a free group keeps only the indices of its last free.   *)
FreeKeepsLast(F) ==
  IF F = {} THEN UNCHANGED <<content, allocVars>>
  ELSE IF grouping
  THEN /\ deferred' = F
       /\ UNCHANGED <<content, freePages, grouping>>
  ELSE FreeNow(F) /\ UNCHANGED <<grouping, deferred>>

(* In a free group the indices are only collected.                         *)
Free(F) ==
  IF F = {} THEN UNCHANGED <<content, allocVars>>
  ELSE IF grouping
  THEN /\ deferred' = deferred \cup F
       /\ UNCHANGED <<content, freePages, grouping>>
  ELSE FreeNow(F) /\ UNCHANGED <<grouping, deferred>>

FreeGroupBegin ==
  /\ pass = None /\ ~grouping
  /\ grouping' = TRUE
  /\ UNCHANGED <<layerVars, freePages, deferred, reqVars, pass>>
  /\ seen' = <<>>

FreeGroupEnd ==
  /\ pass = None /\ grouping
  /\ grouping' = FALSE /\ deferred' = {}
  /\ IF deferred = {} THEN UNCHANGED <<content, freePages>> ELSE FreeNow(deferred)
  /\ UNCHANGED <<usable, reqVars, pass>>
  /\ seen' = <<>>

(* A request ends (finished, aborted): the scheduler frees its slots in    *)
(* pages no other running request uses.                                    *)
Release(r) ==
  /\ pass = None /\ r \in Running
  /\ LET others == UNION {PagesOf(x) : x \in Running \ {r}}
     IN  Free({s \in Owned(r) : PageOf(s) \notin others})
  /\ status' = [status EXCEPT ![r] = "done"]
  /\ rowOf' = [rowOf EXCEPT ![r] = None]
  /\ held' = [held EXCEPT ![r] = 0]
  /\ hist' = [hist EXCEPT ![r] = <<>>]
  /\ UNCHANGED <<usable, table, pass>>
  /\ seen' = <<>>

--------------------------------------------------------------------------------
(* Admitting a request: a free row, and optionally the first n full pages  *)
(* of a running request's committed tokens as its prefix.                  *)
Admit(r, w, donor, n) ==
  /\ pass = None
  /\ status[r] = "waiting"
  /\ w \in Rows /\ w \notin {rowOf[x] : x \in Running}
  /\ n % PageSize = 0
  /\ n = 0 \/ (donor \in Running /\ n <= Len(hist[donor]))
  /\ status' = [status EXCEPT ![r] = "running"]
  /\ rowOf' = [rowOf EXCEPT ![r] = w]
  /\ held' = [held EXCEPT ![r] = n]
  /\ hist' = [hist EXCEPT ![r] = SubSeq(hist[donor], 1, n)]
  /\ table' = [table EXCEPT ![w] =
       [p \in 1..MaxContext |-> IF p <= n THEN Entry(donor, p) ELSE @[p]]]
  /\ UNCHANGED <<layerVars, allocVars, pass>>
  /\ seen' = <<>>

(* Row of r once it holds n entries, its new pages being the sequence q:   *)
(* a partly used last page is filled up first.                             *)
Grown(r, n, q) ==
  LET first(p) == (Ceil(p) - 1) * PageSize + 1
      base(p) == IF Ceil(p) <= Ceil(held[r]) THEN Entry(r, first(p))
                 ELSE q[Ceil(p) - Ceil(held[r])] * PageSize
  IN  [p \in 1..MaxContext |->
         IF p <= held[r] \/ p > n THEN Entry(r, p) ELSE base(p) + (p - first(p))]

Needed(b) == Len(hist[b.req]) + b.ext

(* The scheduler allocates the slots of a batch - prefill of up to         *)
(* MaxExtend tokens each, or decode of one - and starts the pass at the    *)
(* first layer.  An aborted pass left its slots to the request, which may  *)
(* try again.  host is seq_lens_cpu.                                       *)
StartPass(mode, batch, take, skew) ==
  /\ pass = None
  /\ \A i \in 1..Len(batch) : batch[i].req \in Running /\ Needed(batch[i]) <= MaxContext
  /\ Distinct([i \in 1..Len(batch) |-> batch[i].req])
  /\ mode = "decode" => \A i \in 1..Len(batch) : batch[i].ext = 1 /\ hist[batch[i].req] # <<>>
  /\ mode = "extend" => skew = 0
  /\ LET wants == [i \in 1..Len(batch) |->
                     IF Needed(batch[i]) <= held[batch[i].req] THEN 0
                     ELSE Ceil(Needed(batch[i])) - Ceil(held[batch[i].req])]
         from == Offsets(wants)
     IN  /\ Len(take) = from[Len(batch)]
         /\ Distinct(take) /\ \A j \in 1..Len(take) : take[j] \in freePages
         /\ freePages' = freePages \ {take[j] : j \in 1..Len(take)}
         /\ table' = [w \in Rows |->
              IF \E i \in 1..Len(batch) : rowOf[batch[i].req] = w
              THEN LET i == CHOOSE i \in 1..Len(batch) : rowOf[batch[i].req] = w
                   IN  Grown(batch[i].req, Needed(batch[i]),
                             SubSeq(take, from[i - 1] + 1, from[i]))
              ELSE table[w]]
  /\ held' = [r \in Requests |->
       IF \E i \in 1..Len(batch) : batch[i].req = r /\ Needed(batch[i]) > held[r]
       THEN LET i == CHOOSE i \in 1..Len(batch) : batch[i].req = r IN Needed(batch[i])
       ELSE held[r]]
  /\ pass' = [mode |-> mode, batch |-> batch, layer |-> 1, stage |-> "write",
              host |-> [i \in 1..Len(batch) |-> Needed(batch[i]) + skew]]
  /\ UNCHANGED <<layerVars, grouping, deferred, rowOf, status, hist>>
  /\ seen' = <<>>

--------------------------------------------------------------------------------
(* One layer of the pass.                                                  *)

Batch == pass.batch
Prefix == [i \in 1..Len(Batch) |-> Len(hist[Batch[i].req])]
Ext == [i \in 1..Len(Batch) |-> Batch[i].ext]

(* out_cache_loc with the K/V of the new tokens, in batch order.           *)
NewLane(i, j) == [loc |-> Entry(Batch[i].req, Prefix[i] + j),
                  tok |-> <<Batch[i].req, Prefix[i] + j>>]
Lanes ==
  [m \in 1..Offsets(Ext)[Len(Batch)] |->
     LET i == CHOOSE i \in 1..Len(Batch) : m - Offsets(Ext)[i - 1] \in 1..Ext[i]
     IN  NewLane(i, m - Offsets(Ext)[i - 1])]

LayerWrites ==
  /\ pass # None /\ pass.stage = "write" /\ usable[pass.layer]
  /\ content' = [content EXCEPT ![pass.layer] = Stored(@, Lanes)]
  /\ pass' = [pass EXCEPT !.stage = "attend"]
  /\ UNCHANGED <<usable, allocVars, reqVars>>
  /\ seen' = <<>>

Widest(q) == CHOOSE m \in {q[i] : i \in 1..Len(q)} : \A i \in 1..Len(q) : q[i] <= m

(* <<request, causal length>> every query's output is computed from, and   *)
(* the number of table entries passed along.                               *)
Queries ==
  IF pass.mode = "decode"
  THEN [q \in 0..(Len(Batch) - 1) |-> {<<q + 1, Prefix[q + 1] + 1>>}]
  ELSE [q \in 0..(Offsets(Ext)[Len(Batch)] - 1) |-> Assigned(Ext, Prefix, q)]

Width(i) ==
  IF pass.mode = "decode" THEN Widest(pass.host) ELSE Prefix[i] + Ext[i]

(* What the native check accepts for one query.                            *)
Readable(x) ==
  /\ x[2] <= Width(x[1])
  /\ \A p \in 1..x[2] : content[pass.layer][Entry(Batch[x[1]].req, p)] # Unwritten

LayerReadable ==
  \A q \in DOMAIN Queries : \A x \in Queries[q] : Readable(x)

Fetch(x) == [p \in 1..x[2] |-> content[pass.layer][Entry(Batch[x[1]].req, p)]]

(* Attention of a layer answers and the model goes on to the next layer.   *)
LayerAttends ==
  /\ pass # None /\ pass.stage = "attend" /\ usable[pass.layer]
  /\ LayerReadable
  /\ seen' = [q \in DOMAIN Queries |-> {Fetch(x) : x \in Queries[q]}]
  /\ pass' = IF pass.layer < Layers
             THEN [pass EXCEPT !.layer = @ + 1, !.stage = "write"]
             ELSE [pass EXCEPT !.stage = "commit"]
  /\ UNCHANGED <<layerVars, allocVars, reqVars>>

(* The scheduler takes the result: the batch's tokens are committed.       *)
Commit ==
  /\ pass # None /\ pass.stage = "commit"
  /\ hist' = [r \in Requests |->
       IF \E i \in 1..Len(Batch) : Batch[i].req = r
       THEN Extended(r, Batch[CHOOSE i \in 1..Len(Batch) : Batch[i].req = r].ext)
       ELSE hist[r]]
  /\ pass' = None
  /\ UNCHANGED <<layerVars, allocVars, table, rowOf, status, held>>
  /\ seen' = <<>>

(* A native failure - a nonfinite K or V, an unreadable slot, a length     *)
(* beyond the indices, a device error - poisons that layer alone and ends  *)
(* the pass.                                                               *)
LayerBreaks ==
  /\ pass # None /\ pass.stage # "commit" /\ usable[pass.layer]
  /\ usable' = [usable EXCEPT ![pass.layer] = FALSE]
  /\ content' = [content EXCEPT ![pass.layer] = [s \in Slot |-> Unwritten]]
  /\ pass' = None
  /\ UNCHANGED <<allocVars, reqVars>>
  /\ seen' = <<>>

(* A Python exception: a poisoned layer's _ready, or a refusal of the      *)
(* call's metadata before or, in forward_extend, after the write.          *)
PassRaises ==
  /\ pass # None /\ pass.stage # "commit"
  /\ pass' = None
  /\ UNCHANGED <<layerVars, allocVars, reqVars>>
  /\ seen' = <<>>

--------------------------------------------------------------------------------
(* move_kv_cache: the committed slots of page j of request r are copied to *)
(* a page taken from the allocator, layer by layer; if no layer raises the *)
(* row is redirected and the old page freed.  A raise leaves the earlier   *)
(* layers copied and the new page with nobody.                             *)
MovePage(r, j, to) ==
  LET first == (j - 1) * PageSize + 1
      last == IF j * PageSize < Len(hist[r]) THEN j * PageSize ELSE Len(hist[r])
      src == [i \in 1..(last - first + 1) |-> Entry(r, first + i - 1)]
      dst == [i \in 1..Len(src) |-> to * PageSize + i - 1]
      old == PageOf(src[1])
  IN
  /\ pass = None /\ ~grouping /\ r \in Running /\ to \in freePages
  /\ held[r] = Len(hist[r]) /\ first <= Len(hist[r])
  /\ \A x \in Running \ {r} : old \notin PagesOf(x)
  /\ content' = [l \in Layer |->
       IF l \in Reached
       THEN LET copied == Moved(content[l], dst, src)
            IN  IF Reached = Layer THEN Dropped(copied, SlotsOf({old}), Unwritten) ELSE copied
       ELSE content[l]]
  /\ IF Reached = Layer
     THEN /\ freePages' = (freePages \ {to}) \cup {old}
          /\ table' = [table EXCEPT ![rowOf[r]] =
               [p \in 1..MaxContext |-> IF p \in first..last THEN dst[p - first + 1] ELSE @[p]]]
     ELSE freePages' = freePages \ {to} /\ UNCHANGED table
  /\ UNCHANGED <<usable, grouping, deferred, rowOf, status, held, hist, pass>>
  /\ seen' = <<>>

BatchOf == [req : Requests, ext : 1..MaxExtend]
Batches == UNION {[1..n -> BatchOf] : n \in 1..Cardinality(Rows)}   \* a row a request
Takes == UNION {[1..n -> freePages] : n \in 0..Cardinality(freePages)}

PoolNext ==
  \/ FreeGroupBegin
  \/ FreeGroupEnd
  \/ \E r \in Requests : Release(r)
  \/ \E r, donor \in Requests, w \in Rows, n \in 0..MaxContext : Admit(r, w, donor, n)
  \/ \E mode \in {"extend", "decode"}, batch \in Batches, take \in Takes, skew \in Skews :
       StartPass(mode, batch, take, skew)
  \/ LayerWrites
  \/ LayerAttends
  \/ Commit
  \/ LayerBreaks
  \/ PassRaises
  \/ \E r \in Requests, j \in 1..MaxContext, to \in Page : MovePage(r, j, to)

PoolSpec == PoolInit /\ [][PoolNext]_poolVars
--------------------------------------------------------------------------------
(* Type invariant.                                                         *)
PoolTypeOK ==
  /\ content \in [Layer -> [Slot -> Token \cup {Unwritten}]]
  /\ usable \in [Layer -> BOOLEAN]
  /\ freePages \subseteq Page /\ grouping \in BOOLEAN /\ deferred \subseteq Slot
  /\ table \in [Rows -> [1..MaxContext -> Slot]]
  /\ rowOf \in [Requests -> Rows \cup {None}]
  /\ status \in [Requests -> {"waiting", "running", "done"}]
  /\ held \in [Requests -> 0..MaxContext]
  /\ hist \in [Requests -> Seq(Token)] /\ \A r \in Requests : Len(hist[r]) <= held[r]

(* A slot the allocator may hand out can be read in no layer, so a new     *)
(* owner can never be answered from an old owner's token (the invalidate   *)
(* hooks of patches/0001-spry-uq.patch:125-128 and :139-146, and           *)
(* "Clear validity when SGLang releases physical slots for reuse",         *)
(* sglang_pool.py:209).                                                    *)
FreePagesUnreadable ==
  \A l \in Layer : \A s \in SlotsOf(freePages) : content[l][s] = Unwritten

(* Every layer that still answers holds, for every committed position of   *)
(* every running request, that request's own token: releasing, moving,     *)
(* sharing and aborted passes never touch another request's rows.          *)
CommittedEverywhere ==
  \A l \in Layer : usable[l] =>
    \A r \in Running : \A p \in 1..Len(hist[r]) : content[l][Entry(r, p)] = hist[r][p]

(* Attention that answers is computed, for every query of every request,   *)
(* from exactly that request's tokens up to and including the query's own  *)
(* position: across pages, shared prefixes, chunks, stale table entries    *)
(* and wrong host lengths (sglang_backend.py:233-287).                     *)
AnsweredCausally ==
  seen # <<>> =>
    \A i \in 1..Len(Batch) : \A j \in 1..Ext[i] :
      seen[Offsets(Ext)[i - 1] + j - 1] =
        {SubSeq(Extended(Batch[i].req, Ext[i]), 1, Prefix[i] + j)}

(* While every layer is usable no page is lost or owned twice: each is     *)
(* free, waiting for the end of a free group, or held by running requests, *)
(* and two requests hold the same page only as a common committed prefix.  *)
PagesConserved ==
  (\A l \in Layer : usable[l]) =>
    LET owned == UNION {PagesOf(r) : r \in Running}
        pending == {PageOf(s) : s \in deferred}
    IN /\ freePages \cup pending \cup owned = Page
       /\ freePages \cap (pending \cup owned) = {} /\ pending \cap owned = {}
       /\ \A r, x \in Running : \A p \in 1..held[r], y \in 1..held[x] :
            r # x /\ Entry(r, p) = Entry(x, y) =>
              p = y /\ p <= Len(hist[r]) /\ p <= Len(hist[x]) /\ hist[r][p] = hist[x][p]
===============================================================================
