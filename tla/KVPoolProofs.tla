----------------------------- MODULE KVPoolProofs ------------------------------
(***************************************************************************)
(* The safety properties of KVPool for any number of layers, pages, rows   *)
(* and requests, any page size and chunk, and any interleaving of passes,  *)
(* releases, moves and failures.                                           *)
(***************************************************************************)
EXTENDS KVPool, ExtendPlanProofs, FiniteSetTheorems, SequenceTheorems, TLAPS

--------------------------------------------------------------------------------
(* Arithmetic of pages.  Positions p of a request count from 1; block b is *)
(* the positions whose Ceil is b.                                          *)

LEMMA SizeType == PageSize \in Nat \ {0} /\ Pages \in Nat /\ MaxContext \in Nat /\ Layers \in Nat \ {0}
BY PoolAssumption

LEMMA CeilBounds ==
  ASSUME NEW p \in Nat
  PROVE  /\ Ceil(p) \in Nat /\ Ceil(p) * PageSize \in Nat
         /\ p <= Ceil(p) * PageSize /\ Ceil(p) * PageSize < p + PageSize
<1> DEFINE n == p + PageSize - 1
<1>1. n \in Nat /\ PageSize \in Nat \ {0}
  BY SizeType
<1>2. /\ n \div PageSize \in Nat /\ n % PageSize \in 0..(PageSize - 1)
      /\ n = (n \div PageSize) * PageSize + (n % PageSize)
  <2> HIDE DEF n
  <2> QED BY <1>1, Division
<1>3. Ceil(p) = n \div PageSize BY DEF Ceil
<1>4. Ceil(p) * PageSize \in Nat BY <1>1, <1>2, <1>3
<1> QED BY <1>1, <1>2, <1>3, <1>4

(* Only one multiple of the page size lies within a page from p on.        *)
LEMMA CeilIs ==
  ASSUME NEW p \in Nat, NEW b \in Nat, p <= b * PageSize, b * PageSize < p + PageSize
  PROVE  Ceil(p) = b
<1>1. PageSize \in Nat /\ b * PageSize \in Nat BY SizeType
<1>2. /\ Ceil(p) \in Nat /\ Ceil(p) * PageSize \in Nat
      /\ p <= Ceil(p) * PageSize /\ Ceil(p) * PageSize < p + PageSize
  BY CeilBounds
<1>3. ASSUME Ceil(p) < b PROVE FALSE
  <2>1. Ceil(p) * PageSize + PageSize <= b * PageSize BY <1>1, <1>2, <1>3, Multiples
  <2> QED BY <1>1, <1>2, <2>1
<1>4. ASSUME b < Ceil(p) PROVE FALSE
  <2>1. b * PageSize + PageSize <= Ceil(p) * PageSize BY <1>1, <1>2, <1>4, Multiples
  <2> QED BY <1>1, <1>2, <2>1
<1> QED BY <1>2, <1>3, <1>4

LEMMA CeilMonotone ==
  ASSUME NEW p \in Nat, NEW q \in Nat, p <= q
  PROVE  Ceil(p) <= Ceil(q)
<1>1. PageSize \in Nat BY SizeType
<1>2. /\ Ceil(p) \in Nat /\ Ceil(p) * PageSize \in Nat /\ Ceil(p) * PageSize < p + PageSize
      /\ Ceil(q) \in Nat /\ Ceil(q) * PageSize \in Nat /\ q <= Ceil(q) * PageSize
  BY CeilBounds
<1>3. ASSUME Ceil(q) < Ceil(p) PROVE FALSE
  <2>1. Ceil(q) * PageSize + PageSize <= Ceil(p) * PageSize BY <1>1, <1>2, <1>3, Multiples
  <2> QED BY <1>1, <1>2, <2>1
<1> QED BY <1>2, <1>3

(* The positions of block b.                                               *)
LEMMA Block ==
  ASSUME NEW p \in Nat \ {0}, NEW b \in Nat \ {0}
  PROVE  Ceil(p) = b <=> (b - 1) * PageSize + 1 <= p /\ p <= b * PageSize
<1>1. PageSize \in Nat /\ b * PageSize \in Nat /\ (b - 1) * PageSize = b * PageSize - PageSize
  BY SizeType
<1>2. ASSUME Ceil(p) = b PROVE (b - 1) * PageSize + 1 <= p /\ p <= b * PageSize
  BY <1>1, <1>2, CeilBounds
<1>3. ASSUME (b - 1) * PageSize + 1 <= p, p <= b * PageSize PROVE Ceil(p) = b
  <2>1. b * PageSize < p + PageSize BY <1>1, <1>3
  <2> QED BY <1>3, <2>1, CeilIs
<1> QED BY <1>2, <1>3

(* First position of the block of p.                                       *)
First(p) == (Ceil(p) - 1) * PageSize + 1

LEMMA FirstBounds ==
  ASSUME NEW p \in Nat \ {0}
  PROVE  /\ Ceil(p) \in Nat \ {0} /\ First(p) \in Nat \ {0} /\ First(p) <= p
         /\ p - First(p) \in 0..(PageSize - 1)
         /\ Ceil(First(p)) = Ceil(p) /\ First(First(p)) = First(p)
<1>1. PageSize \in Nat \ {0} BY SizeType
<1>2. Ceil(p) \in Nat /\ p <= Ceil(p) * PageSize /\ Ceil(p) * PageSize < p + PageSize
  BY CeilBounds
<1>3. Ceil(p) # 0 BY <1>1, <1>2
<1>4. Ceil(p) * PageSize \in Nat /\ (Ceil(p) - 1) * PageSize = Ceil(p) * PageSize - PageSize
  BY <1>1, <1>2
<1>5. (Ceil(p) - 1) * PageSize \in Nat BY <1>1, <1>2, <1>3
<1>6. First(p) \in Nat \ {0} /\ First(p) <= p /\ p - First(p) \in 0..(PageSize - 1)
  BY <1>1, <1>2, <1>4, <1>5 DEF First
<1>7. First(p) <= Ceil(p) * PageSize BY <1>2, <1>4, <1>6
<1>8. Ceil(First(p)) = Ceil(p)
  BY <1>2, <1>3, <1>6, <1>7, Block DEF First
<1> QED BY <1>2, <1>3, <1>6, <1>8 DEF First

(* The page of a slot, and the slots of a page.                            *)
LEMMA SlotInPage ==
  ASSUME NEW g \in Nat, NEW o \in 0..(PageSize - 1)
  PROVE  /\ g * PageSize + o \in Nat /\ PageOf(g * PageSize + o) = g
         /\ g \in Page => g * PageSize + o \in Slot
<1>1. PageSize \in Nat \ {0} BY SizeType
<1>2. g * PageSize \in Nat /\ g * PageSize + o \in Nat BY <1>1
<1> DEFINE q == (g * PageSize + o) \div PageSize
           r == (g * PageSize + o) % PageSize
<1>3. q \in Nat /\ r \in 0..(PageSize - 1) /\ g * PageSize + o = q * PageSize + r
  BY <1>1, <1>2, Division
<1> HIDE DEF q, r
<1>4. ~(q < g) BY <1>1, <1>2, <1>3, Multiples
<1>5. ~(g < q) BY <1>1, <1>2, <1>3, Multiples
<1>6. q = g BY <1>3, <1>4, <1>5
<1>7. ASSUME g \in Page PROVE g * PageSize + o \in Slot
  <2>1. g < Pages + 1 /\ Pages + 1 \in Nat BY <1>7, SizeType DEF Page
  <2>2. g * PageSize + PageSize <= (Pages + 1) * PageSize BY <1>1, <2>1, Multiples
  <2> QED BY <1>1, <1>2, <2>2, <2>1 DEF Slot
<1> QED BY <1>2, <1>6, <1>7 DEF PageOf, q

LEMMA PageOfType ==
  ASSUME NEW s \in Slot
  PROVE  s \in Nat /\ PageOf(s) \in Nat
<1>1. s \in Nat BY SizeType DEF Slot
<1> QED BY <1>1, SizeType, Division DEF PageOf

(* A prefix of full pages contains the block of each of its positions.     *)
LEMMA FullPages ==
  ASSUME NEW n \in Nat, n % PageSize = 0, NEW p \in 1..n
  PROVE  Ceil(p) * PageSize <= n
<1>1. PageSize \in Nat \ {0} /\ p \in Nat BY SizeType
<1>2. n \div PageSize \in Nat /\ n = (n \div PageSize) * PageSize
  BY <1>1, Division
<1>3. /\ Ceil(p) \in Nat /\ Ceil(p) * PageSize \in Nat /\ Ceil(p) * PageSize < p + PageSize
  BY CeilBounds
<1> DEFINE q == n \div PageSize
<1> HIDE DEF q
<1>4. q \in Nat /\ n = q * PageSize BY <1>2 DEF q
<1>5. ASSUME q < Ceil(p) PROVE FALSE
  <2>1. q * PageSize + PageSize <= Ceil(p) * PageSize BY <1>1, <1>3, <1>4, <1>5, Multiples
  <2> QED BY <1>1, <1>3, <1>4, <2>1
<1>6. ASSUME Ceil(p) < q PROVE Ceil(p) * PageSize <= n
  <2>1. Ceil(p) * PageSize + PageSize <= q * PageSize BY <1>1, <1>3, <1>4, <1>6, Multiples
  <2> QED BY <1>1, <1>3, <1>4, <2>1
<1>7. CASE Ceil(p) = q BY <1>4, <1>7
<1> QED BY <1>3, <1>4, <1>5, <1>6, <1>7

--------------------------------------------------------------------------------
(* The inductive invariant.                                                *)

PageAt(r, p) == PageOf(Entry(r, p))

(* Running requests have rows of their own.                                *)
RowsApart ==
  /\ \A r \in Running : rowOf[r] \in Rows
  /\ \A r, x \in Running : rowOf[r] = rowOf[x] => r = x

(* A block lies in one allocatable page, slot by slot, and blocks of a     *)
(* request lie in different pages.                                         *)
Layout ==
  \A r \in Running : \A p \in 1..held[r] :
    /\ PageAt(r, p) \in Page
    /\ Entry(r, p) = PageAt(r, p) * PageSize + (p - First(p))
    /\ \A y \in 1..held[r] : PageAt(r, p) = PageAt(r, y) <=> Ceil(p) = Ceil(y)

(* Two requests share a page only as the same block, full and committed in *)
(* both, with the same tokens up to its end.                               *)
Shared ==
  \A r, x \in Running : \A p \in 1..held[r], y \in 1..held[x] :
    r # x /\ PageAt(r, p) = PageAt(x, y) =>
      /\ Ceil(p) = Ceil(y)
      /\ Ceil(p) * PageSize <= Len(hist[r]) /\ Ceil(p) * PageSize <= Len(hist[x])
      /\ \A z \in 1..(Ceil(p) * PageSize) : hist[r][z] = hist[x][z]

(* Pages waiting for the end of a free group.                              *)
Pending == {PageOf(s) : s \in deferred}
OwnedPages == UNION {PagesOf(r) : r \in Running}

FreeApart ==
  /\ freePages \cap Pending = {} /\ Pending \subseteq Page
  /\ freePages \cap OwnedPages = {} /\ Pending \cap OwnedPages = {}
  /\ grouping \/ deferred = {}

NonePagesLost == (\A l \in Layer : usable[l]) => freePages \cup Pending \cup OwnedPages = Page

(* The pass in progress is of running requests that hold room for its      *)
(* tokens, and the layers it is past hold these tokens.                    *)
Written(l) == l < pass.layer \/ (l = pass.layer /\ pass.stage # "write")

PassShape ==
  /\ Batch \in Seq(BatchOf) /\ Len(Batch) \in Nat \ {0}
  /\ Distinct([i \in 1..Len(Batch) |-> Batch[i].req])
  /\ \A i \in 1..Len(Batch) : Batch[i].req \in Running /\ Needed(Batch[i]) <= held[Batch[i].req]
  /\ pass.mode \in {"extend", "decode"}
  /\ pass.mode = "decode" => \A i \in 1..Len(Batch) : Batch[i].ext = 1
  /\ pass.layer \in Layer /\ pass.stage \in {"write", "attend", "commit"}
  /\ pass.stage = "commit" => pass.layer = Layers

(* Slot and content of the j-th new token of the i-th request of the batch.*)
NewSlot(i, j) == Entry(Batch[i].req, Prefix[i] + j)
NewToken(i, j) == <<Batch[i].req, Prefix[i] + j>>

PassWrote ==
  \A l \in Layer : Written(l) =>
    \A i \in 1..Len(Batch) : \A j \in 1..Ext[i] : content[l][NewSlot(i, j)] = NewToken(i, j)

PassInv == pass # None => PassShape /\ PassWrote

PoolInv ==
  /\ PoolTypeOK /\ RowsApart /\ Layout /\ Shared /\ FreeApart /\ NonePagesLost /\ PassInv
  /\ FreePagesUnreadable /\ CommittedEverywhere /\ AnsweredCausally

--------------------------------------------------------------------------------
(* Bulk updates of a layer, slot by slot.                                  *)

LEMMA StoredAt ==
  ASSUME NEW f, NEW w, NEW s \in DOMAIN f
  PROVE  \/ \E i \in 1..Len(w) : w[i].loc = s /\ Stored(f, w)[s] = w[i].tok
         \/ (\A i \in 1..Len(w) : w[i].loc # s) /\ Stored(f, w)[s] = f[s]
BY DEF Stored

LEMMA MovedAt ==
  ASSUME NEW f, NEW dst, NEW src, NEW s \in DOMAIN f
  PROVE  \/ \E i \in 1..Len(dst) : dst[i] = s /\ Moved(f, dst, src)[s] = f[src[i]]
         \/ (\A i \in 1..Len(dst) : dst[i] # s) /\ Moved(f, dst, src)[s] = f[s]
BY DEF Moved

LEMMA FunctionIsSeq ==
  ASSUME NEW S, NEW n \in Nat, NEW f \in [1..n -> S]
  PROVE  f \in Seq(S) /\ Len(f) = n
OBVIOUS

LEMMA DistinctEntries ==
  ASSUME NEW n \in Nat, NEW f, DOMAIN f = 1..n, Distinct([i \in 1..n |-> f[i]]),
         NEW i \in 1..n, NEW k \in 1..n, f[i] = f[k]
  PROVE  i = k
<1> DEFINE g == [j \in 1..n |-> f[j]]
<1>1. g \in [1..n -> {f[j] : j \in 1..n}] OBVIOUS
<1>2. Len(g) = n BY <1>1, FunctionIsSeq
<1>3. g[i] = f[i] /\ g[k] = f[k] OBVIOUS
<1>4. \A a, b \in 1..Len(g) : a # b => g[a] # g[b] BY DEF Distinct
<1> HIDE DEF g
<1> QED BY <1>2, <1>3, <1>4

(* Offsets cut 1..Offsets(e)[n] into n stretches of e[1], ..., e[n]        *)
(* numbers: every number is in one stretch, at one place of it.            *)
Stretches(n, e) ==
  /\ Len(e) = n /\ Offsets(e)[0] = 0
  /\ \A i \in 0..n : Offsets(e)[i] \in Nat /\ Offsets(e)[i] <= Offsets(e)[n]
  /\ \A i \in 1..n : /\ Offsets(e)[i - 1] \in Nat /\ Offsets(e)[i] = Offsets(e)[i - 1] + e[i]
                     /\ e[i] <= Offsets(e)[n]
  /\ \A i \in 1..n : \A j \in 1..e[i] : Offsets(e)[i - 1] + j \in 1..Offsets(e)[n]
  /\ \A i, k \in 1..n : \A j \in 1..e[i], z \in 1..e[k] :
       Offsets(e)[i - 1] + j = Offsets(e)[k - 1] + z => i = k /\ j = z
  /\ \A m \in 1..Offsets(e)[n] : \E i \in 1..n : m - Offsets(e)[i - 1] \in 1..e[i]

LEMMA OffsetsCut ==
  ASSUME NEW n \in Nat, NEW e \in [1..n -> Nat]
  PROVE  Stretches(n, e)
<1> DEFINE off == Offsets(e)
<1>1. Len(e) = n BY FunctionIsSeq
<1>2. /\ \A b \in 0..n : off[b] \in Nat
      /\ \A b \in 0..n : \A a \in 0..b : off[a] <= off[b]
      /\ \A b \in 1..n : off[b] = off[b - 1] + e[b]
  <2>1. n \in 0..Len(e) /\ \A a \in 1..n : e[a] \in Nat BY <1>1
  <2> QED BY <1>1, <2>1, OffsetsGrow
<1>3. off[0] = 0
  <2>1. off = [i \in 0..n |-> IF i = 0 THEN 0 ELSE off[i - 1] + e[i]] BY <1>1, OffsetsAre
  <2> QED BY <2>1
<1>4. ASSUME NEW m \in 1..off[n] PROVE \E i \in 1..n : m - off[i - 1] \in 1..e[i]
  <2> DEFINE q == m - 1
  <2>1. off[n] \in Nat BY <1>2
  <2>2. q \in Nat /\ q < off[n] /\ m = q + 1 BY <2>1
  <2> HIDE DEF q
  <2>3. n \in 0..Len(e) /\ \A a \in 1..n : e[a] \in Nat BY <1>1
  <2>4. PICK i \in 1..n : q - off[i - 1] \in 0..(e[i] - 1) BY <1>1, <2>2, <2>3, OffsetsCover
  <2>5. i - 1 \in 0..n /\ e[i] \in Nat OBVIOUS
  <2>6. off[i - 1] \in Nat BY <1>2, <2>5
  <2> HIDE DEF off
  <2>7. m - off[i - 1] \in 1..e[i] BY <2>2, <2>4, <2>5, <2>6
  <2> QED BY <2>7
<1> HIDE DEF off
<1>5. \A i \in 0..n : off[i] \in Nat /\ off[i] <= off[n]
  <2>1. n \in 0..n /\ \A i \in 0..n : i \in 0..n OBVIOUS
  <2> QED BY <1>2, <2>1
<1>6. ASSUME NEW i \in 1..n
      PROVE  /\ off[i - 1] \in Nat /\ off[i] = off[i - 1] + e[i] /\ e[i] \in Nat
             /\ off[i] <= off[n] /\ e[i] <= off[n]
  <2>1. i - 1 \in 0..n /\ i \in 0..n /\ e[i] \in Nat /\ n \in 0..n OBVIOUS
  <2>2. off[i - 1] \in Nat /\ off[i] = off[i - 1] + e[i] /\ off[i] <= off[n] /\ off[n] \in Nat
    BY <1>2, <1>5, <2>1
  <2> QED BY <2>1, <2>2
<1>7. ASSUME NEW i \in 1..n, NEW j \in 1..e[i] PROVE off[i - 1] + j \in 1..off[n]
  <2>1. off[n] \in Nat BY <1>2
  <2> QED BY <1>6, <2>1
<1>8. ASSUME NEW i \in 1..n, NEW k \in 1..n, NEW j \in 1..e[i], NEW z \in 1..e[k],
             i < k
      PROVE  off[i - 1] + j # off[k - 1] + z
  <2>0. i \in Nat /\ k \in Nat /\ k <= n /\ i < k BY <1>8
  <2>1. k - 1 \in 0..n /\ i \in 0..(k - 1) BY <2>0
  <2>2. off[i] <= off[k - 1] BY <1>2, <2>1
  <2>3. off[i - 1] \in Nat /\ off[i] = off[i - 1] + e[i] /\ e[i] \in Nat BY <1>6
  <2>4. off[k - 1] \in Nat BY <1>6
  <2>5. j \in Nat /\ j <= e[i] /\ z \in Nat /\ z > 0 BY <1>6
  <2> DEFINE b == off[i - 1]
             c == off[k - 1]
             f == e[i]
  <2>6. b \in Nat /\ c \in Nat /\ f \in Nat /\ b + f <= c /\ j <= f BY <2>2, <2>3, <2>4, <2>5
  <2> HIDE DEF b, c, f
  <2>7. b + j # c + z BY <2>5, <2>6
  <2> QED BY <2>7 DEF b, c
<1>9. ASSUME NEW i \in 1..n, NEW k \in 1..n, NEW j \in 1..e[i], NEW z \in 1..e[k],
             off[i - 1] + j = off[k - 1] + z
      PROVE  i = k /\ j = z
  <2>1. ~(i < k) BY <1>8, <1>9
  <2>2. ~(k < i) BY <1>8, <1>9
  <2>3. i = k BY <2>1, <2>2
  <2>4. off[i - 1] \in Nat /\ e[i] \in Nat BY <1>6
  <2>5. off[i - 1] + j = off[i - 1] + z BY <1>9, <2>3
  <2> HIDE DEF off
  <2>6. j \in Nat /\ z \in Nat BY <2>3, <2>4
  <2> QED BY <2>3, <2>4, <2>5, <2>6
<1>10. \A i \in 1..n : \A j \in 1..e[i] : off[i - 1] + j \in 1..off[n] BY <1>7
<1>11. \A i, k \in 1..n : \A j \in 1..e[i], z \in 1..e[k] :
         off[i - 1] + j = off[k - 1] + z => i = k /\ j = z
  BY <1>9
<1>12. \A i \in 1..n : off[i - 1] \in Nat /\ off[i] = off[i - 1] + e[i] /\ e[i] <= off[n] BY <1>6
<1> QED BY <1>1, <1>3, <1>4, <1>5, <1>10, <1>11, <1>12 DEF Stretches, off

--------------------------------------------------------------------------------
(* Requests and the slots they hold.                                       *)

LEMMA EntryType ==
  ASSUME PoolTypeOK, RowsApart, NEW r \in Running
  PROVE  /\ r \in Requests /\ rowOf[r] \in Rows /\ held[r] \in 0..MaxContext
         /\ \A p \in 1..MaxContext : Entry(r, p) \in Slot
         /\ hist[r] \in Seq(Token) /\ Len(hist[r]) \in 0..held[r]
BY SizeType DEF PoolTypeOK, RowsApart, Entry, Running

LEMMA HeldEntry ==
  ASSUME PoolTypeOK, RowsApart, NEW r \in Running
  PROVE  /\ \A p \in 1..held[r] : p \in Nat \ {0} /\ p \in 1..MaxContext /\ Entry(r, p) \in Slot
         /\ \A p \in 1..Len(hist[r]) : p \in 1..held[r] /\ Entry(r, p) \in Slot
<1>1. held[r] \in 0..MaxContext /\ Len(hist[r]) \in 0..held[r] BY EntryType
<1>2. \A p \in 1..held[r] : p \in Nat \ {0} /\ p \in 1..MaxContext BY <1>1, SizeType
<1>3. \A p \in 1..Len(hist[r]) : p \in 1..held[r] BY <1>1, SizeType
<1> QED BY <1>2, <1>3, EntryType

(* One slot is one position, of one request or of a common prefix.         *)
LEMMA EntriesApart ==
  ASSUME PoolTypeOK, RowsApart, Layout, Shared,
         NEW r \in Running, NEW x \in Running, NEW p \in 1..held[r], NEW y \in 1..held[x],
         Entry(r, p) = Entry(x, y)
  PROVE  /\ p = y
         /\ r # x => p <= Len(hist[r]) /\ p <= Len(hist[x]) /\ hist[r][p] = hist[x][p]
<1>1. held[r] \in Nat /\ held[x] \in Nat /\ p \in Nat \ {0} /\ y \in Nat \ {0}
  BY EntryType
<1>2. PageAt(r, p) = PageAt(x, y) BY DEF PageAt
<1>3. Ceil(p) = Ceil(y)
  <2>1. CASE r = x BY <1>2, <2>1 DEF Layout
  <2>2. CASE r # x BY <1>2, <2>2 DEF Shared
  <2> QED BY <2>1, <2>2
<1>4. First(p) = First(y) BY <1>3 DEF First
<1>5. /\ Entry(r, p) = PageAt(r, p) * PageSize + (p - First(p))
      /\ Entry(x, y) = PageAt(r, p) * PageSize + (y - First(p))
      /\ PageAt(r, p) \in Nat
  BY <1>2, <1>4, SizeType DEF Layout, Page
<1>6. PageAt(r, p) * PageSize \in Nat BY <1>5, SizeType
<1>7. p = y
  <2> DEFINE base == PageAt(r, p) * PageSize
             first == First(p)
  <2>1. base \in Nat /\ first \in Nat BY <1>1, <1>6, FirstBounds
  <2>2. base + (p - first) = base + (y - first) BY <1>5
  <2> HIDE DEF base, first
  <2> QED BY <1>1, <2>1, <2>2
<1>8. ASSUME r # x
      PROVE  p <= Len(hist[r]) /\ p <= Len(hist[x]) /\ hist[r][p] = hist[x][p]
  <2>1. /\ Ceil(p) * PageSize <= Len(hist[r]) /\ Ceil(p) * PageSize <= Len(hist[x])
        /\ \A z \in 1..(Ceil(p) * PageSize) : hist[r][z] = hist[x][z]
    BY <1>2, <1>8 DEF Shared
  <2>2. p <= Ceil(p) * PageSize /\ Ceil(p) * PageSize \in Nat BY <1>1, CeilBounds
  <2>3. Len(hist[r]) \in Nat /\ Len(hist[x]) \in Nat BY EntryType
  <2> QED BY <1>1, <2>1, <2>2, <2>3
<1> QED BY <1>7, <1>8

(* Pages of running requests are allocatable, and no free page is one.     *)
LEMMA OwnedApart ==
  ASSUME PoolTypeOK, RowsApart, Layout, FreeApart, NEW r \in Running, NEW p \in 1..held[r]
  PROVE  /\ PageAt(r, p) \in Page /\ PageAt(r, p) \in OwnedPages
         /\ PageAt(r, p) \notin freePages /\ PageAt(r, p) \notin Pending
<1>1. PageAt(r, p) \in PagesOf(r) BY DEF PagesOf, Owned, PageAt
<1>2. PageAt(r, p) \in OwnedPages BY <1>1 DEF OwnedPages
<1> QED BY <1>2 DEF FreeApart, Layout

--------------------------------------------------------------------------------
(* Every step preserves the invariant.                                     *)

(* What depends on the requests alone.                                     *)
LEMMA SameRequests ==
  ASSUME RowsApart, Layout, Shared, UNCHANGED reqVars
  PROVE  /\ Running' = Running /\ OwnedPages' = OwnedPages
         /\ \A r, p : Entry(r, p)' = Entry(r, p)
         /\ RowsApart' /\ Layout' /\ Shared'
<1>1. table' = table /\ rowOf' = rowOf /\ status' = status /\ held' = held /\ hist' = hist
  BY DEF reqVars
<1>2. Running' = Running BY <1>1 DEF Running
<1>3. \A r, p : Entry(r, p)' = Entry(r, p) /\ PageAt(r, p)' = PageAt(r, p)
  BY <1>1 DEF Entry, PageAt
<1>4. OwnedPages' = OwnedPages BY <1>1, <1>2 DEF OwnedPages, PagesOf, Owned, Entry
<1>5. RowsApart' BY <1>1, <1>2 DEF RowsApart
<1>6. Layout' BY <1>1, <1>2, <1>3 DEF Layout
<1>7. Shared' BY <1>1, <1>2, <1>3 DEF Shared
<1> QED BY <1>2, <1>3, <1>4, <1>5, <1>6, <1>7

LEMMA InitInv == PoolInit => PoolInv
<1> SUFFICES ASSUME PoolInit PROVE PoolInv OBVIOUS
<1>1. Running = {} BY DEF PoolInit, Running
<1>2. OwnedPages = {} /\ Pending = {} BY <1>1 DEF OwnedPages, Pending, PoolInit
<1>3. 0 \in Slot
  <2>1. (Pages + 1) * PageSize >= PageSize
    BY SizeType
  <2> QED BY <2>1, SizeType DEF Slot
<1>4. PoolTypeOK
  <2>1. <<>> \in Seq(Token) /\ Len(<<>>) = 0 OBVIOUS
  <2>2. \A r \in Requests : hist[r] = <<>> /\ held[r] = 0 BY DEF PoolInit
  <2>3. ASSUME NEW r \in Requests PROVE hist[r] \in Seq(Token) /\ Len(hist[r]) <= held[r]
    <3>1. hist[r] = <<>> /\ held[r] = 0 BY <2>2
    <3>2. Len(hist[r]) = 0 BY <3>1
    <3> QED BY <2>1, <3>1, <3>2
  <2>4. hist \in [Requests -> Seq(Token)] BY <2>1 DEF PoolInit
  <2>5. content \in [Layer -> [Slot -> Token \cup {Unwritten}]] BY DEF PoolInit
  <2>6. table \in [Rows -> [1..MaxContext -> Slot]] BY <1>3 DEF PoolInit
  <2>7. held \in [Requests -> 0..MaxContext] BY SizeType DEF PoolInit
  <2> QED BY <2>3, <2>4, <2>5, <2>6, <2>7 DEF PoolInit, PoolTypeOK
<1>5. RowsApart /\ Layout /\ Shared BY <1>1 DEF RowsApart, Layout, Shared
<1>6. FreeApart /\ NonePagesLost BY <1>2 DEF FreeApart, NonePagesLost, PoolInit
<1>7. PassInv BY DEF PassInv, PoolInit
<1>8. FreePagesUnreadable
  BY DEF FreePagesUnreadable, SlotsOf, PoolInit
<1>9. CommittedEverywhere BY <1>1 DEF CommittedEverywhere
<1>10. AnsweredCausally BY DEF AnsweredCausally, PoolInit
<1> QED BY <1>4, <1>5, <1>6, <1>7, <1>8, <1>9, <1>10 DEF PoolInv

LEMMA FreeGroupBeginStep ==
  ASSUME PoolInv, FreeGroupBegin
  PROVE  PoolInv'
<1> USE DEF PoolInv
<1>1. /\ content' = content /\ usable' = usable /\ freePages' = freePages /\ deferred' = deferred
      /\ UNCHANGED reqVars /\ pass' = None /\ seen' = <<>> /\ grouping' = TRUE
  BY DEF FreeGroupBegin, layerVars
<1>2. /\ Running' = Running /\ OwnedPages' = OwnedPages
      /\ \A r, p : Entry(r, p)' = Entry(r, p)
      /\ RowsApart' /\ Layout' /\ Shared'
  BY <1>1, SameRequests
<1>3. table' = table /\ rowOf' = rowOf /\ status' = status /\ held' = held /\ hist' = hist
  BY <1>1 DEF reqVars
<1>4. PoolTypeOK' BY <1>1, <1>3 DEF PoolTypeOK
<1>5. Pending' = Pending BY <1>1 DEF Pending
<1>6. FreeApart' /\ NonePagesLost' BY <1>1, <1>2, <1>5 DEF FreeApart, NonePagesLost
<1>7. PassInv' /\ AnsweredCausally' BY <1>1 DEF PassInv, AnsweredCausally
<1>8. FreePagesUnreadable' BY <1>1 DEF FreePagesUnreadable, SlotsOf
<1>9. CommittedEverywhere' BY <1>1, <1>2, <1>3 DEF CommittedEverywhere
<1> QED BY <1>2, <1>4, <1>6, <1>7, <1>8, <1>9

(* The patched free.  The pages of F become unreadable in every layer and  *)
(* allocatable, or stay where they are; no other slot changes.             *)
LEMMA FreeNowEffect ==
  ASSUME PoolTypeOK, NEW F, FreeNow(F), NEW P, P = {PageOf(s) : s \in F}, P \subseteq Page
  PROVE  /\ content' \in [Layer -> [Slot -> Token \cup {Unwritten}]]
         /\ \A l \in Layer, s \in Slot :
              /\ content'[l][s] \in {content[l][s], Unwritten}
              /\ PageOf(s) \notin P => content'[l][s] = content[l][s]
         /\ \/ freePages' = freePages
            \/ /\ freePages' = freePages \cup P
               /\ \A l \in Layer, s \in Slot : PageOf(s) \in P => content'[l][s] = Unwritten
         /\ (\A l \in Layer : usable[l]) => freePages' = freePages \cup P
         /\ FreePagesUnreadable => FreePagesUnreadable'
<1>1. /\ content' = [l \in Layer |->
           IF l \in Reached THEN Dropped(content[l], SlotsOf(P), Unwritten) ELSE content[l]]
      /\ freePages' = IF Reached = Layer THEN freePages \cup P ELSE freePages
  BY DEF FreeNow
<1>2. content \in [Layer -> [Slot -> Token \cup {Unwritten}]] BY DEF PoolTypeOK
<1>3. ASSUME NEW l \in Layer
      PROVE  /\ content'[l] \in [Slot -> Token \cup {Unwritten}]
             /\ \A s \in Slot :
                  content'[l][s] = IF l \in Reached /\ PageOf(s) \in P THEN Unwritten ELSE content[l][s]
  <2>1. DOMAIN content[l] = Slot BY <1>2
  <2>2. CASE l \in Reached
    BY <1>1, <1>2, <2>1, <2>2 DEF Dropped, SlotsOf
  <2>3. CASE l \notin Reached BY <1>1, <1>2, <2>3
  <2> QED BY <2>2, <2>3
<1>4. content' \in [Layer -> [Slot -> Token \cup {Unwritten}]]
  BY <1>1, <1>3
<1>5. ASSUME \A l \in Layer : usable[l] PROVE Reached = Layer
  BY <1>5, SizeType DEF Reached, Layer
<1>6. ASSUME FreePagesUnreadable PROVE FreePagesUnreadable'
  BY <1>1, <1>3, <1>6 DEF FreePagesUnreadable, SlotsOf
<1> QED BY <1>1, <1>3, <1>4, <1>5, <1>6

LEMMA FreeGroupEndStep ==
  ASSUME PoolInv, FreeGroupEnd
  PROVE  PoolInv'
<1> USE DEF PoolInv
<1>1. /\ usable' = usable /\ deferred' = {} /\ grouping' = FALSE
      /\ UNCHANGED reqVars /\ pass' = None /\ seen' = <<>>
      /\ IF deferred = {} THEN content' = content /\ freePages' = freePages ELSE FreeNow(deferred)
  BY DEF FreeGroupEnd
<1>2. /\ Running' = Running /\ OwnedPages' = OwnedPages
      /\ \A r, p : Entry(r, p)' = Entry(r, p)
      /\ RowsApart' /\ Layout' /\ Shared'
  BY <1>1, SameRequests
<1>3. table' = table /\ rowOf' = rowOf /\ status' = status /\ held' = held /\ hist' = hist
  BY <1>1 DEF reqVars
<1>4. Pending' = {} BY <1>1 DEF Pending
<1>5. PassInv' /\ AnsweredCausally' BY <1>1 DEF PassInv, AnsweredCausally
<1>6. CASE deferred = {}
  <2>1. content' = content /\ freePages' = freePages /\ Pending = {} BY <1>1, <1>6 DEF Pending
  <2>2. PoolTypeOK' BY <1>1, <1>3, <2>1 DEF PoolTypeOK
  <2>3. FreeApart' /\ NonePagesLost' BY <1>1, <1>2, <1>4, <2>1 DEF FreeApart, NonePagesLost
  <2>4. FreePagesUnreadable' BY <2>1 DEF FreePagesUnreadable, SlotsOf
  <2>5. CommittedEverywhere' BY <1>1, <1>2, <1>3, <2>1 DEF CommittedEverywhere
  <2> QED BY <1>2, <1>5, <2>2, <2>3, <2>4, <2>5
<1>7. CASE deferred # {}
  <2>1. /\ content' \in [Layer -> [Slot -> Token \cup {Unwritten}]]
        /\ \A l \in Layer, s \in Slot : PageOf(s) \notin Pending => content'[l][s] = content[l][s]
        /\ freePages' = freePages \/ freePages' = freePages \cup Pending
        /\ (\A l \in Layer : usable[l]) => freePages' = freePages \cup Pending
        /\ FreePagesUnreadable'
    <3>1. Pending = {PageOf(s) : s \in deferred} /\ Pending \subseteq Page BY DEF Pending, FreeApart
    <3>2. FreeNow(deferred) BY <1>1, <1>7
    <3> QED BY <3>1, <3>2, FreeNowEffect
  <2>2. PoolTypeOK'
    BY <1>1, <1>3, <2>1 DEF PoolTypeOK, FreeApart
  <2>3. FreeApart' /\ NonePagesLost' BY <1>1, <1>2, <1>4, <2>1 DEF FreeApart, NonePagesLost
  <2>4. CommittedEverywhere'
    <3> SUFFICES ASSUME NEW l \in Layer, usable[l], NEW r \in Running, NEW p \in 1..Len(hist[r])
                 PROVE  content'[l][Entry(r, p)] = hist[r][p]
      BY <1>1, <1>2, <1>3 DEF CommittedEverywhere
    <3>1. p \in 1..held[r] /\ Entry(r, p) \in Slot BY HeldEntry
    <3>2. PageOf(Entry(r, p)) \notin Pending BY <3>1, OwnedApart DEF PageAt
    <3> QED BY <2>1, <3>1, <3>2 DEF CommittedEverywhere
  <2> QED BY <1>2, <1>5, <2>1, <2>2, <2>3, <2>4
<1> QED BY <1>6, <1>7

LEMMA ReleaseStep ==
  ASSUME PoolInv, NEW r \in Requests, Release(r)
  PROVE  PoolInv'
<1> USE DEF PoolInv
<1> DEFINE others == UNION {PagesOf(x) : x \in Running \ {r}}
           F == {s \in Owned(r) : PageOf(s) \notin others}
           P == {PageOf(s) : s \in F}
<1>1. /\ r \in Running /\ Free(F)
      /\ status' = [status EXCEPT ![r] = "done"] /\ rowOf' = [rowOf EXCEPT ![r] = None]
      /\ held' = [held EXCEPT ![r] = 0] /\ hist' = [hist EXCEPT ![r] = <<>>]
      /\ usable' = usable /\ table' = table /\ pass' = None /\ seen' = <<>>
  BY DEF Release
<1>2. Running' = Running \ {r} BY <1>1 DEF Running, PoolTypeOK
<1>3. \A x \in Running' : /\ x \in Running /\ x # r /\ rowOf'[x] = rowOf[x] /\ held'[x] = held[x]
                          /\ hist'[x] = hist[x]
                          /\ \A p : Entry(x, p)' = Entry(x, p) /\ PageAt(x, p)' = PageAt(x, p)
  BY <1>1, <1>2 DEF PoolTypeOK, Running, Entry, PageAt
<1>4. RowsApart' /\ Layout' /\ Shared'
  <2>1. RowsApart' BY <1>3 DEF RowsApart
  <2>2. Layout' BY <1>3 DEF Layout
  <2>3. Shared' BY <1>3 DEF Shared
  <2> QED BY <2>1, <2>2, <2>3
<1>5. OwnedPages' = others
  <2>1. \A x \in Running' : PagesOf(x)' = PagesOf(x) BY <1>3 DEF PagesOf, Owned
  <2> QED BY <1>2, <2>1 DEF OwnedPages
<1>6. OwnedPages = others \cup PagesOf(r) BY <1>1 DEF OwnedPages
<1>7. /\ P = PagesOf(r) \ others /\ F \subseteq Slot /\ P \subseteq Page
      /\ OwnedPages = OwnedPages' \cup P /\ P \cap OwnedPages' = {}
  <2>1. Owned(r) \subseteq Slot BY <1>1, EntryType, SizeType DEF Owned
  <2>2. PagesOf(r) \subseteq Page BY <1>1 DEF Layout, PagesOf, Owned, PageAt
  <2>3. P = PagesOf(r) \ others BY DEF PagesOf
  <2> QED BY <1>5, <1>6, <2>1, <2>2, <2>3
<1>8. PassInv' /\ AnsweredCausally' BY <1>1 DEF PassInv, AnsweredCausally
<1>9. /\ status' \in [Requests -> {"waiting", "running", "done"}]
      /\ rowOf' \in [Requests -> Rows \cup {None}] /\ held' \in [Requests -> 0..MaxContext]
      /\ hist' \in [Requests -> Seq(Token)] /\ \A x \in Requests : Len(hist'[x]) <= held'[x]
  <2>1. <<>> \in Seq(Token) /\ Len(<<>>) = 0 OBVIOUS
  <2>2. ASSUME NEW x \in Requests PROVE hist'[x] \in Seq(Token) /\ Len(hist'[x]) <= held'[x]
    <3>1. CASE x = r
      <4>1. hist'[x] = <<>> /\ held'[x] = 0 BY <1>1, <3>1 DEF PoolTypeOK
      <4>2. Len(hist'[x]) = 0 BY <4>1
      <4> QED BY <2>1, <4>1, <4>2
    <3>2. CASE x # r BY <1>1, <3>2 DEF PoolTypeOK
    <3> QED BY <3>1, <3>2
  <2>3. status' \in [Requests -> {"waiting", "running", "done"}] BY <1>1 DEF PoolTypeOK
  <2>4. rowOf' \in [Requests -> Rows \cup {None}] BY <1>1 DEF PoolTypeOK
  <2>5. held' \in [Requests -> 0..MaxContext] BY <1>1, SizeType DEF PoolTypeOK
  <2>6. hist' \in [Requests -> Seq(Token)] BY <1>1, <2>1 DEF PoolTypeOK
  <2> QED BY <2>2, <2>3, <2>4, <2>5, <2>6
<1> HIDE DEF others, F
<1>10. ASSUME \A l \in Layer, s \in Slot : PageOf(s) \notin P => content'[l][s] = content[l][s]
       PROVE  CommittedEverywhere'
  <2> SUFFICES ASSUME NEW l \in Layer, usable[l], NEW x \in Running', NEW p \in 1..Len(hist[x])
               PROVE  content'[l][Entry(x, p)] = hist[x][p]
    BY <1>1, <1>3 DEF CommittedEverywhere
  <2>1. x \in Running /\ p \in 1..held[x] /\ Entry(x, p) \in Slot BY <1>3, HeldEntry
  <2>2. PageOf(Entry(x, p)) \in OwnedPages'
    BY <1>3, <2>1 DEF OwnedPages, PagesOf, Owned
  <2> QED BY <1>7, <1>10, <2>1, <2>2 DEF CommittedEverywhere
<1> HIDE DEF P
<1>11. CASE F = {}
  <2>1. content' = content /\ freePages' = freePages /\ grouping' = grouping /\ deferred' = deferred
    BY <1>1, <1>11 DEF Free, allocVars
  <2>2. P = {} /\ OwnedPages' = OwnedPages BY <1>7, <1>11 DEF P
  <2>3. Pending' = Pending BY <2>1 DEF Pending
  <2>4. FreeApart' /\ NonePagesLost' BY <1>1, <2>1, <2>2, <2>3 DEF FreeApart, NonePagesLost
  <2>5. PoolTypeOK' BY <1>1, <1>9, <2>1 DEF PoolTypeOK
  <2>6. FreePagesUnreadable' BY <2>1 DEF FreePagesUnreadable, SlotsOf
  <2>7. CommittedEverywhere' BY <1>10, <2>1
  <2> QED BY <1>4, <1>8, <2>4, <2>5, <2>6, <2>7
<1>12. CASE F # {} /\ grouping
  <2>1. content' = content /\ freePages' = freePages /\ grouping' = grouping
        /\ deferred' = deferred \cup F
    BY <1>1, <1>12 DEF Free
  <2>2. Pending' = Pending \cup P BY <2>1 DEF Pending, P
  <2>3. P \cap freePages = {} BY <1>7 DEF FreeApart
  <2>4. FreeApart' /\ NonePagesLost' BY <1>1, <1>7, <1>12, <2>1, <2>2, <2>3 DEF FreeApart, NonePagesLost
  <2>5. PoolTypeOK' BY <1>1, <1>7, <1>9, <2>1 DEF PoolTypeOK
  <2>6. FreePagesUnreadable' BY <2>1 DEF FreePagesUnreadable, SlotsOf
  <2>7. CommittedEverywhere' BY <1>10, <2>1
  <2> QED BY <1>4, <1>8, <2>4, <2>5, <2>6, <2>7
<1>13. CASE F # {} /\ ~grouping
  <2>1. FreeNow(F) /\ grouping' = grouping /\ deferred' = deferred /\ deferred = {}
    BY <1>1, <1>13 DEF Free, FreeApart
  <2>2. /\ content' \in [Layer -> [Slot -> Token \cup {Unwritten}]]
        /\ \A l \in Layer, s \in Slot : PageOf(s) \notin P => content'[l][s] = content[l][s]
        /\ freePages' = freePages \/ freePages' = freePages \cup P
        /\ (\A l \in Layer : usable[l]) => freePages' = freePages \cup P
        /\ FreePagesUnreadable'
    <3>1. P = {PageOf(s) : s \in F} /\ P \subseteq Page BY <1>7 DEF P
    <3>2. /\ \A l \in Layer, s \in Slot : PageOf(s) \notin P => content'[l][s] = content[l][s]
          /\ content' \in [Layer -> [Slot -> Token \cup {Unwritten}]]
      BY <2>1, <3>1, FreeNowEffect
    <3>3. /\ freePages' = freePages \/ freePages' = freePages \cup P
          /\ (\A l \in Layer : usable[l]) => freePages' = freePages \cup P
          /\ FreePagesUnreadable'
      BY <2>1, <3>1, FreeNowEffect
    <3> QED BY <3>2, <3>3
  <2>3. Pending' = {} /\ Pending = {} BY <2>1 DEF Pending
  <2>4. FreeApart' /\ NonePagesLost' BY <1>1, <1>7, <2>1, <2>2, <2>3 DEF FreeApart, NonePagesLost
  <2>5. PoolTypeOK' BY <1>1, <1>7, <1>9, <2>1, <2>2 DEF PoolTypeOK
  <2>6. CommittedEverywhere' BY <1>10, <2>2
  <2> QED BY <1>4, <1>8, <2>2, <2>4, <2>5, <2>6
<1> QED BY <1>11, <1>12, <1>13

--------------------------------------------------------------------------------
(* The pass in progress.                                                   *)

LEMMA BatchFacts ==
  ASSUME PoolTypeOK, RowsApart, PassShape
  PROVE  /\ Len(Batch) \in Nat \ {0} /\ Ext \in [1..Len(Batch) -> Nat]
         /\ \A i \in 1..Len(Batch) :
              /\ Batch[i].req \in Running /\ Batch[i].req \in Requests
              /\ Prefix[i] = Len(hist[Batch[i].req]) /\ Prefix[i] \in Nat
              /\ Ext[i] = Batch[i].ext /\ Ext[i] \in Nat \ {0}
              /\ \A j \in 1..Ext[i] :
                   /\ Prefix[i] + j \in 1..held[Batch[i].req]
                   /\ Entry(Batch[i].req, Prefix[i] + j) \in Slot
                   /\ <<Batch[i].req, Prefix[i] + j>> \in Token
         /\ \A i, k \in 1..Len(Batch) : i # k => Batch[i].req # Batch[k].req
<1>1. Len(Batch) \in Nat \ {0} /\ \A i \in 1..Len(Batch) : Batch[i] \in BatchOf
  BY DEF PassShape
<1>2. \A i \in 1..Len(Batch) : Batch[i].ext \in Nat \ {0}
  BY <1>1, PoolAssumption DEF BatchOf
<1>3. \A i \in 1..Len(Batch) : Batch[i].req \in Running /\ Batch[i].req \in Requests
  BY DEF PassShape, Running
<1>4. ASSUME NEW i \in 1..Len(Batch)
      PROVE  /\ Prefix[i] = Len(hist[Batch[i].req]) /\ Prefix[i] \in Nat
             /\ Ext[i] = Batch[i].ext /\ Ext[i] \in Nat \ {0}
             /\ \A j \in 1..Ext[i] :
                   /\ Prefix[i] + j \in 1..held[Batch[i].req]
                   /\ Entry(Batch[i].req, Prefix[i] + j) \in Slot
                   /\ <<Batch[i].req, Prefix[i] + j>> \in Token
  <2>1. Prefix[i] = Len(hist[Batch[i].req]) /\ Ext[i] = Batch[i].ext
    BY DEF Prefix, Ext
  <2>2. Prefix[i] \in Nat /\ held[Batch[i].req] \in Nat
    BY <1>3, <2>1, EntryType, SizeType
  <2>3. Prefix[i] + Ext[i] <= held[Batch[i].req]
    BY <2>1 DEF PassShape, Needed
  <2>4. ASSUME NEW j \in 1..Ext[i] PROVE Prefix[i] + j \in 1..held[Batch[i].req]
    BY <1>2, <2>1, <2>2, <2>3
  <2> QED BY <1>2, <1>3, <2>1, <2>2, <2>4, HeldEntry DEF Token
<1>5. Ext \in [1..Len(Batch) -> Nat] BY <1>2 DEF Ext
<1>6. ASSUME NEW i \in 1..Len(Batch), NEW k \in 1..Len(Batch), Batch[i].req = Batch[k].req
      PROVE  i = k
  <2> DEFINE q == [m \in 1..Len(Batch) |-> Batch[m].req]
  <2>1. Len(Batch) \in Nat /\ DOMAIN q = 1..Len(Batch) BY <1>1
  <2>2. [m \in 1..Len(Batch) |-> q[m]] = q OBVIOUS
  <2>3. Distinct(q) BY DEF PassShape
  <2>4. q[i] = q[k] BY <1>6
  <2> HIDE DEF q
  <2> QED BY <2>1, <2>2, <2>3, <2>4, DistinctEntries
<1> QED BY <1>1, <1>3, <1>4, <1>5, <1>6

LEMMA NewTokenFacts ==
  ASSUME PoolTypeOK, RowsApart, PassShape, NEW i \in 1..Len(Batch), NEW j \in 1..Ext[i]
  PROVE  /\ Batch[i].req \in Running /\ Prefix[i] + j \in 1..held[Batch[i].req]
         /\ Prefix[i] = Len(hist[Batch[i].req]) /\ Prefix[i] \in Nat /\ j \in Nat \ {0}
         /\ NewSlot(i, j) = Entry(Batch[i].req, Prefix[i] + j) /\ NewSlot(i, j) \in Slot
         /\ PageOf(NewSlot(i, j)) = PageAt(Batch[i].req, Prefix[i] + j)
         /\ NewToken(i, j) \in Token
<1>1. Ext[i] \in Nat BY BatchFacts
<1>2. j \in Nat \ {0} BY <1>1
<1>3. /\ Prefix[i] + j \in 1..held[Batch[i].req]
      /\ Entry(Batch[i].req, Prefix[i] + j) \in Slot
      /\ <<Batch[i].req, Prefix[i] + j>> \in Token
  BY BatchFacts
<1> QED BY <1>2, <1>3, BatchFacts DEF NewSlot, NewToken, PageAt

(* New tokens lie in slots of their own, apart from all that is committed. *)
LEMMA NewApart ==
  ASSUME PoolTypeOK, RowsApart, Layout, Shared, PassShape,
         NEW i \in 1..Len(Batch), NEW j \in 1..Ext[i]
  PROVE  /\ \A k \in 1..Len(Batch) : \A z \in 1..Ext[k] :
              NewSlot(i, j) = NewSlot(k, z) => NewToken(i, j) = NewToken(k, z)
         /\ \A r \in Running : \A p \in 1..Len(hist[r]) : Entry(r, p) # NewSlot(i, j)
<1>1. /\ Batch[i].req \in Running /\ Prefix[i] + j \in 1..held[Batch[i].req]
      /\ Prefix[i] = Len(hist[Batch[i].req]) /\ Prefix[i] \in Nat /\ j \in Nat \ {0}
      /\ NewSlot(i, j) = Entry(Batch[i].req, Prefix[i] + j)
  BY NewTokenFacts
<1>2. ASSUME NEW r \in Running, NEW p \in 1..held[r], Entry(r, p) = NewSlot(i, j)
      PROVE  p = Prefix[i] + j /\ r = Batch[i].req
  <2>1. /\ p = Prefix[i] + j
        /\ Batch[i].req # r => Prefix[i] + j <= Len(hist[Batch[i].req])
    BY <1>1, <1>2, EntriesApart
  <2> QED BY <1>1, <2>1
<1>3. ASSUME NEW k \in 1..Len(Batch), NEW z \in 1..Ext[k], NewSlot(i, j) = NewSlot(k, z)
      PROVE  NewToken(i, j) = NewToken(k, z)
  <2>1. /\ Batch[k].req \in Running /\ Prefix[k] + z \in 1..held[Batch[k].req]
        /\ NewSlot(k, z) = Entry(Batch[k].req, Prefix[k] + z)
    BY NewTokenFacts
  <2> QED BY <1>2, <1>3, <2>1 DEF NewToken
<1>4. ASSUME NEW r \in Running, NEW p \in 1..Len(hist[r]), Entry(r, p) = NewSlot(i, j)
      PROVE  FALSE
  <2>1. p \in 1..held[r] BY HeldEntry
  <2>2. p = Prefix[i] + j /\ r = Batch[i].req BY <1>2, <1>4, <2>1
  <2> QED BY <1>1, <1>4, <2>2
<1> QED BY <1>3, <1>4

(* The lanes of a write are the batch's new tokens, each at its place.     *)
IsNew(lane, i, j) == lane.loc = NewSlot(i, j) /\ lane.tok = NewToken(i, j)

LEMMA LanesCover ==
  ASSUME PoolTypeOK, RowsApart, PassShape
  PROVE  /\ \A m \in 1..Len(Lanes) : \E i \in 1..Len(Batch) : \E j \in 1..Ext[i] : IsNew(Lanes[m], i, j)
         /\ \A i \in 1..Len(Batch) : \A j \in 1..Ext[i] : \E m \in 1..Len(Lanes) : IsNew(Lanes[m], i, j)
<1> DEFINE n == Len(Batch)
           off == Offsets(Ext)
           N == off[n]
           of(m) == CHOOSE i \in 1..n : m - off[i - 1] \in 1..Ext[i]
           at(m) == m - off[of(m) - 1]
<1>1. n \in Nat /\ Ext \in [1..n -> Nat] BY BatchFacts
<1>2. Stretches(n, Ext) BY <1>1, OffsetsCut
<1>3. Lanes = [m \in 1..N |-> NewLane(of(m), at(m))] BY DEF Lanes
<1>4. \A i, j : IsNew(NewLane(i, j), i, j) BY DEF NewLane, IsNew, NewSlot, NewToken
<1> HIDE DEF n, off
<1>5. N \in Nat
  <2>1. n \in 0..n BY <1>1
  <2> QED BY <1>2, <2>1 DEF Stretches, off
<1> HIDE DEF N
<1>6. ASSUME NEW m \in 1..N PROVE of(m) \in 1..n /\ at(m) \in 1..Ext[of(m)]
  <2>1. \E i \in 1..n : m - off[i - 1] \in 1..Ext[i] BY <1>2 DEF Stretches, off, N
  <2> QED BY <2>1
<1> HIDE DEF of
<1>7. Len(Lanes) = N
  <2>1. Lanes \in [1..N -> {Lanes[m] : m \in 1..N}] BY <1>3
  <2> QED BY <1>5, <2>1, FunctionIsSeq
<1>8. ASSUME NEW m \in 1..N PROVE IsNew(Lanes[m], of(m), at(m))
  <2>1. Lanes[m] = NewLane(of(m), at(m)) BY <1>3
  <2> QED BY <1>4, <2>1
<1>9. ASSUME NEW i \in 1..n, NEW j \in 1..Ext[i] PROVE \E m \in 1..N : IsNew(Lanes[m], i, j)
  <2> DEFINE m == off[i - 1] + j
  <2>1. m \in 1..N BY <1>2 DEF Stretches, off, N
  <2>2. of(m) \in 1..n /\ at(m) \in 1..Ext[of(m)] BY <1>6, <2>1
  <2>3. off[of(m) - 1] \in Nat /\ Ext[of(m)] \in Nat BY <1>1, <1>2, <2>2 DEF Stretches, off
  <2> HIDE DEF m
  <2>4. off[of(m) - 1] + at(m) = m
    <3>1. m \in Nat BY <1>5, <2>1
    <3> QED BY <2>3, <3>1
  <2>5. of(m) = i /\ at(m) = j
    <3>1. off[i - 1] + j = off[of(m) - 1] + at(m) BY <2>4 DEF m
    <3> HIDE DEF at
    <3> QED BY <1>2, <2>2, <3>1 DEF Stretches, off
  <2> QED BY <1>8, <2>1, <2>5
<1> HIDE DEF at
<1> QED BY <1>6, <1>7, <1>8, <1>9 DEF n

(* A layer that breaks keeps nothing; a pass that raises changes no layer. *)
LEMMA LayerBreaksStep ==
  ASSUME PoolInv, LayerBreaks
  PROVE  PoolInv'
<1> USE DEF PoolInv
<1>1. /\ usable' = [usable EXCEPT ![pass.layer] = FALSE]
      /\ content' = [content EXCEPT ![pass.layer] = [s \in Slot |-> Unwritten]]
      /\ UNCHANGED allocVars /\ UNCHANGED reqVars /\ pass' = None /\ seen' = <<>>
      /\ pass.layer \in Layer
  BY DEF LayerBreaks, PassInv, PassShape
<1>2. /\ Running' = Running /\ OwnedPages' = OwnedPages
      /\ \A r, p : Entry(r, p)' = Entry(r, p)
      /\ RowsApart' /\ Layout' /\ Shared'
  BY <1>1, SameRequests
<1>3. /\ table' = table /\ rowOf' = rowOf /\ status' = status /\ held' = held /\ hist' = hist
      /\ freePages' = freePages /\ grouping' = grouping /\ deferred' = deferred
  BY <1>1 DEF reqVars, allocVars
<1>4. /\ content' \in [Layer -> [Slot -> Token \cup {Unwritten}]]
      /\ \A l \in Layer : l # pass.layer => content'[l] = content[l]
      /\ \A s \in Slot : content'[pass.layer][s] = Unwritten
  BY <1>1 DEF PoolTypeOK
<1>5. /\ usable' \in [Layer -> BOOLEAN] /\ ~usable'[pass.layer]
      /\ \A l \in Layer : l # pass.layer => usable'[l] = usable[l]
  BY <1>1 DEF PoolTypeOK
<1>6. PoolTypeOK' BY <1>3, <1>4, <1>5 DEF PoolTypeOK
<1>7. Pending' = Pending BY <1>3 DEF Pending
<1>8. FreeApart' BY <1>2, <1>3, <1>7 DEF FreeApart
<1>9. NonePagesLost' BY <1>1, <1>5 DEF NonePagesLost
<1>10. PassInv' /\ AnsweredCausally' BY <1>1 DEF PassInv, AnsweredCausally
<1>11. FreePagesUnreadable' BY <1>3, <1>4 DEF FreePagesUnreadable, SlotsOf
<1>12. CommittedEverywhere' BY <1>2, <1>3, <1>4, <1>5 DEF CommittedEverywhere
<1> QED BY <1>2, <1>6, <1>8, <1>9, <1>10, <1>11, <1>12

LEMMA PassRaisesStep ==
  ASSUME PoolInv, PassRaises
  PROVE  PoolInv'
<1> USE DEF PoolInv
<1>1. /\ UNCHANGED layerVars /\ UNCHANGED allocVars /\ UNCHANGED reqVars
      /\ pass' = None /\ seen' = <<>>
  BY DEF PassRaises
<1>2. /\ Running' = Running /\ OwnedPages' = OwnedPages
      /\ \A r, p : Entry(r, p)' = Entry(r, p)
      /\ RowsApart' /\ Layout' /\ Shared'
  BY <1>1, SameRequests
<1>3. /\ table' = table /\ rowOf' = rowOf /\ status' = status /\ held' = held /\ hist' = hist
      /\ freePages' = freePages /\ grouping' = grouping /\ deferred' = deferred
      /\ content' = content /\ usable' = usable
  BY <1>1 DEF layerVars, reqVars, allocVars
<1>4. PoolTypeOK' BY <1>3 DEF PoolTypeOK
<1>5. Pending' = Pending BY <1>3 DEF Pending
<1>6. FreeApart' /\ NonePagesLost' BY <1>2, <1>3, <1>5 DEF FreeApart, NonePagesLost
<1>7. PassInv' /\ AnsweredCausally' BY <1>1 DEF PassInv, AnsweredCausally
<1>8. FreePagesUnreadable' BY <1>3 DEF FreePagesUnreadable, SlotsOf
<1>9. CommittedEverywhere' BY <1>2, <1>3 DEF CommittedEverywhere
<1> QED BY <1>2, <1>4, <1>6, <1>7, <1>8, <1>9

LEMMA LayerWritesStep ==
  ASSUME PoolInv, LayerWrites
  PROVE  PoolInv'
<1> USE DEF PoolInv
<1>1. /\ usable' = usable /\ UNCHANGED allocVars /\ UNCHANGED reqVars /\ seen' = <<>>
      /\ content' = [content EXCEPT ![pass.layer] = Stored(@, Lanes)]
      /\ pass' = [pass EXCEPT !.stage = "attend"]
      /\ pass # None /\ pass.stage = "write" /\ PassShape /\ PassWrote
  BY DEF LayerWrites, PassInv
<1>2. /\ Running' = Running /\ OwnedPages' = OwnedPages
      /\ \A r, p : Entry(r, p)' = Entry(r, p)
      /\ RowsApart' /\ Layout' /\ Shared'
  BY <1>1, SameRequests
<1>3. /\ table' = table /\ rowOf' = rowOf /\ status' = status /\ held' = held /\ hist' = hist
      /\ freePages' = freePages /\ grouping' = grouping /\ deferred' = deferred
  BY <1>1 DEF reqVars, allocVars
<1> DEFINE c == pass.layer
<1>4. c \in Layer /\ content[c] \in [Slot -> Token \cup {Unwritten}]
  BY <1>1 DEF PassShape, PoolTypeOK
<1>5. /\ content'[c] = Stored(content[c], Lanes)
      /\ \A l \in Layer : l # c => content'[l] = content[l]
  BY <1>1, <1>4 DEF PoolTypeOK
<1>6. ASSUME NEW i \in 1..Len(Batch), NEW j \in 1..Ext[i]
      PROVE  content'[c][NewSlot(i, j)] = NewToken(i, j)
  <2>1. NewSlot(i, j) \in DOMAIN content[c] BY <1>1, <1>4, NewTokenFacts
  <2>2. \E m \in 1..Len(Lanes) : Lanes[m].loc = NewSlot(i, j) BY <1>1, LanesCover DEF IsNew
  <2>3. PICK m \in 1..Len(Lanes) : /\ Lanes[m].loc = NewSlot(i, j)
                                   /\ Stored(content[c], Lanes)[NewSlot(i, j)] = Lanes[m].tok
    BY <2>1, <2>2, StoredAt
  <2>4. PICK k \in 1..Len(Batch) : \E z \in 1..Ext[k] : IsNew(Lanes[m], k, z)
    BY <1>1, LanesCover
  <2>5. PICK z \in 1..Ext[k] : Lanes[m].loc = NewSlot(k, z) /\ Lanes[m].tok = NewToken(k, z)
    BY <2>4 DEF IsNew
  <2>6. NewSlot(i, j) = NewSlot(k, z) BY <2>3, <2>5
  <2>7. \A n \in 1..Len(Batch) : \A y \in 1..Ext[n] :
          NewSlot(i, j) = NewSlot(n, y) => NewToken(i, j) = NewToken(n, y)
    BY <1>1, NewApart
  <2>8. NewToken(i, j) = NewToken(k, z) BY <2>6, <2>7
  <2> QED BY <1>5, <2>3, <2>5, <2>8
<1>7. ASSUME NEW s \in Slot, \A i \in 1..Len(Batch) : \A j \in 1..Ext[i] : s # NewSlot(i, j)
      PROVE  content'[c][s] = content[c][s]
  <2>1. \A m \in 1..Len(Lanes) : Lanes[m].loc # s BY <1>1, <1>7, LanesCover DEF IsNew
  <2>2. s \in DOMAIN content[c] BY <1>4
  <2> QED BY <1>5, <2>1, <2>2, StoredAt
<1>8. content' \in [Layer -> [Slot -> Token \cup {Unwritten}]]
  <2>1. content'[c] \in [Slot -> Token \cup {Unwritten}]
    <3>1. DOMAIN content'[c] = Slot /\ content'[c] = [s \in Slot |-> content'[c][s]]
      BY <1>4, <1>5 DEF Stored
    <3>2. ASSUME NEW s \in Slot PROVE content'[c][s] \in Token \cup {Unwritten}
      <4>1. CASE \E i \in 1..Len(Batch) : \E j \in 1..Ext[i] : s = NewSlot(i, j)
        BY <1>1, <1>6, <4>1, NewTokenFacts
      <4>2. CASE ~\E i \in 1..Len(Batch) : \E j \in 1..Ext[i] : s = NewSlot(i, j)
        BY <1>4, <1>7, <4>2
      <4> QED BY <4>1, <4>2
    <3> QED BY <3>1, <3>2
  <2> QED BY <1>1, <2>1 DEF PoolTypeOK
<1>9. PoolTypeOK' BY <1>1, <1>3, <1>8 DEF PoolTypeOK
<1>10. Pending' = Pending BY <1>3 DEF Pending
<1>11. FreeApart' /\ NonePagesLost' BY <1>1, <1>2, <1>3, <1>10 DEF FreeApart, NonePagesLost
<1>12. FreePagesUnreadable'
  <2> SUFFICES ASSUME NEW l \in Layer, NEW s \in SlotsOf(freePages) PROVE content'[l][s] = Unwritten
    BY <1>3 DEF FreePagesUnreadable, SlotsOf
  <2>1. content[l][s] = Unwritten /\ s \in Slot BY DEF FreePagesUnreadable, SlotsOf
  <2>2. CASE l # c BY <1>5, <2>1, <2>2
  <2>3. CASE l = c
    <3>1. ASSUME NEW i \in 1..Len(Batch), NEW j \in 1..Ext[i] PROVE s # NewSlot(i, j)
      <4>1. /\ Batch[i].req \in Running /\ Prefix[i] + j \in 1..held[Batch[i].req]
            /\ PageOf(NewSlot(i, j)) = PageAt(Batch[i].req, Prefix[i] + j)
        BY <1>1, NewTokenFacts
      <4>2. PageAt(Batch[i].req, Prefix[i] + j) \notin freePages BY <4>1, OwnedApart
      <4> QED BY <4>1, <4>2 DEF SlotsOf
    <3> QED BY <1>7, <2>1, <2>3, <3>1
  <2> QED BY <2>2, <2>3
<1>13. CommittedEverywhere'
  <2> SUFFICES ASSUME NEW l \in Layer, usable[l], NEW r \in Running, NEW p \in 1..Len(hist[r])
               PROVE  content'[l][Entry(r, p)] = hist[r][p]
    BY <1>1, <1>2, <1>3 DEF CommittedEverywhere
  <2>1. content[l][Entry(r, p)] = hist[r][p] /\ p \in 1..held[r] /\ Entry(r, p) \in Slot
    BY HeldEntry DEF CommittedEverywhere
  <2>2. CASE l # c BY <1>5, <2>1, <2>2
  <2>3. CASE l = c
    <3>1. \A i \in 1..Len(Batch) : \A j \in 1..Ext[i] : Entry(r, p) # NewSlot(i, j)
      BY <1>1, NewApart
    <3> QED BY <1>7, <2>1, <2>3, <3>1
  <2> QED BY <2>2, <2>3
<1>14. PassInv'
  <2>1. /\ Batch' = Batch /\ pass'.mode = pass.mode /\ pass'.layer = c /\ pass'.stage = "attend"
    BY <1>1 DEF Batch
  <2>2. /\ Prefix' = Prefix /\ Ext' = Ext
        /\ \A i, j : NewSlot(i, j)' = NewSlot(i, j) /\ NewToken(i, j)' = NewToken(i, j)
    <3>1. Prefix' = Prefix /\ Ext' = Ext BY <1>3, <2>1 DEF Prefix, Ext
    <3> QED BY <1>2, <2>1, <3>1 DEF NewSlot, NewToken
  <2>3. PassShape' BY <1>1, <1>2, <1>3, <2>1 DEF PassShape, Needed
  <2>4. PassWrote'
    <3> SUFFICES ASSUME NEW l \in Layer, l < c \/ l = c, NEW i \in 1..Len(Batch), NEW j \in 1..Ext[i]
                 PROVE  content'[l][NewSlot(i, j)] = NewToken(i, j)
      BY <1>2, <2>1, <2>2 DEF PassWrote, Written
    <3>1. CASE l = c BY <1>6, <3>1
    <3>2. CASE l # c BY <1>1, <1>5, <3>2 DEF PassWrote, Written
    <3> QED BY <3>1, <3>2
  <2> QED BY <2>3, <2>4 DEF PassInv
<1>15. AnsweredCausally' BY <1>1 DEF AnsweredCausally
<1> QED BY <1>2, <1>9, <1>11, <1>12, <1>13, <1>14, <1>15

--------------------------------------------------------------------------------
(* What a layer's attention is computed from.                              *)

LEMMA QueriesAre ==
  ASSUME PoolTypeOK, RowsApart, PassShape, NEW i \in 1..Len(Batch), NEW j \in 1..Ext[i]
  PROVE  /\ Offsets(Ext)[i - 1] + j - 1 \in DOMAIN Queries
         /\ Queries[Offsets(Ext)[i - 1] + j - 1] = {<<i, Prefix[i] + j>>}
<1> DEFINE n == Len(Batch)
           off == Offsets(Ext)
           q == off[i - 1] + j - 1
<1>1. /\ n \in Nat \ {0} /\ Ext \in [1..n -> Nat] /\ i \in 1..n /\ j \in Nat \ {0}
      /\ \A a \in 1..n : Ext[a] \in Nat \ {0} /\ Prefix[a] \in Nat
  BY BatchFacts, NewTokenFacts
<1>2. Stretches(n, Ext)
  <2> HIDE DEF n
  <2> QED BY <1>1, OffsetsCut
<1> HIDE DEF n, off
<1>3. /\ Len(Ext) = n /\ off[0] = 0 /\ \A a \in 0..n : off[a] \in Nat
      /\ \A a \in 1..n : /\ off[a - 1] \in Nat /\ off[a] = off[a - 1] + Ext[a] /\ Ext[a] <= off[n]
      /\ \A a \in 1..n : \A z \in 1..Ext[a] : off[i - 1] + j = off[a - 1] + z => i = a
      /\ off[i - 1] + j \in 1..off[n]
  BY <1>1, <1>2 DEF Stretches, off
<1>4. /\ q \in Nat /\ q < off[n] /\ q = off[i - 1] + (j - 1) /\ j - 1 \in 0..(Ext[i] - 1)
      /\ \A a \in 1..n : q - off[a - 1] \in 0..(Ext[a] - 1) => a = i
  <2>1. off[n] \in Nat /\ off[i - 1] \in Nat /\ Ext[i] \in Nat /\ j \in 1..Ext[i] BY <1>1, <1>3
  <2>2. q \in Nat /\ q < off[n] /\ q = off[i - 1] + (j - 1) /\ j - 1 \in 0..(Ext[i] - 1)
    <3>1. off[i - 1] + j \in 1..off[n] BY <1>3
    <3> QED BY <2>1, <3>1
  <2>3. ASSUME NEW a \in 1..n, q - off[a - 1] \in 0..(Ext[a] - 1) PROVE a = i
    <3> DEFINE z == (q - off[a - 1]) + 1
    <3>1. off[a - 1] \in Nat /\ Ext[a] \in Nat BY <1>1, <1>3
    <3>2. q \in Nat /\ q = off[i - 1] + (j - 1) /\ j \in Nat BY <1>1, <2>2
    <3> HIDE DEF q
    <3>3. z \in 1..Ext[a] /\ off[i - 1] + j = off[a - 1] + z
      <4> DEFINE b == off[a - 1]
                 c == off[i - 1]
                 e == Ext[a]
      <4>1. b \in Nat /\ c \in Nat /\ e \in Nat /\ q - b \in 0..(e - 1) BY <2>1, <2>3, <3>1
      <4> HIDE DEF b, c, e
      <4>2. q = c + (j - 1) /\ q \in Nat /\ j \in Nat BY <3>2 DEF c
      <4>3. (q - b) + 1 \in 1..e BY <4>1, <4>2
      <4>4. c + j = b + ((q - b) + 1) BY <4>1, <4>2
      <4> QED BY <4>3, <4>4 DEF b, c, e
    <3> HIDE DEF z
    <3> QED BY <1>3, <3>3
  <2> QED BY <2>2, <2>3
<1>5. CASE pass.mode = "decode"
  <2>1. \A a \in 1..n : Ext[a] = 1 BY <1>5, BatchFacts DEF PassShape, n
  <2>2. j = 1 BY <1>1, <2>1
  <2>3. q = i - 1
    <3> DEFINE T == {a \in Nat : a <= n => off[a] = a}
    <3>1. 0 \in T BY <1>3
    <3>2. ASSUME NEW a \in T PROVE a + 1 \in T
      <4> SUFFICES ASSUME a + 1 <= n PROVE off[a + 1] = a + 1 OBVIOUS
      <4>1. a \in Nat /\ a <= n /\ off[a] = a /\ a + 1 \in 1..n /\ (a + 1) - 1 = a BY <1>1
      <4>2. off[a + 1] = off[a] + Ext[a + 1] BY <1>3, <4>1
      <4> QED BY <2>1, <4>1, <4>2
    <3>3. T = Nat
      <4> HIDE DEF T
      <4>1. T \in SUBSET Nat BY DEF T
      <4> QED BY <3>1, <3>2, <4>1, Induction
    <3>4. i - 1 \in Nat /\ i - 1 <= n BY <1>1
    <3>5. i - 1 \in T
      <4> HIDE DEF T
      <4> QED BY <3>3, <3>4
    <3>6. off[i - 1] = i - 1 BY <3>4, <3>5
    <3> QED BY <1>1, <2>2, <3>6
  <2>4. Queries = [y \in 0..(n - 1) |-> {<<y + 1, Prefix[y + 1] + 1>>}]
    BY <1>5 DEF Queries, n
  <2>5. i - 1 \in 0..(n - 1) /\ (i - 1) + 1 = i BY <1>1
  <2>6. i - 1 \in DOMAIN Queries /\ Queries[i - 1] = {<<i, Prefix[i] + j>>}
    BY <2>2, <2>4, <2>5
  <2> QED BY <2>3, <2>6 DEF off
<1>6. CASE pass.mode # "decode"
  <2>1. Queries = [y \in 0..(off[n] - 1) |-> Assigned(Ext, Prefix, y)]
    BY <1>6 DEF Queries, n, off
  <2>2. q \in 0..(off[n] - 1)
    <3>1. off[n] \in Nat BY <1>1, <1>3
    <3> HIDE DEF q
    <3> QED BY <1>4, <3>1
  <2>3. Assigned(Ext, Prefix, q) = {<<i, Prefix[i] + (j - 1) + 1>>}
    <3> DEFINE k == j - 1
    <3>1. q <= off[n]
      <4>1. off[n] \in Nat BY <1>1, <1>3
      <4> HIDE DEF q
      <4> QED BY <1>4, <4>1
    <3>2. n \in Nat /\ k \in 0..(Ext[i] - 1) BY <1>1, <1>4
    <3>3. \A a \in 1..n : Ext[a] \in Nat /\ Prefix[a] \in Nat BY <1>1
    <3>4. q = Offsets(Ext)[i - 1] + k BY DEF off, q
    <3> HIDE DEF q, k
    <3>5. /\ \A a \in 0..n : Offsets(Ext)[a] \in Nat
          /\ q <= Offsets(Ext)[n] /\ Ext[i] <= Offsets(Ext)[n]
          /\ \A a \in 1..n : q - Offsets(Ext)[a - 1] \in 0..(Ext[a] - 1) => a = i
      BY <1>1, <1>3, <1>4, <3>1 DEF off
    <3>6. RowOfQuery(Ext, n, i, k, q) BY <1>1, <1>3, <1>4, <3>2, <3>3, <3>4, <3>5 DEF RowOfQuery
    <3>7. Assigned(Ext, Prefix, q) = {<<i, Prefix[i] + k + 1>>} BY <1>1, <3>6, AssignedIs
    <3> QED BY <3>7 DEF k
  <2>4. Prefix[i] + (j - 1) + 1 = Prefix[i] + j BY <1>1
  <2> HIDE DEF q
  <2>5. q \in DOMAIN Queries /\ Queries[q] = {<<i, Prefix[i] + j>>} BY <2>1, <2>2, <2>3, <2>4
  <2> QED BY <2>5 DEF q, off
<1> QED BY <1>5, <1>6

(* The tokens of a request after its new ones.                             *)
LEMMA ExtendedIs ==
  ASSUME PoolTypeOK, NEW r \in Requests, NEW n \in Nat, Len(hist[r]) + n <= MaxContext
  PROVE  /\ Extended(r, n) \in Seq(Token) /\ Len(Extended(r, n)) = Len(hist[r]) + n
         /\ \A p \in 1..Len(hist[r]) : Extended(r, n)[p] = hist[r][p]
         /\ \A j \in 1..n : Extended(r, n)[Len(hist[r]) + j] = <<r, Len(hist[r]) + j>>
<1> DEFINE h == hist[r]
           k == Len(h)
           t == [j \in 1..n |-> <<r, k + j>>]
<1>1. h \in Seq(Token) /\ k \in Nat BY DEF PoolTypeOK
<1>2. \A j \in 1..n : <<r, k + j>> \in Token
  <2>1. k + n <= MaxContext BY DEF h, k
  <2> HIDE DEF k
  <2> QED BY <1>1, <2>1, SizeType DEF Token
<1>3. t \in [1..n -> Token] BY <1>2
<1>4. t \in Seq(Token) /\ Len(t) = n
  <2> HIDE DEF t
  <2> QED BY <1>3, FunctionIsSeq
<1>5. Extended(r, n) = h \o t BY DEF Extended
<1>6. \A j \in 1..n : t[j] = <<r, k + j>> OBVIOUS
<1> HIDE DEF h, t
<1>7. /\ h \o t \in Seq(Token) /\ Len(h \o t) = k + n
      /\ \A p \in 1..(k + n) : (h \o t)[p] = IF p <= k THEN h[p] ELSE t[p - k]
  BY <1>1, <1>4, ConcatProperties
<1>8. \A p \in 1..k : (h \o t)[p] = h[p]
  <2> HIDE DEF k
  <2>1. \A p \in 1..k : p \in 1..(k + n) /\ p <= k BY <1>1
  <2> QED BY <1>7, <2>1
<1>9. \A j \in 1..n : (h \o t)[k + j] = t[j]
  <2> HIDE DEF k
  <2>1. \A j \in 1..n : k + j \in 1..(k + n) /\ ~(k + j <= k) /\ (k + j) - k = j BY <1>1
  <2> QED BY <1>7, <2>1
<1> QED BY <1>5, <1>6, <1>7, <1>8, <1>9 DEF h

LEMMA PrefixIs ==
  ASSUME NEW S, NEW s, NEW m \in Nat, NEW f \in [1..m -> S], \A p \in 1..m : s[p] = f[p]
  PROVE  SubSeq(s, 1, m) = f
<1>1. f \in Seq(S) /\ Len(f) = m BY FunctionIsSeq
<1>2. \A p \in 1..m : s[p] \in S OBVIOUS
<1>3. /\ SubSeq(s, 1, m) \in Seq(S)
      /\ Len(SubSeq(s, 1, m)) = IF 1 <= m THEN m - 1 + 1 ELSE 0
      /\ \A p \in 1..(m - 1 + 1) : SubSeq(s, 1, m)[p] = s[1 + p - 1]
  BY <1>2, SubSeqProperties
<1>4. Len(SubSeq(s, 1, m)) = m BY <1>3
<1>5. \A p \in 1..m : SubSeq(s, 1, m)[p] = f[p] BY <1>3
<1> QED BY <1>1, <1>3, <1>4, <1>5, SeqEqual

(* What a layer that answers fetches for a query is the request's tokens   *)
(* up to the query's own position.                                         *)
LEMMA FetchIs ==
  ASSUME PoolTypeOK, RowsApart, PassShape, PassWrote, CommittedEverywhere,
         pass.stage = "attend", usable[pass.layer], NEW i \in 1..Len(Batch), NEW j \in 1..Ext[i]
  PROVE  Fetch(<<i, Prefix[i] + j>>) = SubSeq(Extended(Batch[i].req, Ext[i]), 1, Prefix[i] + j)
<1> DEFINE r == Batch[i].req
           e == Extended(r, Ext[i])
           m == Prefix[i] + j
           f == Fetch(<<i, m>>)
<1>1. /\ r \in Running /\ r \in Requests /\ Prefix[i] = Len(hist[r]) /\ Prefix[i] \in Nat
      /\ Ext[i] \in Nat /\ j \in 1..Ext[i] /\ pass.layer \in Layer
  BY BatchFacts, NewTokenFacts DEF PassShape
<1>2. Len(hist[r]) + Ext[i] <= MaxContext
  <2>1. Len(hist[r]) + Ext[i] <= held[r] BY DEF PassShape, Needed, Ext
  <2>2. held[r] \in 0..MaxContext BY <1>1, EntryType
  <2> QED BY <1>1, <2>1, <2>2, SizeType
<1>3. /\ e \in Seq(Token) /\ Len(e) = Prefix[i] + Ext[i]
      /\ \A p \in 1..Prefix[i] : e[p] = hist[r][p]
      /\ \A z \in 1..Ext[i] : e[Prefix[i] + z] = <<r, Prefix[i] + z>>
  <2> HIDE DEF r
  <2>1. /\ e \in Seq(Token) /\ Len(e) = Len(hist[r]) + Ext[i]
        /\ \A p \in 1..Len(hist[r]) : e[p] = hist[r][p]
        /\ \A z \in 1..Ext[i] : e[Len(hist[r]) + z] = <<r, Len(hist[r]) + z>>
    BY <1>1, <1>2, ExtendedIs
  <2> HIDE DEF e
  <2> QED BY <1>1, <2>1
<1>4. m \in Nat /\ f = [p \in 1..m |-> content[pass.layer][Entry(r, p)]]
  BY <1>1 DEF Fetch
<1>5. ASSUME NEW p \in 1..m PROVE f[p] = e[p] /\ e[p] \in Token
  <2>1. e[p] \in Token
    <3>1. p \in 1..Len(e) BY <1>1, <1>3
    <3> HIDE DEF e
    <3> QED BY <1>3, <3>1
  <2>2. CASE p \in 1..Prefix[i]
    <3>1. content[pass.layer][Entry(r, p)] = hist[r][p]
      BY <1>1, <2>2 DEF CommittedEverywhere
    <3> QED BY <1>3, <1>4, <2>1, <2>2, <3>1
  <2>3. CASE p \notin 1..Prefix[i]
    <3> DEFINE z == p - Prefix[i]
    <3>1. z \in 1..Ext[i] /\ p = Prefix[i] + z
      <4> DEFINE a == Prefix[i]
                 c == Ext[i]
      <4>1. a \in Nat /\ c \in Nat /\ j \in 1..c /\ p \in 1..(a + j) /\ p \notin 1..a BY <1>1, <2>3
      <4> HIDE DEF a, c
      <4>2. p - a \in 1..c /\ p = a + (p - a) BY <4>1
      <4> QED BY <4>2 DEF a, c
    <3>2. Written(pass.layer) BY DEF Written
    <3>3. content[pass.layer][NewSlot(i, z)] = NewToken(i, z)
      BY <1>1, <3>1, <3>2 DEF PassWrote
    <3>4. NewSlot(i, z) = Entry(r, p) /\ NewToken(i, z) = <<r, p>>
      BY <3>1 DEF NewSlot, NewToken
    <3>5. e[p] = <<r, p>> BY <1>3, <3>1
    <3> QED BY <1>4, <2>1, <3>3, <3>4, <3>5
  <2> QED BY <2>2, <2>3
<1>6. f \in [1..m -> Token] BY <1>4, <1>5
<1> HIDE DEF e, m, f
<1>7. SubSeq(e, 1, m) = f BY <1>4, <1>5, <1>6, PrefixIs
<1> QED BY <1>7 DEF e, m, f

LEMMA LayerAttendsStep ==
  ASSUME PoolInv, LayerAttends
  PROVE  PoolInv'
<1> USE DEF PoolInv
<1>1. /\ UNCHANGED layerVars /\ UNCHANGED allocVars /\ UNCHANGED reqVars
      /\ seen' = [q \in DOMAIN Queries |-> {Fetch(x) : x \in Queries[q]}]
      /\ pass' = IF pass.layer < Layers THEN [pass EXCEPT !.layer = @ + 1, !.stage = "write"]
                 ELSE [pass EXCEPT !.stage = "commit"]
      /\ pass # None /\ pass.stage = "attend" /\ usable[pass.layer] /\ PassShape /\ PassWrote
  BY DEF LayerAttends, PassInv
<1>2. /\ Running' = Running /\ OwnedPages' = OwnedPages
      /\ \A r, p : Entry(r, p)' = Entry(r, p)
      /\ RowsApart' /\ Layout' /\ Shared'
  BY <1>1, SameRequests
<1>3. /\ table' = table /\ rowOf' = rowOf /\ status' = status /\ held' = held /\ hist' = hist
      /\ freePages' = freePages /\ grouping' = grouping /\ deferred' = deferred
      /\ content' = content /\ usable' = usable
  BY <1>1 DEF layerVars, reqVars, allocVars
<1>4. PoolTypeOK' BY <1>3 DEF PoolTypeOK
<1>5. Pending' = Pending BY <1>3 DEF Pending
<1>6. FreeApart' /\ NonePagesLost' BY <1>2, <1>3, <1>5 DEF FreeApart, NonePagesLost
<1>7. FreePagesUnreadable' BY <1>3 DEF FreePagesUnreadable, SlotsOf
<1>8. CommittedEverywhere' BY <1>2, <1>3 DEF CommittedEverywhere
<1>9. /\ pass.layer \in Layer /\ Layers \in Nat \ {0}
      /\ Batch' = Batch /\ pass'.mode = pass.mode
      /\ pass'.layer \in Layer /\ pass'.stage \in {"write", "attend", "commit"}
      /\ pass'.stage = "commit" => pass'.layer = Layers
      /\ \A l \in Layer : Written(l)' <=> Written(l)
  <2>1. pass.layer \in Layer /\ Layers \in Nat \ {0} BY <1>1, SizeType DEF PassShape
  <2> DEFINE c == pass.layer
  <2>2. CASE c < Layers
    <3>1. Batch' = Batch /\ pass'.mode = pass.mode /\ pass'.layer = c + 1 /\ pass'.stage = "write"
      BY <1>1, <2>2 DEF Batch
    <3> HIDE DEF c
    <3>2. c + 1 \in Layer BY <2>1, <2>2 DEF Layer, c
    <3>3. \A l \in Layer : l < c + 1 <=> l < c \/ l = c BY <2>1 DEF Layer, c
    <3>4. \A l \in Layer : Written(l)' <=> Written(l) BY <1>1, <3>1, <3>3 DEF Written, c
    <3> QED BY <2>1, <3>1, <3>2, <3>4
  <2>3. CASE ~(c < Layers)
    <3>1. Batch' = Batch /\ pass'.mode = pass.mode /\ pass'.layer = c /\ pass'.stage = "commit"
      BY <1>1, <2>3 DEF Batch
    <3>2. c = Layers BY <2>1, <2>3 DEF Layer
    <3>3. \A l \in Layer : Written(l)' <=> Written(l) BY <1>1, <3>1 DEF Written
    <3> QED BY <2>1, <3>1, <3>2, <3>3
  <2> QED BY <2>2, <2>3
<1>10. /\ Prefix' = Prefix /\ Ext' = Ext
       /\ \A i, j : NewSlot(i, j)' = NewSlot(i, j) /\ NewToken(i, j)' = NewToken(i, j)
  <2>1. Prefix' = Prefix /\ Ext' = Ext BY <1>3, <1>9 DEF Prefix, Ext
  <2> QED BY <1>2, <1>9, <2>1 DEF NewSlot, NewToken
<1>11. PassShape' BY <1>1, <1>2, <1>3, <1>9 DEF PassShape, Needed
<1>12. PassWrote'
  <2> SUFFICES ASSUME NEW l \in Layer, Written(l), NEW i \in 1..Len(Batch), NEW j \in 1..Ext[i]
               PROVE  content'[l][NewSlot(i, j)] = NewToken(i, j)
    BY <1>9, <1>10 DEF PassWrote
  <2> QED BY <1>1, <1>3 DEF PassWrote
<1>13. ASSUME NEW i \in 1..Len(Batch), NEW j \in 1..Ext[i]
       PROVE  seen'[Offsets(Ext)[i - 1] + j - 1] =
                {SubSeq(Extended(Batch[i].req, Ext[i]), 1, Prefix[i] + j)}
  <2> DEFINE q == Offsets(Ext)[i - 1] + j - 1
             x == <<i, Prefix[i] + j>>
  <2>1. q \in DOMAIN Queries /\ Queries[q] = {x} BY <1>1, QueriesAre
  <2>2. Fetch(x) = SubSeq(Extended(Batch[i].req, Ext[i]), 1, Prefix[i] + j) BY <1>1, FetchIs
  <2> HIDE DEF q, x
  <2>3. seen'[q] = {Fetch(y) : y \in Queries[q]} BY <1>1, <2>1
  <2>4. seen'[q] = {Fetch(x)} BY <2>1, <2>3
  <2> QED BY <2>2, <2>4 DEF q
<1>14. AnsweredCausally'
  <2>1. \A i \in 1..Len(Batch) : \A j \in 1..Ext[i] :
          seen'[Offsets(Ext)[i - 1] + j - 1] =
            {SubSeq(Extended(Batch[i].req, Ext[i]), 1, Prefix[i] + j)}
    BY <1>13
  <2>2. \A r, n : Extended(r, n)' = Extended(r, n) BY <1>3 DEF Extended
  <2> QED BY <1>3, <1>9, <1>10, <2>1, <2>2 DEF AnsweredCausally
<1> QED BY <1>2, <1>4, <1>6, <1>7, <1>8, <1>11, <1>12, <1>14 DEF PassInv

(* Committing appends each request's new tokens to its own.                *)
LEMMA CommitEffect ==
  ASSUME PoolTypeOK, RowsApart, PassShape, Commit
  PROVE  /\ hist' \in [Requests -> Seq(Token)]
         /\ \A r \in Requests :
              /\ Len(hist[r]) <= Len(hist'[r]) /\ Len(hist'[r]) <= held[r]
              /\ \A p \in 1..Len(hist[r]) : hist'[r][p] = hist[r][p]
              /\ \A p \in 1..Len(hist'[r]) : p \in 1..Len(hist[r]) \/
                   \E i \in 1..Len(Batch) : \E j \in 1..Ext[i] :
                     r = Batch[i].req /\ p = Prefix[i] + j /\ hist'[r][p] = NewToken(i, j)
<1>1. hist' = [r \in Requests |->
        IF \E i \in 1..Len(Batch) : Batch[i].req = r
        THEN Extended(r, Batch[CHOOSE i \in 1..Len(Batch) : Batch[i].req = r].ext)
        ELSE hist[r]]
  BY DEF Commit
<1>2. ASSUME NEW i \in 1..Len(Batch), NEW r, r = Batch[i].req
      PROVE  /\ hist'[r] \in Seq(Token) /\ r \in Requests
             /\ Len(hist[r]) <= Len(hist'[r]) /\ Len(hist'[r]) <= held[r]
             /\ \A p \in 1..Len(hist[r]) : hist'[r][p] = hist[r][p]
             /\ \A p \in 1..Len(hist'[r]) : p \in 1..Len(hist[r]) \/
                  \E j \in 1..Ext[i] : p = Prefix[i] + j /\ hist'[r][p] = NewToken(i, j)
  <2>1. /\ r \in Requests /\ r \in Running /\ Ext[i] = Batch[i].ext /\ Ext[i] \in Nat
        /\ Prefix[i] = Len(hist[r]) /\ Prefix[i] \in Nat
    BY <1>2, BatchFacts
  <2>2. \A k \in 1..Len(Batch) : Batch[k].req = r => k = i BY <1>2, BatchFacts
  <2>3. hist'[r] = Extended(r, Ext[i]) BY <1>1, <1>2, <2>1, <2>2
  <2>4. Len(hist[r]) + Ext[i] <= held[r] /\ held[r] \in 0..MaxContext
    BY <1>2, <2>1, EntryType DEF PassShape, Needed
  <2>5. Len(hist[r]) + Ext[i] <= MaxContext BY <2>1, <2>4, SizeType
  <2>6. /\ hist'[r] \in Seq(Token) /\ Len(hist'[r]) = Len(hist[r]) + Ext[i]
        /\ \A p \in 1..Len(hist[r]) : hist'[r][p] = hist[r][p]
        /\ \A j \in 1..Ext[i] : hist'[r][Len(hist[r]) + j] = <<r, Len(hist[r]) + j>>
    <3> DEFINE e == Extended(r, Ext[i])
    <3>1. /\ e \in Seq(Token) /\ Len(e) = Len(hist[r]) + Ext[i]
          /\ \A p \in 1..Len(hist[r]) : e[p] = hist[r][p]
          /\ \A j \in 1..Ext[i] : e[Len(hist[r]) + j] = <<r, Len(hist[r]) + j>>
      BY <2>1, <2>5, ExtendedIs
    <3>2. hist'[r] = e BY <2>3
    <3> HIDE DEF e
    <3> QED BY <3>1, <3>2
  <2>7. ASSUME NEW p \in 1..Len(hist'[r]), p \notin 1..Len(hist[r])
        PROVE  \E j \in 1..Ext[i] : p = Prefix[i] + j /\ hist'[r][p] = NewToken(i, j)
    <3> DEFINE a == Prefix[i]
               c == Ext[i]
               j == p - a
    <3>1. a \in Nat /\ c \in Nat /\ p \in 1..(a + c) /\ p \notin 1..a BY <2>1, <2>6, <2>7
    <3>2. j \in 1..c /\ p = a + j
      <4> HIDE DEF a, c
      <4> QED BY <3>1
    <3>3. hist'[r][a + j] = <<r, a + j>> BY <2>1, <2>6, <3>2
    <3>4. NewToken(i, j) = <<r, p>> BY <1>2, <3>2 DEF NewToken
    <3> QED BY <3>2, <3>3, <3>4
  <2>8. Len(hist[r]) <= Len(hist'[r]) /\ Len(hist'[r]) <= held[r] BY <2>1, <2>4, <2>6
  <2> QED BY <2>1, <2>6, <2>7, <2>8
<1>3. ASSUME NEW r \in Requests, ~\E i \in 1..Len(Batch) : Batch[i].req = r
      PROVE  /\ hist'[r] = hist[r] /\ hist'[r] \in Seq(Token)
             /\ Len(hist[r]) \in Nat /\ Len(hist[r]) <= held[r]
  BY <1>1, <1>3 DEF PoolTypeOK
<1>4. ASSUME NEW r \in Requests
      PROVE  /\ hist'[r] \in Seq(Token)
             /\ Len(hist[r]) <= Len(hist'[r]) /\ Len(hist'[r]) <= held[r]
             /\ \A p \in 1..Len(hist[r]) : hist'[r][p] = hist[r][p]
             /\ \A p \in 1..Len(hist'[r]) : p \in 1..Len(hist[r]) \/
                  \E i \in 1..Len(Batch) : \E j \in 1..Ext[i] :
                    r = Batch[i].req /\ p = Prefix[i] + j /\ hist'[r][p] = NewToken(i, j)
  <2>1. CASE ~\E i \in 1..Len(Batch) : Batch[i].req = r BY <1>3, <2>1
  <2>2. CASE \E i \in 1..Len(Batch) : Batch[i].req = r
    <3>1. PICK i \in 1..Len(Batch) : r = Batch[i].req BY <2>2
    <3>2. /\ hist'[r] \in Seq(Token)
          /\ Len(hist[r]) <= Len(hist'[r]) /\ Len(hist'[r]) <= held[r]
          /\ \A p \in 1..Len(hist[r]) : hist'[r][p] = hist[r][p]
          /\ \A p \in 1..Len(hist'[r]) : p \in 1..Len(hist[r]) \/
               \E j \in 1..Ext[i] : p = Prefix[i] + j /\ hist'[r][p] = NewToken(i, j)
      BY <1>2, <3>1
    <3> QED BY <3>1, <3>2, Zenon
  <2> QED BY <2>1, <2>2
<1>5. hist' \in [Requests -> Seq(Token)] BY <1>1, <1>4
<1> QED BY <1>4, <1>5

LEMMA CommitStep ==
  ASSUME PoolInv, Commit
  PROVE  PoolInv'
<1> USE DEF PoolInv
<1>1. /\ UNCHANGED layerVars /\ UNCHANGED allocVars /\ table' = table /\ rowOf' = rowOf
      /\ status' = status /\ held' = held /\ pass' = None /\ seen' = <<>>
      /\ pass # None /\ pass.stage = "commit" /\ PassShape /\ PassWrote
  BY DEF Commit, PassInv
<1>2. /\ hist' \in [Requests -> Seq(Token)]
      /\ \A r \in Requests :
           /\ Len(hist[r]) <= Len(hist'[r]) /\ Len(hist'[r]) <= held[r]
           /\ \A p \in 1..Len(hist[r]) : hist'[r][p] = hist[r][p]
           /\ \A p \in 1..Len(hist'[r]) : p \in 1..Len(hist[r]) \/
                \E i \in 1..Len(Batch) : \E j \in 1..Ext[i] :
                  r = Batch[i].req /\ p = Prefix[i] + j /\ hist'[r][p] = NewToken(i, j)
  BY <1>1, CommitEffect
<1>3. /\ freePages' = freePages /\ grouping' = grouping /\ deferred' = deferred
      /\ content' = content /\ usable' = usable
  BY <1>1 DEF layerVars, allocVars
<1>4. Running' = Running BY <1>1 DEF Running
<1>5. \A r, p : Entry(r, p)' = Entry(r, p) /\ PageAt(r, p)' = PageAt(r, p)
  BY <1>1 DEF Entry, PageAt
<1>6. OwnedPages' = OwnedPages BY <1>1, <1>4 DEF OwnedPages, PagesOf, Owned, Entry
<1>7. Pending' = Pending BY <1>3 DEF Pending
<1>8. PoolTypeOK' BY <1>1, <1>2, <1>3 DEF PoolTypeOK
<1>9. RowsApart' /\ Layout' BY <1>1, <1>4, <1>5 DEF RowsApart, Layout
<1>10. Shared'
  <2> SUFFICES ASSUME NEW r \in Running, NEW x \in Running, NEW p \in 1..held[r], NEW y \in 1..held[x],
                      r # x, PageAt(r, p) = PageAt(x, y)
               PROVE  /\ Ceil(p) = Ceil(y)
                      /\ Ceil(p) * PageSize <= Len(hist'[r]) /\ Ceil(p) * PageSize <= Len(hist'[x])
                      /\ \A z \in 1..(Ceil(p) * PageSize) : hist'[r][z] = hist'[x][z]
    BY <1>1, <1>4, <1>5 DEF Shared
  <2> DEFINE m == Ceil(p) * PageSize
  <2>1. /\ Ceil(p) = Ceil(y) /\ m <= Len(hist[r]) /\ m <= Len(hist[x])
        /\ \A z \in 1..m : hist[r][z] = hist[x][z]
    BY DEF Shared
  <2>2. m \in Nat
    <3>1. p \in Nat BY HeldEntry
    <3> QED BY <3>1, CeilBounds
  <2>3. /\ r \in Requests /\ x \in Requests /\ Len(hist[r]) \in Nat /\ Len(hist[x]) \in Nat
        /\ Len(hist'[r]) \in Nat /\ Len(hist'[x]) \in Nat
    BY <1>2 DEF PoolTypeOK, Running
  <2>4. Len(hist[r]) <= Len(hist'[r]) /\ Len(hist[x]) <= Len(hist'[x]) BY <1>2, <2>3
  <2> HIDE DEF m
  <2>5. m <= Len(hist'[r]) /\ m <= Len(hist'[x]) BY <2>1, <2>2, <2>3, <2>4
  <2>6. \A z \in 1..m : z \in 1..Len(hist[r]) /\ z \in 1..Len(hist[x]) BY <2>1, <2>2, <2>3
  <2>7. \A z \in 1..m : hist'[r][z] = hist'[x][z] BY <1>2, <2>1, <2>3, <2>6
  <2> QED BY <2>1, <2>5, <2>7 DEF m
<1>11. FreeApart' /\ NonePagesLost' BY <1>3, <1>6, <1>7 DEF FreeApart, NonePagesLost
<1>12. PassInv' /\ AnsweredCausally' BY <1>1 DEF PassInv, AnsweredCausally
<1>13. FreePagesUnreadable' BY <1>3 DEF FreePagesUnreadable, SlotsOf
<1>14. CommittedEverywhere'
  <2> SUFFICES ASSUME NEW l \in Layer, usable[l], NEW r \in Running, NEW p \in 1..Len(hist'[r])
               PROVE  content[l][Entry(r, p)] = hist'[r][p]
    BY <1>3, <1>4, <1>5 DEF CommittedEverywhere
  <2>1. r \in Requests BY DEF Running
  <2>2. CASE p \in 1..Len(hist[r]) BY <1>2, <2>1, <2>2 DEF CommittedEverywhere
  <2>3. CASE p \notin 1..Len(hist[r])
    <3>1. PICK i \in 1..Len(Batch) : \E j \in 1..Ext[i] :
            r = Batch[i].req /\ p = Prefix[i] + j /\ hist'[r][p] = NewToken(i, j)
      BY <1>2, <2>1, <2>3
    <3>2. PICK j \in 1..Ext[i] : r = Batch[i].req /\ p = Prefix[i] + j /\ hist'[r][p] = NewToken(i, j)
      BY <3>1
    <3>3. Written(l)
      <4>1. pass.layer = Layers BY <1>1 DEF PassShape
      <4> QED BY <1>1, <4>1, SizeType DEF Written, Layer
    <3>4. content[l][NewSlot(i, j)] = NewToken(i, j) BY <1>1, <3>3 DEF PassWrote
    <3> QED BY <3>2, <3>4 DEF NewSlot
  <2> QED BY <2>2, <2>3
<1> QED BY <1>8, <1>9, <1>10, <1>11, <1>12, <1>13, <1>14

--------------------------------------------------------------------------------
(* Admission, with or without a shared prefix.                             *)

LEMMA AdmitEffect ==
  ASSUME PoolInv, NEW r \in Requests, NEW donor \in Requests, NEW w \in Rows, NEW n \in 0..MaxContext,
         Admit(r, w, donor, n)
  PROVE  /\ r \notin Running /\ Running' = Running \cup {r} /\ n % PageSize = 0
         /\ \A x \in Running : /\ x # r /\ rowOf'[x] = rowOf[x] /\ rowOf[x] # w
                               /\ held'[x] = held[x] /\ hist'[x] = hist[x]
                               /\ \A p : Entry(x, p)' = Entry(x, p)
         /\ rowOf'[r] = w /\ held'[r] = n
         /\ hist'[r] \in Seq(Token) /\ Len(hist'[r]) = n
         /\ n > 0 => donor \in Running /\ n <= Len(hist[donor])
         /\ \A p \in 1..n : /\ p \in 1..held[donor] /\ p \in 1..Len(hist[donor]) /\ donor \in Running
                            /\ Entry(r, p)' = Entry(donor, p) /\ hist'[r][p] = hist[donor][p]
         /\ table' \in [Rows -> [1..MaxContext -> Slot]]
<1> USE DEF PoolInv
<1>1. /\ status[r] = "waiting" /\ w \notin {rowOf[x] : x \in Running} /\ n % PageSize = 0
      /\ n = 0 \/ (donor \in Running /\ n <= Len(hist[donor]))
      /\ status' = [status EXCEPT ![r] = "running"] /\ rowOf' = [rowOf EXCEPT ![r] = w]
      /\ held' = [held EXCEPT ![r] = n]
      /\ hist' = [hist EXCEPT ![r] = SubSeq(hist[donor], 1, n)]
      /\ table' = [table EXCEPT ![w] =
           [p \in 1..MaxContext |-> IF p <= n THEN Entry(donor, p) ELSE table[w][p]]]
  BY DEF Admit
<1>2. n \in Nat /\ n <= MaxContext /\ MaxContext \in Nat BY SizeType
<1>3. r \notin Running /\ Running' = Running \cup {r} BY <1>1 DEF Running, PoolTypeOK
<1>4. ASSUME NEW x \in Running
      PROVE  /\ x # r /\ rowOf'[x] = rowOf[x] /\ rowOf[x] # w
             /\ held'[x] = held[x] /\ hist'[x] = hist[x]
             /\ \A p : Entry(x, p)' = Entry(x, p)
  <2>1. x # r /\ x \in Requests /\ rowOf[x] # w /\ rowOf[x] \in Rows
    BY <1>1, <1>3 DEF Running, RowsApart
  <2>2. rowOf'[x] = rowOf[x] /\ held'[x] = held[x] /\ hist'[x] = hist[x]
    BY <1>1, <2>1 DEF PoolTypeOK
  <2>3. table'[rowOf[x]] = table[rowOf[x]] BY <1>1, <2>1 DEF PoolTypeOK
  <2> QED BY <2>1, <2>2, <2>3 DEF Entry
<1>5. rowOf'[r] = w /\ held'[r] = n /\ hist'[r] = SubSeq(hist[donor], 1, n)
  BY <1>1 DEF PoolTypeOK
<1>6. n > 0 => donor \in Running /\ n <= Len(hist[donor]) BY <1>1
<1>7. \A p \in 1..n : /\ donor \in Running /\ p \in 1..Len(hist[donor]) /\ p \in 1..held[donor]
                      /\ p \in 1..MaxContext
  <2> SUFFICES ASSUME NEW p \in 1..n
               PROVE  /\ donor \in Running /\ p \in 1..Len(hist[donor]) /\ p \in 1..held[donor]
                      /\ p \in 1..MaxContext
    OBVIOUS
  <2>1. p \in Nat /\ 1 <= p /\ p <= n BY <1>2
  <2>2. donor \in Running /\ n <= Len(hist[donor]) BY <1>2, <1>6, <2>1
  <2>3. Len(hist[donor]) \in 0..held[donor] /\ held[donor] \in 0..MaxContext BY <2>2, EntryType
  <2> QED BY <1>2, <2>1, <2>2, <2>3
<1>8. hist[donor] \in Seq(Token) BY DEF PoolTypeOK
<1>9. /\ hist'[r] \in Seq(Token) /\ Len(hist'[r]) = n
      /\ \A p \in 1..n : hist'[r][p] = hist[donor][p]
  <2> DEFINE s == hist[donor]
  <2>1. \A p \in 1..n : s[p] \in Token BY <1>7, <1>8
  <2> HIDE DEF s
  <2>2. /\ SubSeq(s, 1, n) \in Seq(Token)
        /\ Len(SubSeq(s, 1, n)) = IF 1 <= n THEN n - 1 + 1 ELSE 0
        /\ \A p \in 1..(n - 1 + 1) : SubSeq(s, 1, n)[p] = s[1 + p - 1]
    BY <1>2, <2>1, SubSeqProperties
  <2>3. Len(SubSeq(s, 1, n)) = n BY <1>2, <2>2
  <2>4. \A p \in 1..n : SubSeq(s, 1, n)[p] = s[p] BY <1>2, <2>2
  <2> QED BY <1>5, <2>2, <2>3, <2>4 DEF s
<1> DEFINE row == [p \in 1..MaxContext |-> IF p <= n THEN Entry(donor, p) ELSE table[w][p]]
<1>10. row \in [1..MaxContext -> Slot]
  <2> SUFFICES ASSUME NEW p \in 1..MaxContext
               PROVE  (IF p <= n THEN Entry(donor, p) ELSE table[w][p]) \in Slot
    OBVIOUS
  <2>1. CASE p <= n
    <3>1. p \in 1..n BY <1>2, <2>1
    <3> QED BY <1>7, <2>1, <3>1, EntryType
  <2>2. CASE ~(p <= n)
    <3>1. w \in Rows /\ table \in [Rows -> [1..MaxContext -> Slot]] BY <1>1, <1>2 DEF PoolTypeOK
    <3>2. table[w][p] \in Slot BY <3>1, Zenon
    <3> QED BY <2>2, <3>2, Zenon
  <2> QED BY <2>1, <2>2
<1>11. table'[w] = row /\ table' \in [Rows -> [1..MaxContext -> Slot]]
  <2>1. table' = [table EXCEPT ![w] = row] BY <1>1
  <2> HIDE DEF row
  <2> QED BY <1>10, <2>1 DEF PoolTypeOK
<1>12. \A p \in 1..n : Entry(r, p)' = Entry(donor, p)
  <2> SUFFICES ASSUME NEW p \in 1..n PROVE Entry(r, p)' = Entry(donor, p) OBVIOUS
  <2>1. p \in 1..MaxContext /\ p <= n BY <1>2, <1>7
  <2>2. Entry(r, p)' = row[p]
    <3> HIDE DEF row
    <3> QED BY <1>5, <1>11 DEF Entry
  <2> QED BY <2>1, <2>2
<1> QED BY <1>1, <1>3, <1>4, <1>5, <1>6, <1>7, <1>9, <1>11, <1>12

LEMMA AdmitStep ==
  ASSUME PoolInv, NEW r \in Requests, NEW donor \in Requests, NEW w \in Rows, NEW n \in 0..MaxContext,
         Admit(r, w, donor, n)
  PROVE  PoolInv'
<1> USE DEF PoolInv
<1>1. /\ r \notin Running /\ Running' = Running \cup {r} /\ n % PageSize = 0
      /\ rowOf'[r] = w /\ held'[r] = n
      /\ hist'[r] \in Seq(Token) /\ Len(hist'[r]) = n
      /\ table' \in [Rows -> [1..MaxContext -> Slot]]
  BY AdmitEffect
<1>2. \A x \in Running : /\ x # r /\ rowOf'[x] = rowOf[x] /\ rowOf[x] # w /\ rowOf[x] \in Rows
                         /\ held'[x] = held[x] /\ hist'[x] = hist[x]
                         /\ \A p : Entry(x, p)' = Entry(x, p) /\ PageAt(x, p)' = PageAt(x, p)
  BY AdmitEffect DEF PageAt, RowsApart
<1>3. \A p \in 1..n : /\ p \in 1..held[donor] /\ p \in 1..Len(hist[donor]) /\ donor \in Running
                      /\ Entry(r, p)' = Entry(donor, p) /\ PageAt(r, p)' = PageAt(donor, p)
                      /\ hist'[r][p] = hist[donor][p]
  BY AdmitEffect DEF PageAt
<1>4. /\ UNCHANGED layerVars /\ UNCHANGED allocVars /\ pass' = None /\ seen' = <<>>
      /\ status' = [status EXCEPT ![r] = "running"] /\ rowOf' = [rowOf EXCEPT ![r] = w]
      /\ held' = [held EXCEPT ![r] = n]
      /\ hist' = [hist EXCEPT ![r] = SubSeq(hist[donor], 1, n)]
  BY DEF Admit
<1>5. /\ freePages' = freePages /\ grouping' = grouping /\ deferred' = deferred
      /\ content' = content /\ usable' = usable
  BY <1>4 DEF layerVars, allocVars
<1>6. n \in Nat BY SizeType
<1>7. PoolTypeOK'
  <2>1. status' \in [Requests -> {"waiting", "running", "done"}] BY <1>4 DEF PoolTypeOK
  <2>2. rowOf' \in [Requests -> Rows \cup {None}] BY <1>4 DEF PoolTypeOK
  <2>3. held' \in [Requests -> 0..MaxContext] BY <1>4 DEF PoolTypeOK
  <2>4. ASSUME NEW x \in Requests PROVE hist'[x] \in Seq(Token) /\ Len(hist'[x]) <= held'[x]
    <3>1. CASE x = r BY <1>1, <1>6, <3>1
    <3>2. CASE x # r BY <1>4, <3>2 DEF PoolTypeOK
    <3> QED BY <3>1, <3>2
  <2>5. hist' \in [Requests -> Seq(Token)]
    <3>1. DOMAIN hist' = Requests /\ hist' = [x \in Requests |-> hist'[x]] BY <1>4 DEF PoolTypeOK
    <3> QED BY <2>4, <3>1
  <2> QED BY <1>1, <1>5, <2>1, <2>2, <2>3, <2>4, <2>5 DEF PoolTypeOK
<1>8. RowsApart' BY <1>1, <1>2 DEF RowsApart
<1>9. ASSUME NEW p \in 1..n
      PROVE  /\ PageAt(r, p)' \in Page /\ Entry(r, p)' = PageAt(r, p)' * PageSize + (p - First(p))
             /\ \A y \in 1..n : PageAt(r, p)' = PageAt(r, y)' <=> Ceil(p) = Ceil(y)
  <2>1. \A y \in 1..n : PageAt(r, y)' = PageAt(donor, y) /\ y \in 1..held[donor] BY <1>3
  <2>2. donor \in Running /\ p \in 1..held[donor] /\ Entry(r, p)' = Entry(donor, p) BY <1>3
  <2> QED BY <2>1, <2>2 DEF Layout
<1>10. Layout'
  <2> SUFFICES ASSUME NEW x \in Running', NEW p \in 1..held'[x]
               PROVE  /\ PageAt(x, p)' \in Page
                      /\ Entry(x, p)' = PageAt(x, p)' * PageSize + (p - First(p))
                      /\ \A y \in 1..held'[x] : PageAt(x, p)' = PageAt(x, y)' <=> Ceil(p) = Ceil(y)
    BY DEF Layout
  <2>1. CASE x = r BY <1>1, <1>9, <2>1
  <2>2. CASE x \in Running BY <1>2, <2>2 DEF Layout
  <2> QED BY <1>1, <2>1, <2>2
<1>11. ASSUME NEW x \in Running, NEW p \in 1..n, NEW y \in 1..held[x], PageAt(r, p)' = PageAt(x, y)'
       PROVE  /\ Ceil(p) = Ceil(y)
              /\ Ceil(p) * PageSize <= n /\ Ceil(p) * PageSize <= Len(hist'[x])
              /\ \A z \in 1..(Ceil(p) * PageSize) : hist'[r][z] = hist'[x][z]
  <2> DEFINE m == Ceil(p) * PageSize
  <2>1. m <= n /\ m \in Nat
    <3>1. p \in Nat BY <1>6
    <3> QED BY <1>1, <1>6, <3>1, FullPages, CeilBounds
  <2>2. donor \in Running /\ p \in 1..held[donor] /\ PageAt(donor, p) = PageAt(x, y)
    BY <1>2, <1>3, <1>11
  <2>3. hist'[x] = hist[x] /\ n <= Len(hist[donor]) /\ Len(hist[donor]) \in Nat
    <3>1. Len(hist[donor]) \in Nat BY DEF PoolTypeOK
    <3>2. n \in 1..n BY <1>6
    <3>3. n \in 1..Len(hist[donor]) BY <1>3, <3>2
    <3> QED BY <1>2, <3>1, <3>3
  <2>4. Ceil(p) = Ceil(y) /\ m <= Len(hist[x]) /\ \A z \in 1..m : hist[donor][z] = hist[x][z]
    <3>1. CASE x = donor
      <4>1. Ceil(p) = Ceil(y) BY <2>2, <3>1 DEF Layout
      <4> HIDE DEF m
      <4>2. m <= Len(hist[x]) BY <1>6, <2>1, <2>3, <3>1
      <4> QED BY <3>1, <4>1, <4>2
    <3>2. CASE x # donor BY <2>2, <3>2 DEF Shared
    <3> QED BY <3>1, <3>2
  <2> HIDE DEF m
  <2>5. \A z \in 1..m : z \in 1..n BY <1>6, <2>1
  <2>6. \A z \in 1..m : hist'[r][z] = hist'[x][z] BY <1>3, <2>3, <2>4, <2>5
  <2> QED BY <2>1, <2>3, <2>4, <2>6 DEF m
<1>12. Shared'
  <2> SUFFICES ASSUME NEW x \in Running', NEW y \in Running', NEW p \in 1..held'[x], NEW z \in 1..held'[y],
                      x # y, PageAt(x, p)' = PageAt(y, z)'
               PROVE  /\ Ceil(p) = Ceil(z)
                      /\ Ceil(p) * PageSize <= Len(hist'[x]) /\ Ceil(p) * PageSize <= Len(hist'[y])
                      /\ \A k \in 1..(Ceil(p) * PageSize) : hist'[x][k] = hist'[y][k]
    BY DEF Shared
  <2>1. CASE x = r
    <3>1. y \in Running /\ p \in 1..n /\ z \in 1..held[y] BY <1>1, <1>2, <2>1
    <3> QED BY <1>1, <1>11, <2>1, <3>1
  <2>2. CASE y = r
    <3>1. x \in Running /\ z \in 1..n /\ p \in 1..held[x] /\ PageAt(r, z)' = PageAt(x, p)'
      BY <1>1, <1>2, <2>2
    <3>2. /\ Ceil(z) = Ceil(p)
          /\ Ceil(z) * PageSize <= n /\ Ceil(z) * PageSize <= Len(hist'[x])
          /\ \A k \in 1..(Ceil(z) * PageSize) : hist'[r][k] = hist'[x][k]
      BY <1>11, <3>1
    <3> QED BY <1>1, <2>2, <3>2
  <2>3. CASE x # r /\ y # r
    <3>1. x \in Running /\ y \in Running BY <1>1, <2>3
    <3>2. /\ p \in 1..held[x] /\ z \in 1..held[y] /\ PageAt(x, p) = PageAt(y, z)
          /\ hist'[x] = hist[x] /\ hist'[y] = hist[y]
      BY <1>2, <3>1
    <3> QED BY <3>1, <3>2 DEF Shared
  <2> QED BY <2>1, <2>2, <2>3
<1>13. OwnedPages' = OwnedPages
  <2>1. \A x \in Running : PagesOf(x)' = PagesOf(x) BY <1>2 DEF PagesOf, Owned
  <2>2. PagesOf(r)' \subseteq OwnedPages
    <3>1. PagesOf(r)' = {PageAt(r, p)' : p \in 1..n} BY <1>1 DEF PagesOf, Owned, PageAt
    <3>2. \A p \in 1..n : PageAt(r, p)' \in OwnedPages BY <1>3, OwnedApart
    <3> QED BY <3>1, <3>2
  <2> QED BY <1>1, <2>1, <2>2 DEF OwnedPages
<1>14. Pending' = Pending BY <1>5 DEF Pending
<1>15. FreeApart' /\ NonePagesLost' BY <1>5, <1>13, <1>14 DEF FreeApart, NonePagesLost
<1>16. PassInv' /\ AnsweredCausally' BY <1>4 DEF PassInv, AnsweredCausally
<1>17. FreePagesUnreadable' BY <1>5 DEF FreePagesUnreadable, SlotsOf
<1>18. CommittedEverywhere'
  <2> SUFFICES ASSUME NEW l \in Layer, usable[l], NEW x \in Running', NEW p \in 1..Len(hist'[x])
               PROVE  content[l][Entry(x, p)'] = hist'[x][p]
    BY <1>5 DEF CommittedEverywhere
  <2>1. CASE x = r
    <3>1. p \in 1..n BY <1>1, <2>1
    <3>2. /\ donor \in Running /\ p \in 1..Len(hist[donor])
          /\ Entry(r, p)' = Entry(donor, p) /\ hist'[r][p] = hist[donor][p]
      BY <1>3, <3>1
    <3> QED BY <2>1, <3>2 DEF CommittedEverywhere
  <2>2. CASE x \in Running
    <3>1. p \in 1..Len(hist[x]) /\ Entry(x, p)' = Entry(x, p) /\ hist'[x] = hist[x] BY <1>2, <2>2
    <3> QED BY <2>2, <3>1 DEF CommittedEverywhere
  <2> QED BY <1>1, <2>1, <2>2
<1> QED BY <1>7, <1>8, <1>10, <1>12, <1>15, <1>16, <1>17, <1>18

--------------------------------------------------------------------------------
(* Starting a pass: the rows of the batch grow onto new pages.             *)

LEMMA CeilZero == Ceil(0) = 0
BY SizeType, CeilIs

(* Where position p of the grown row of r lies: in a block r already has,  *)
(* or in one of the new pages, at the place of the block in q.             *)
OldBlock(r, p, s) == \E y \in 1..held[r] : Ceil(y) = Ceil(p) /\ PageOf(s) = PageAt(r, y)
NewBlock(r, q, p, s) == \E k \in 1..Len(q) : Ceil(p) = Ceil(held[r]) + k /\ PageOf(s) = q[k]
InPlace(p, s) == PageOf(s) \in Page /\ s = PageOf(s) * PageSize + (p - First(p))

LEMMA GrownIs ==
  ASSUME PoolTypeOK, RowsApart, Layout, NEW r \in Running, NEW n \in 0..MaxContext,
         NEW q \in Seq(Page), n > held[r] => Len(q) = Ceil(n) - Ceil(held[r])
  PROVE  /\ Grown(r, n, q) \in [1..MaxContext -> Slot]
         /\ \A p \in 1..held[r] : Grown(r, n, q)[p] = Entry(r, p)
         /\ \A p \in 1..MaxContext : p <= held[r] \/ p <= n =>
              /\ InPlace(p, Grown(r, n, q)[p])
              /\ OldBlock(r, p, Grown(r, n, q)[p]) \/ NewBlock(r, q, p, Grown(r, n, q)[p])
<1> DEFINE h == held[r]
           base(p) == IF Ceil(p) <= Ceil(h) THEN Entry(r, First(p)) ELSE q[Ceil(p) - Ceil(h)] * PageSize
           g == Grown(r, n, q)
<1>1. g = [p \in 1..MaxContext |->
             IF p <= h \/ p > n THEN Entry(r, p) ELSE base(p) + (p - First(p))]
  BY DEF Grown, First
<1>2. h \in 0..MaxContext /\ MaxContext \in Nat /\ PageSize \in Nat \ {0} /\ h \in Nat /\ n \in Nat
  BY EntryType, SizeType
<1>3. /\ \A p \in 1..h : /\ p \in 1..MaxContext /\ PageAt(r, p) \in Page
                         /\ Entry(r, p) = PageAt(r, p) * PageSize + (p - First(p))
      /\ \A p \in 1..MaxContext : p \in Nat \ {0} /\ Entry(r, p) \in Slot
  BY <1>2, EntryType DEF Layout
<1> HIDE DEF g
<1>4. ASSUME NEW p \in 1..MaxContext, p <= h
      PROVE  g[p] = Entry(r, p) /\ g[p] \in Slot /\ InPlace(p, g[p]) /\ OldBlock(r, p, g[p])
  <2>1. p \in 1..h BY <1>2, <1>4
  <2>2. g[p] = Entry(r, p) BY <1>1, <1>4
  <2> HIDE DEF h
  <2> QED BY <1>3, <2>1, <2>2 DEF InPlace, OldBlock, PageAt, h
<1>5. ASSUME NEW p \in 1..MaxContext, ~(p <= h), p <= n, NEW a \in Page,
             base(p) = a * PageSize
      PROVE  g[p] \in Slot /\ PageOf(g[p]) = a /\ InPlace(p, g[p])
  <2>1. p \in Nat \ {0} /\ p - First(p) \in 0..(PageSize - 1) BY <1>3, FirstBounds
  <2>2. g[p] = a * PageSize + (p - First(p))
    <3>1. ~(p <= h \/ p > n) BY <1>2, <1>5, <2>1
    <3> QED BY <1>1, <1>5, <3>1
  <2>3. a \in Nat BY SizeType DEF Page
  <2> HIDE DEF h
  <2> DEFINE o == p - First(p)
  <2>4. o \in 0..(PageSize - 1) /\ g[p] = a * PageSize + o BY <2>1, <2>2
  <2> HIDE DEF o
  <2>5. g[p] \in Slot /\ PageOf(g[p]) = a BY <2>3, <2>4, SlotInPage
  <2>6. InPlace(p, g[p]) BY <2>4, <2>5 DEF InPlace, o
  <2> QED BY <2>5, <2>6
<1>6. ASSUME NEW p \in 1..MaxContext, ~(p <= h), p <= n
      PROVE  g[p] \in Slot /\ InPlace(p, g[p]) /\ (OldBlock(r, p, g[p]) \/ NewBlock(r, q, p, g[p]))
  <2>1. p \in Nat \ {0} /\ h < p /\ h < n BY <1>2, <1>3, <1>6
  <2>2. Ceil(h) \in Nat /\ Ceil(p) \in Nat \ {0} /\ Ceil(n) \in Nat BY <1>2, <2>1, CeilBounds, FirstBounds
  <2>3. Ceil(h) <= Ceil(p) /\ Ceil(p) <= Ceil(n) BY <1>2, <1>6, <2>1, CeilMonotone
  <2>4. CASE Ceil(p) <= Ceil(h)
    <3>1. Ceil(p) = Ceil(h) BY <2>2, <2>3, <2>4
    <3>2. h # 0 BY <2>2, <3>1, CeilZero
    <3>3. First(h) \in Nat \ {0} /\ First(h) <= h /\ Ceil(First(h)) = Ceil(h) /\ First(First(h)) = First(h)
      BY <1>2, <3>2, FirstBounds
    <3> DEFINE y == First(h)
    <3>4. First(p) = y BY <3>1 DEF First
    <3>5. y \in 1..h BY <1>2, <3>3
    <3> HIDE DEF y
    <3>6. Entry(r, y) = PageAt(r, y) * PageSize + (y - y) /\ PageAt(r, y) \in Page
      <4>1. First(y) = y BY <3>3 DEF y
      <4> QED BY <1>3, <3>5, <4>1
    <3>7. base(p) = PageAt(r, y) * PageSize
      <4>1. PageAt(r, y) \in Nat BY <3>6, SizeType DEF Page
      <4>2. PageAt(r, y) * PageSize \in Nat /\ y \in Nat BY <1>2, <3>5, <4>1
      <4> QED BY <2>4, <3>4, <3>6, <4>2
    <3>8. g[p] \in Slot /\ PageOf(g[p]) = PageAt(r, y) /\ InPlace(p, g[p])
      <4> HIDE DEF base
      <4> QED BY <1>5, <1>6, <3>6, <3>7
    <3>9. Ceil(y) = Ceil(p) BY <3>1, <3>3 DEF y
    <3>10. OldBlock(r, p, g[p]) BY <3>5, <3>8, <3>9 DEF OldBlock
    <3> QED BY <3>8, <3>10
  <2>5. CASE ~(Ceil(p) <= Ceil(h))
    <3> DEFINE k == Ceil(p) - Ceil(h)
    <3>1. Len(q) = Ceil(n) - Ceil(h) BY <1>2, <2>1
    <3>2. k \in 1..Len(q) /\ Ceil(p) = Ceil(h) + k BY <2>2, <2>3, <2>5, <3>1
    <3>3. base(p) = q[k] * PageSize BY <2>5
    <3> HIDE DEF k
    <3>4. q[k] \in Page BY <3>2
    <3>5. g[p] \in Slot /\ PageOf(g[p]) = q[k] /\ InPlace(p, g[p])
      <4> HIDE DEF base
      <4> QED BY <1>5, <1>6, <3>3, <3>4
    <3>6. NewBlock(r, q, p, g[p]) BY <3>2, <3>5 DEF NewBlock
    <3> QED BY <3>5, <3>6
  <2> QED BY <2>4, <2>5
<1>7. ASSUME NEW p \in 1..MaxContext PROVE g[p] \in Slot
  <2>1. CASE p <= h BY <1>4, <2>1
  <2>2. CASE ~(p <= h) /\ p <= n BY <1>6, <2>2
  <2>3. CASE ~(p <= n) /\ ~(p <= h)
    <3>1. p > n BY <1>2, <1>3, <2>3
    <3>2. g[p] = Entry(r, p) BY <1>1, <3>1
    <3> QED BY <1>3, <3>2
  <2> QED BY <2>1, <2>2, <2>3
<1>8. g \in [1..MaxContext -> Slot]
  <2>1. DOMAIN g = 1..MaxContext /\ g = [p \in 1..MaxContext |-> g[p]] BY <1>1
  <2> QED BY <1>7, <2>1
<1>9. \A p \in 1..h : g[p] = Entry(r, p)
  <2>1. \A p \in 1..h : p \in 1..MaxContext /\ p <= h BY <1>2
  <2> QED BY <1>4, <2>1
<1> HIDE DEF h
<1> QED BY <1>4, <1>6, <1>8, <1>9 DEF g, h

(* The pages taken are dealt out in batch order, each to one request.      *)
Dealing(S, n, wants, take, share) ==
  /\ n \in Nat /\ wants \in [1..n -> Nat] /\ take \in Seq(S)
  /\ Len(take) = Offsets(wants)[n] /\ Distinct(take)
  /\ \A i \in 1..n : share[i] = SubSeq(take, Offsets(wants)[i - 1] + 1, Offsets(wants)[i])

Dealt(S, n, wants, take, share) ==
  /\ \A i \in 1..n : share[i] \in Seq(S) /\ Len(share[i]) = wants[i]
  /\ \A i, j \in 1..n : \A k \in 1..wants[i], z \in 1..wants[j] :
       share[i][k] = share[j][z] => i = j /\ k = z
  /\ \A i \in 1..n : \A k \in 1..wants[i] : \E m \in 1..Len(take) : share[i][k] = take[m]
  /\ \A m \in 1..Len(take) : \E i \in 1..n : \E k \in 1..wants[i] : take[m] = share[i][k]

LEMMA TakeIsDealt ==
  ASSUME NEW S, NEW n, NEW wants, NEW take, NEW share, Dealing(S, n, wants, take, share)
  PROVE  Dealt(S, n, wants, take, share)
<1> USE DEF Dealing
<1> DEFINE from == Offsets(wants)
           N == Len(take)
<1>1. Stretches(n, wants) /\ N = from[n] /\ N \in Nat
  <2>1. Stretches(n, wants) BY OffsetsCut
  <2>2. N = from[n] /\ N \in Nat OBVIOUS
  <2> QED BY <2>1, <2>2
<1>2. /\ \A m \in 1..N : take[m] \in S
      /\ \A a, b \in 1..N : take[a] = take[b] => a = b
  BY DEF Distinct
<1>3. \A i \in 1..n : share[i] = SubSeq(take, from[i - 1] + 1, from[i]) OBVIOUS
<1> HIDE DEF from, N
<1>4. /\ \A i \in 1..n : from[i - 1] \in Nat /\ from[i] = from[i - 1] + wants[i] /\ from[i] <= N
      /\ \A i, j \in 1..n : \A k \in 1..wants[i], z \in 1..wants[j] :
           from[i - 1] + k = from[j - 1] + z => i = j /\ k = z
      /\ \A m \in 1..N : \E i \in 1..n : m - from[i - 1] \in 1..wants[i]
  <2>1. \A i \in 1..n : i \in 0..n OBVIOUS
  <2> QED BY <1>1, <2>1 DEF Stretches, from
<1>5. ASSUME NEW i \in 1..n
      PROVE  /\ share[i] \in Seq(S) /\ Len(share[i]) = wants[i]
             /\ \A k \in 1..wants[i] : from[i - 1] + k \in 1..N /\ share[i][k] = take[from[i - 1] + k]
  <2> DEFINE a == from[i - 1]
             c == wants[i]
  <2>1. a \in Nat /\ c \in Nat /\ a + c <= N /\ share[i] = SubSeq(take, a + 1, a + c)
    BY <1>3, <1>4
  <2> HIDE DEF a, c
  <2>2. \A m \in (a + 1)..(a + c) : take[m] \in S
    <3>1. \A m \in (a + 1)..(a + c) : m \in 1..N BY <1>1, <2>1
    <3> QED BY <1>2, <3>1
  <2>3. /\ share[i] \in Seq(S)
        /\ Len(share[i]) = IF a + 1 <= a + c THEN (a + c) - (a + 1) + 1 ELSE 0
        /\ \A k \in 1..((a + c) - (a + 1) + 1) : share[i][k] = take[(a + 1) + k - 1]
    <3>1. a + 1 \in Int /\ a + c \in Int BY <2>1
    <3> QED BY <2>1, <2>2, <3>1, SubSeqProperties
  <2>4. Len(share[i]) = c BY <2>1, <2>3
  <2>5. ASSUME NEW k \in 1..c PROVE a + k \in 1..N /\ share[i][k] = take[a + k]
    <3>1. k \in 1..((a + c) - (a + 1) + 1) /\ (a + 1) + k - 1 = a + k BY <2>1
    <3>2. a + k \in 1..N BY <1>1, <2>1
    <3>3. share[i][k] = take[(a + 1) + k - 1] BY <2>3, <3>1
    <3> QED BY <3>1, <3>2, <3>3
  <2> QED BY <2>3, <2>4, <2>5 DEF a, c
<1>6. ASSUME NEW i \in 1..n, NEW j \in 1..n, NEW k \in 1..wants[i], NEW z \in 1..wants[j],
             share[i][k] = share[j][z]
      PROVE  i = j /\ k = z
  <2>1. from[i - 1] + k = from[j - 1] + z
    <3> DEFINE a == from[i - 1] + k
               b == from[j - 1] + z
    <3>1. a \in 1..N /\ share[i][k] = take[a] BY <1>5
    <3>2. b \in 1..N /\ share[j][z] = take[b] BY <1>5
    <3> HIDE DEF a, b
    <3>3. a = b BY <1>2, <1>6, <3>1, <3>2
    <3> QED BY <3>3 DEF a, b
  <2> QED BY <1>4, <2>1
<1>7. ASSUME NEW m \in 1..N
      PROVE  \E i \in 1..n : \E k \in 1..wants[i] : take[m] = share[i][k]
  <2>1. PICK i \in 1..n : m - from[i - 1] \in 1..wants[i] BY <1>4
  <2>2. from[i - 1] \in Nat /\ m \in Nat
    <3>1. N \in Nat BY <1>1
    <3>2. m \in Nat BY <3>1
    <3> QED BY <1>4, <3>2
  <2> DEFINE k == m - from[i - 1]
  <2>3. k \in 1..wants[i] /\ from[i - 1] + k = m BY <2>1, <2>2
  <2> HIDE DEF k
  <2>4. take[m] = share[i][k] BY <1>5, <2>3
  <2> QED BY <2>3, <2>4
<1>8. \A i \in 1..n : \A k \in 1..wants[i] : \E m \in 1..N : share[i][k] = take[m]
  BY <1>5
<1> QED BY <1>5, <1>6, <1>7, <1>8 DEF N, Dealt

(* How many new pages each request of a batch wants, and the ones it gets. *)
Wants(batch) ==
  [i \in 1..Len(batch) |-> IF Needed(batch[i]) <= held[batch[i].req] THEN 0
                           ELSE Ceil(Needed(batch[i])) - Ceil(held[batch[i].req])]
Share(batch, take) ==
  [i \in 1..Len(batch) |->
     SubSeq(take, Offsets(Wants(batch))[i - 1] + 1, Offsets(Wants(batch))[i])]

LEMMA StartBatch ==
  ASSUME PoolInv, NEW mode, NEW batch \in Batches, NEW take, NEW skew,
         StartPass(mode, batch, take, skew)
  PROVE  /\ Len(batch) \in Nat \ {0} /\ batch \in Seq(BatchOf)
         /\ \A i \in 1..Len(batch) :
              /\ batch[i].req \in Running /\ batch[i].req \in Requests /\ batch[i].ext \in Nat \ {0}
              /\ Needed(batch[i]) \in 0..MaxContext /\ held[batch[i].req] \in 0..MaxContext
         /\ \A i, k \in 1..Len(batch) : batch[i].req = batch[k].req => i = k
         /\ Wants(batch) \in [1..Len(batch) -> Nat]
<1> USE DEF PoolInv
<1> DEFINE n == Len(batch)
<1>1. batch \in Seq(BatchOf) /\ n \in Nat \ {0} /\ \A i \in 1..n : batch[i] \in BatchOf
  <2> HIDE DEF PoolInv
  <2>1. PICK m \in 1..Cardinality(Rows) : batch \in [1..m -> BatchOf] BY DEF Batches
  <2>2. m \in Nat \ {0}
    <3>1. Cardinality(Rows) \in Nat BY PoolAssumption, FS_CardinalityType
    <3> QED BY <3>1
  <2>3. batch \in Seq(BatchOf) /\ n = m BY <2>1, <2>2, FunctionIsSeq
  <2> QED BY <2>1, <2>2, <2>3
<1>2. /\ \A i \in 1..n : batch[i].req \in Running /\ Needed(batch[i]) <= MaxContext
      /\ Distinct([i \in 1..n |-> batch[i].req])
  BY DEF StartPass
<1>3. ASSUME NEW i \in 1..n
      PROVE  /\ batch[i].req \in Running /\ batch[i].req \in Requests /\ batch[i].ext \in Nat \ {0}
             /\ Needed(batch[i]) \in 0..MaxContext /\ held[batch[i].req] \in 0..MaxContext
  <2>1. batch[i].ext \in Nat \ {0} /\ batch[i].req \in Requests BY <1>1, PoolAssumption DEF BatchOf
  <2>2. batch[i].req \in Running /\ Len(hist[batch[i].req]) \in Nat BY <1>2, <2>1 DEF PoolTypeOK
  <2>3. held[batch[i].req] \in 0..MaxContext BY <2>2, EntryType
  <2>4. Needed(batch[i]) \in Nat BY <2>1, <2>2 DEF Needed
  <2> QED BY <1>2, <2>1, <2>2, <2>3, <2>4, SizeType
<1>4. ASSUME NEW i \in 1..n, NEW k \in 1..n, batch[i].req = batch[k].req PROVE i = k
  <2> DEFINE q == [m \in 1..n |-> batch[m].req]
  <2>1. n \in Nat /\ DOMAIN q = 1..n /\ [m \in 1..n |-> q[m]] = q BY <1>1
  <2>2. Distinct(q) /\ q[i] = q[k] BY <1>2, <1>4
  <2> HIDE DEF q, n
  <2> QED BY <2>1, <2>2, DistinctEntries
<1>5. ASSUME NEW i \in 1..n PROVE Wants(batch)[i] \in Nat
  <2> DEFINE a == Needed(batch[i])
             h == held[batch[i].req]
  <2>1. a \in Nat /\ h \in Nat BY <1>3, SizeType
  <2>2. Wants(batch)[i] = IF a <= h THEN 0 ELSE Ceil(a) - Ceil(h) BY DEF Wants
  <2> HIDE DEF a, h
  <2>3. CASE a <= h BY <2>2, <2>3
  <2>4. CASE ~(a <= h)
    <3>1. Ceil(a) \in Nat /\ Ceil(h) \in Nat BY <2>1, CeilBounds
    <3>2. Ceil(h) <= Ceil(a) BY <2>1, <2>4, CeilMonotone
    <3> QED BY <2>2, <2>4, <3>1, <3>2
  <2> QED BY <2>3, <2>4
<1>6. Wants(batch) \in [1..n -> Nat]
  <2>1. Wants(batch) = [i \in 1..n |-> Wants(batch)[i]] BY DEF Wants
  <2> QED BY <1>5, <2>1
<1> QED BY <1>1, <1>3, <1>4, <1>6

(* Every page taken goes to one request, at one place, and leaves the      *)
(* allocator.                                                              *)
PagesDealt(n, wants, share) ==
  /\ \A i \in 1..n : share[i] \in Seq(freePages) /\ Len(share[i]) = wants[i]
  /\ \A i, j \in 1..n : \A k \in 1..wants[i], z \in 1..wants[j] :
       share[i][k] = share[j][z] => i = j /\ k = z
  /\ \A i \in 1..n : \A k \in 1..wants[i] :
       share[i][k] \in freePages /\ share[i][k] \notin freePages'
  /\ freePages' \subseteq freePages
  /\ \A g \in freePages : g \in freePages' \/
       \E i \in 1..n : \E k \in 1..wants[i] : g = share[i][k]

LEMMA StartShares ==
  ASSUME PoolInv, NEW mode, NEW batch \in Batches, NEW take \in Takes, NEW skew,
         StartPass(mode, batch, take, skew)
  PROVE  PagesDealt(Len(batch), Wants(batch), Share(batch, take))
<1> DEFINE n == Len(batch)
           share == Share(batch, take)
           wants == Wants(batch)
<1>1. n \in Nat /\ wants \in [1..n -> Nat] BY StartBatch
<1>2. take \in Seq(freePages) BY DEF Takes
<1>3. /\ Len(take) = Offsets(wants)[n] /\ Distinct(take)
      /\ freePages' = freePages \ {take[j] : j \in 1..Len(take)}
  BY DEF StartPass, Wants
<1>4. \A i \in 1..n : share[i] = SubSeq(take, Offsets(wants)[i - 1] + 1, Offsets(wants)[i])
  BY DEF Share
<1> HIDE DEF n, wants, share
<1>5. /\ \A i \in 1..n : share[i] \in Seq(freePages) /\ Len(share[i]) = wants[i]
      /\ \A i, j \in 1..n : \A k \in 1..wants[i], z \in 1..wants[j] :
           share[i][k] = share[j][z] => i = j /\ k = z
      /\ \A i \in 1..n : \A k \in 1..wants[i] : \E m \in 1..Len(take) : share[i][k] = take[m]
      /\ \A m \in 1..Len(take) : \E i \in 1..n : \E k \in 1..wants[i] : take[m] = share[i][k]
  <2>1. Dealing(freePages, n, wants, take, share) BY <1>1, <1>2, <1>3, <1>4 DEF Dealing
  <2>2. Dealt(freePages, n, wants, take, share) BY <2>1, TakeIsDealt
  <2> QED BY <2>2 DEF Dealt
<1>6. \A m \in 1..Len(take) : take[m] \in freePages /\ take[m] \notin freePages' BY <1>2, <1>3
<1>7. \A i \in 1..n : \A k \in 1..wants[i] : share[i][k] \in freePages /\ share[i][k] \notin freePages'
  BY <1>5, <1>6
<1>8. \A g \in freePages : g \in freePages' \/ \E i \in 1..n : \E k \in 1..wants[i] : g = share[i][k]
  BY <1>3, <1>5
<1>9. freePages' \subseteq freePages BY <1>3
<1>10. PagesDealt(n, wants, share) BY <1>5, <1>7, <1>8, <1>9 DEF PagesDealt
<1> QED BY <1>10 DEF n, share, wants

LEMMA StartRow ==
  ASSUME PoolInv, NEW mode, NEW batch \in Batches, NEW take, NEW skew,
         StartPass(mode, batch, take, skew), NEW i \in 1..Len(batch)
  PROVE  /\ table'[rowOf[batch[i].req]] = Grown(batch[i].req, Needed(batch[i]), Share(batch, take)[i])
         /\ held'[batch[i].req] = IF Needed(batch[i]) > held[batch[i].req] THEN Needed(batch[i])
                                  ELSE held[batch[i].req]
<1> USE DEF PoolInv
<1> DEFINE x == batch[i].req
           w == rowOf[x]
<1>1. /\ \A k \in 1..Len(batch) : batch[k].req \in Running /\ batch[k].req \in Requests
      /\ \A k \in 1..Len(batch) : batch[k].req = x => k = i
  BY StartBatch
<1>2. x \in Running /\ x \in Requests /\ w \in Rows BY <1>1 DEF RowsApart
<1>3. \A k \in 1..Len(batch) : rowOf[batch[k].req] = w => k = i
  BY <1>1, <1>2 DEF RowsApart
<1>4. table' = [v \in Rows |->
        IF \E k \in 1..Len(batch) : rowOf[batch[k].req] = v
        THEN LET k == CHOOSE k \in 1..Len(batch) : rowOf[batch[k].req] = v
             IN  Grown(batch[k].req, Needed(batch[k]), Share(batch, take)[k])
        ELSE table[v]]
  <2> DEFINE from == Offsets(Wants(batch))
             new(k) == Grown(batch[k].req, Needed(batch[k]), SubSeq(take, from[k - 1] + 1, from[k]))
  <2>1. table' = [v \in Rows |->
          IF \E k \in 1..Len(batch) : rowOf[batch[k].req] = v
          THEN new(CHOOSE k \in 1..Len(batch) : rowOf[batch[k].req] = v)
          ELSE table[v]]
    BY DEF StartPass, Wants
  <2>2. \A k \in 1..Len(batch) : new(k) = Grown(batch[k].req, Needed(batch[k]), Share(batch, take)[k])
    BY DEF Share
  <2> HIDE DEF new
  <2> QED BY <2>1, <2>2
<1>5. table'[w] = Grown(x, Needed(batch[i]), Share(batch, take)[i])
  BY <1>2, <1>3, <1>4
<1>6. held' = [r \in Requests |->
        IF \E k \in 1..Len(batch) : batch[k].req = r /\ Needed(batch[k]) > held[r]
        THEN LET k == CHOOSE k \in 1..Len(batch) : batch[k].req = r IN Needed(batch[k])
        ELSE held[r]]
  BY DEF StartPass
<1>7. held'[x] = IF Needed(batch[i]) > held[x] THEN Needed(batch[i]) ELSE held[x]
  BY <1>1, <1>2, <1>6
<1> QED BY <1>5, <1>7

LEMMA StartOtherRow ==
  ASSUME PoolInv, NEW mode, NEW batch \in Batches, NEW take, NEW skew,
         StartPass(mode, batch, take, skew), NEW x \in Running, \A i \in 1..Len(batch) : batch[i].req # x
  PROVE  table'[rowOf[x]] = table[rowOf[x]] /\ held'[x] = held[x]
<1> USE DEF PoolInv
<1>1. \A k \in 1..Len(batch) : batch[k].req \in Running BY StartBatch
<1>2. x \in Requests /\ rowOf[x] \in Rows /\ \A k \in 1..Len(batch) : rowOf[batch[k].req] # rowOf[x]
  BY <1>1 DEF RowsApart, Running
<1>3. table'[rowOf[x]] = table[rowOf[x]] BY <1>2 DEF StartPass
<1>4. held'[x] = held[x] BY <1>2 DEF StartPass
<1> QED BY <1>3, <1>4

(* Every entry of a running request, new or old, after the pass started.   *)
LEMMA StartEntries ==
  ASSUME PoolInv, NEW mode, NEW batch \in Batches, NEW take \in Takes, NEW skew,
         StartPass(mode, batch, take, skew), NEW x \in Running
  PROVE  /\ held'[x] \in 0..MaxContext /\ held[x] <= held'[x]
         /\ table'[rowOf[x]] \in [1..MaxContext -> Slot]
         /\ \A p \in 1..held[x] : table'[rowOf[x]][p] = Entry(x, p)
         /\ \A p \in 1..held'[x] :
              /\ InPlace(p, table'[rowOf[x]][p])
              /\ \/ OldBlock(x, p, table'[rowOf[x]][p])
                 \/ \E i \in 1..Len(batch) :
                      x = batch[i].req /\ NewBlock(x, Share(batch, take)[i], p, table'[rowOf[x]][p])
<1>0. PoolTypeOK /\ RowsApart /\ Layout BY DEF PoolInv
<1> DEFINE h == held[x]
           g == table'[rowOf[x]]
<1>1. h \in 0..MaxContext /\ h \in Nat /\ MaxContext \in Nat BY <1>0, EntryType, SizeType
<1>2. CASE \A i \in 1..Len(batch) : batch[i].req # x
  <2>1. g = table[rowOf[x]] /\ held'[x] = h BY <1>2, StartOtherRow
  <2>2. \A p \in 1..h : g[p] = Entry(x, p) BY <2>1 DEF Entry
  <2>3. table[rowOf[x]] \in [1..MaxContext -> Slot] BY <1>0, EntryType DEF PoolTypeOK
  <2> HIDE DEF g
  <2>4. ASSUME NEW p \in 1..h PROVE InPlace(p, g[p]) /\ OldBlock(x, p, g[p])
    BY <1>0, <2>2 DEF Layout, InPlace, OldBlock, PageAt
  <2> HIDE DEF h
  <2>5. h <= held'[x] BY <1>1, <2>1
  <2> QED BY <1>1, <2>1, <2>2, <2>3, <2>4, <2>5 DEF g, h
<1>3. CASE \E i \in 1..Len(batch) : batch[i].req = x
  <2>1. PICK i \in 1..Len(batch) : x = batch[i].req BY <1>3
  <2> DEFINE m == Needed(batch[i])
             q == Share(batch, take)[i]
  <2>2. g = Grown(x, m, q) /\ held'[x] = IF m > h THEN m ELSE h
    <3> DEFINE r == batch[i].req
    <3>1. /\ table'[rowOf[r]] = Grown(r, m, q)
          /\ held'[r] = IF m > held[r] THEN m ELSE held[r]
      BY StartRow
    <3>2. x = r BY <2>1
    <3> HIDE DEF r, m, q
    <3> QED BY <3>1, <3>2
  <2>3. m \in 0..MaxContext BY StartBatch
  <2>4. q \in Seq(freePages) /\ Len(q) = Wants(batch)[i]
    <3> HIDE DEF q, g
    <3>1. \A k \in 1..Len(batch) :
            Share(batch, take)[k] \in Seq(freePages) /\ Len(Share(batch, take)[k]) = Wants(batch)[k]
      <4>1. PagesDealt(Len(batch), Wants(batch), Share(batch, take)) BY StartShares
      <4> QED BY <4>1 DEF PagesDealt
    <3> QED BY <3>1 DEF q
  <2>5. Wants(batch)[i] = IF m <= h THEN 0 ELSE Ceil(m) - Ceil(h) BY <2>1 DEF Wants
  <2> HIDE DEF g, h, m, q
  <2>6. q \in Seq(Page) BY <1>0, <2>4 DEF PoolTypeOK
  <2>7. m > h => Len(q) = Ceil(m) - Ceil(h) BY <1>1, <2>3, <2>4, <2>5
  <2>8. /\ g \in [1..MaxContext -> Slot]
        /\ \A p \in 1..h : g[p] = Entry(x, p)
        /\ \A p \in 1..MaxContext : p <= h \/ p <= m =>
             InPlace(p, g[p]) /\ (OldBlock(x, p, g[p]) \/ NewBlock(x, q, p, g[p]))
    BY <1>0, <2>2, <2>3, <2>6, <2>7, GrownIs DEF h
  <2>9. held'[x] \in 0..MaxContext /\ h <= held'[x] BY <1>1, <2>2, <2>3
  <2>10. \A p \in 1..held'[x] : p \in 1..MaxContext /\ (p <= h \/ p <= m) BY <1>1, <2>2, <2>3
  <2>11. \A p \in 1..held'[x] : InPlace(p, g[p]) /\ (OldBlock(x, p, g[p]) \/ NewBlock(x, q, p, g[p]))
    BY <2>8, <2>10
  <2> QED BY <2>1, <2>8, <2>9, <2>11 DEF g, h, q
<1> QED BY <1>2, <1>3

(* Every page taken is the page of some position of its request.           *)
LEMMA StartUsesAll ==
  ASSUME PoolInv, NEW mode, NEW batch \in Batches, NEW take \in Takes, NEW skew,
         StartPass(mode, batch, take, skew), NEW i \in 1..Len(batch), NEW k \in 1..Wants(batch)[i]
  PROVE  \E p \in 1..held'[batch[i].req] :
           PageOf(table'[rowOf[batch[i].req]][p]) = Share(batch, take)[i][k]
<1>0. PoolTypeOK /\ RowsApart /\ Layout BY DEF PoolInv
<1> DEFINE x == batch[i].req
           m == Needed(batch[i])
           h == held[x]
           b == Ceil(h) + k
           p == (b - 1) * PageSize + 1
           g == table'[rowOf[x]]
<1>1. x \in Running /\ m \in Nat /\ h \in Nat /\ \A j \in 1..Len(batch) : batch[j].req = x => j = i
  BY StartBatch, SizeType
<1>2. Wants(batch)[i] = IF m <= h THEN 0 ELSE Ceil(m) - Ceil(h) BY DEF Wants
<1>3. held'[x] = IF m > h THEN m ELSE h BY StartRow
<1>4. /\ \A y \in 1..held'[x] :
           \/ OldBlock(x, y, g[y])
           \/ \E j \in 1..Len(batch) : x = batch[j].req /\ NewBlock(x, Share(batch, take)[j], y, g[y])
  BY <1>1, StartEntries
<1>5. Len(Share(batch, take)[i]) = Wants(batch)[i] BY StartShares DEF PagesDealt
<1> HIDE DEF x, m, h, g
<1>6. Ceil(h) \in Nat /\ Ceil(m) \in Nat /\ PageSize \in Nat \ {0} BY <1>1, CeilBounds, SizeType
<1>7. m > h /\ k \in Nat \ {0} /\ k <= Ceil(m) - Ceil(h) BY <1>1, <1>2, <1>6
<1>8. b \in Nat \ {0} /\ b <= Ceil(m) /\ m \in Nat \ {0} BY <1>1, <1>6, <1>7
<1> HIDE DEF b
<1>9. (b - 1) * PageSize \in Nat BY <1>6, <1>8
<1>10. p \in Nat \ {0} /\ Ceil(p) = b
  <2>1. b * PageSize \in Nat /\ (b - 1) * PageSize = b * PageSize - PageSize BY <1>6, <1>8
  <2>2. p <= b * PageSize BY <1>6, <1>9, <2>1
  <2> QED BY <1>8, <1>9, <2>2, Block
<1>11. p <= m
  <2>1. First(m) <= m /\ First(m) = (Ceil(m) - 1) * PageSize + 1 BY <1>8, FirstBounds DEF First
  <2>2. CASE b = Ceil(m) BY <1>8, <1>9, <2>1, <2>2
  <2>3. CASE b # Ceil(m)
    <3>1. b - 1 \in Nat /\ Ceil(m) - 1 \in Nat /\ b - 1 < Ceil(m) - 1 BY <1>6, <1>8, <2>3
    <3>2. /\ (b - 1) * PageSize + PageSize <= (Ceil(m) - 1) * PageSize
          /\ (Ceil(m) - 1) * PageSize \in Nat
      BY <1>6, <3>1, Multiples
    <3> QED BY <1>1, <1>6, <1>9, <2>1, <3>2
  <2> QED BY <2>2, <2>3
<1> HIDE DEF p
<1>12. p \in 1..held'[x] BY <1>1, <1>3, <1>7, <1>10, <1>11
<1>13. ~OldBlock(x, p, g[p])
  <2> SUFFICES ASSUME OldBlock(x, p, g[p]) PROVE FALSE OBVIOUS
  <2>1. PICK y \in 1..held[x] : Ceil(y) = Ceil(p) BY DEF OldBlock
  <2>2. y \in Nat /\ y <= h BY <1>1 DEF h
  <2>3. Ceil(y) <= Ceil(h) BY <1>1, <2>2, CeilMonotone
  <2> QED BY <1>6, <1>7, <1>10, <2>1, <2>3 DEF b
<1>14. NewBlock(x, Share(batch, take)[i], p, g[p]) BY <1>1, <1>4, <1>12, <1>13
<1>15. PICK z \in 1..Len(Share(batch, take)[i]) :
         Ceil(p) = Ceil(held[x]) + z /\ PageOf(g[p]) = Share(batch, take)[i][z]
  BY <1>14 DEF NewBlock
<1>16. z = k
  <2>1. z \in Int
    <3>1. Wants(batch)[i] \in Nat BY StartBatch
    <3> QED BY <1>5, <3>1
  <2> QED BY <1>6, <1>7, <1>10, <1>15, <2>1 DEF b, h
<1> QED BY <1>12, <1>15, <1>16 DEF x, g

LEMMA StartPassStep ==
  ASSUME PoolInv, NEW mode \in {"extend", "decode"}, NEW batch \in Batches, NEW take \in Takes, NEW skew,
         StartPass(mode, batch, take, skew)
  PROVE  PoolInv'
<1> DEFINE share == Share(batch, take)
           wants == Wants(batch)
           Old(x, p) == \E y \in 1..held[x] : Ceil(y) = Ceil(p) /\ PageAt(x, p)' = PageAt(x, y)
           New(x, p) == \E i \in 1..Len(batch) : \E k \in 1..wants[i] :
                          /\ x = batch[i].req /\ Ceil(p) = Ceil(held[x]) + k
                          /\ PageAt(x, p)' = share[i][k]
<1>0. /\ PoolTypeOK /\ RowsApart /\ Layout /\ Shared /\ FreeApart /\ NonePagesLost
      /\ FreePagesUnreadable /\ CommittedEverywhere
  BY DEF PoolInv
<1>1. /\ UNCHANGED layerVars /\ grouping' = grouping /\ deferred' = deferred /\ rowOf' = rowOf
      /\ status' = status /\ hist' = hist /\ seen' = <<>>
      /\ pass' = [mode |-> mode, batch |-> batch, layer |-> 1, stage |-> "write",
                  host |-> [i \in 1..Len(batch) |-> Needed(batch[i]) + skew]]
      /\ mode = "decode" => \A i \in 1..Len(batch) : batch[i].ext = 1
      /\ Distinct([i \in 1..Len(batch) |-> batch[i].req])
  BY DEF StartPass
<1>2. content' = content /\ usable' = usable /\ Running' = Running /\ Pending' = Pending
  BY <1>1 DEF layerVars, Running, Pending
<1>3. /\ Len(batch) \in Nat \ {0} /\ batch \in Seq(BatchOf)
      /\ \A i \in 1..Len(batch) : batch[i].req \in Running
      /\ \A i, k \in 1..Len(batch) : batch[i].req = batch[k].req => i = k
      /\ wants \in [1..Len(batch) -> Nat]
  BY StartBatch
<1>4. \A x, p : Entry(x, p)' = table'[rowOf[x]][p] /\ PageAt(x, p)' = PageOf(table'[rowOf[x]][p])
  BY <1>1 DEF Entry, PageAt
<1>5. /\ \A i \in 1..Len(batch) : Len(share[i]) = wants[i]
      /\ \A i, j \in 1..Len(batch) : \A k \in 1..wants[i], z \in 1..wants[j] :
           share[i][k] = share[j][z] => i = j /\ k = z
      /\ \A i \in 1..Len(batch) : \A k \in 1..wants[i] :
           share[i][k] \in freePages /\ share[i][k] \notin freePages'
      /\ freePages' \subseteq freePages
      /\ \A g \in freePages : g \in freePages' \/
           \E i \in 1..Len(batch) : \E k \in 1..wants[i] : g = share[i][k]
  <2>1. PagesDealt(Len(batch), wants, share) BY StartShares
  <2> HIDE DEF share, wants
  <2> QED BY <2>1 DEF PagesDealt
<1> HIDE DEF share, wants
<1>6. ASSUME NEW x \in Running
      PROVE  /\ held'[x] \in 0..MaxContext /\ held[x] <= held'[x]
             /\ table'[rowOf[x]] \in [1..MaxContext -> Slot]
             /\ \A p \in 1..held[x] : Entry(x, p)' = Entry(x, p)
             /\ \A p \in 1..held'[x] :
                  /\ PageAt(x, p)' \in Page
                  /\ Entry(x, p)' = PageAt(x, p)' * PageSize + (p - First(p))
                  /\ Old(x, p) \/ New(x, p)
  <2> DEFINE g == table'[rowOf[x]]
  <2>1. /\ held'[x] \in 0..MaxContext /\ held[x] <= held'[x] /\ g \in [1..MaxContext -> Slot]
        /\ \A p \in 1..held[x] : g[p] = Entry(x, p)
    BY StartEntries
  <2>2. \A p \in 1..held'[x] :
          /\ InPlace(p, g[p])
          /\ \/ OldBlock(x, p, g[p])
             \/ \E i \in 1..Len(batch) : x = batch[i].req /\ NewBlock(x, share[i], p, g[p])
    BY StartEntries DEF share
  <2>3. \A p : Entry(x, p)' = g[p] /\ PageAt(x, p)' = PageOf(g[p]) BY <1>4
  <2> HIDE DEF g
  <2>4. ASSUME NEW p, OldBlock(x, p, g[p]) PROVE Old(x, p) BY <2>3, <2>4 DEF OldBlock
  <2>5. ASSUME NEW p, NEW i \in 1..Len(batch), x = batch[i].req, NewBlock(x, share[i], p, g[p])
        PROVE  New(x, p)
    <3>1. PICK k \in 1..Len(share[i]) : Ceil(p) = Ceil(held[x]) + k /\ PageOf(g[p]) = share[i][k]
      BY <2>5 DEF NewBlock
    <3>2. k \in 1..wants[i] /\ PageAt(x, p)' = share[i][k] BY <1>5, <2>3, <3>1
    <3> QED BY <2>5, <3>1, <3>2
  <2> HIDE DEF Old, New
  <2>6. \A p \in 1..held'[x] : Old(x, p) \/ New(x, p) BY <2>2, <2>4, <2>5
  <2>7. \A p \in 1..held'[x] : /\ PageAt(x, p)' \in Page
                               /\ Entry(x, p)' = PageAt(x, p)' * PageSize + (p - First(p))
    BY <2>2, <2>3 DEF InPlace
  <2> QED BY <2>1, <2>3, <2>6, <2>7 DEF g
<1>7. ASSUME NEW x \in Running, NEW p \in 1..held'[x], Old(x, p)
      PROVE  /\ PageAt(x, p)' \in OwnedPages /\ PageAt(x, p)' \notin freePages
             /\ PageAt(x, p)' \notin Pending
  BY <1>0, <1>7, OwnedApart
<1>8. ASSUME NEW x \in Running, NEW p \in 1..held'[x], New(x, p)
      PROVE  /\ PageAt(x, p)' \in freePages /\ PageAt(x, p)' \notin freePages'
             /\ PageAt(x, p)' \notin OwnedPages /\ PageAt(x, p)' \notin Pending
             /\ \A y \in 1..held[x] : Ceil(y) # Ceil(p)
  <2>1. PageAt(x, p)' \in freePages /\ PageAt(x, p)' \notin freePages' BY <1>5, <1>8
  <2>2. PageAt(x, p)' \notin OwnedPages /\ PageAt(x, p)' \notin Pending BY <1>0, <2>1 DEF FreeApart
  <2>3. ASSUME NEW y \in 1..held[x] PROVE Ceil(y) # Ceil(p)
    <3>1. PICK i \in 1..Len(batch) : \E k \in 1..wants[i] : Ceil(p) = Ceil(held[x]) + k BY <1>8
    <3>2. PICK k \in 1..wants[i] : Ceil(p) = Ceil(held[x]) + k BY <3>1
    <3>3. held[x] \in Nat /\ y \in Nat /\ y <= held[x] BY <1>0, EntryType, SizeType
    <3>4. Ceil(y) \in Nat /\ Ceil(held[x]) \in Nat /\ Ceil(y) <= Ceil(held[x])
      BY <3>3, CeilBounds, CeilMonotone
    <3>5. k \in Nat \ {0} BY <1>3
    <3> QED BY <3>2, <3>4, <3>5
  <2> QED BY <2>1, <2>2, <2>3
<1>9. ASSUME NEW x \in Running, NEW y \in Running, NEW p \in 1..held'[x], NEW z \in 1..held'[y],
             New(x, p), New(y, z)
      PROVE  /\ PageAt(x, p)' = PageAt(y, z)' => x = y /\ Ceil(p) = Ceil(z)
             /\ x = y /\ Ceil(p) = Ceil(z) => PageAt(x, p)' = PageAt(y, z)'
  <2>1. PICK i \in 1..Len(batch) : \E k \in 1..wants[i] :
          x = batch[i].req /\ Ceil(p) = Ceil(held[x]) + k /\ PageAt(x, p)' = share[i][k]
    BY <1>9
  <2>2. PICK k \in 1..wants[i] :
          x = batch[i].req /\ Ceil(p) = Ceil(held[x]) + k /\ PageAt(x, p)' = share[i][k]
    BY <2>1
  <2>3. PICK j \in 1..Len(batch) : \E n \in 1..wants[j] :
          y = batch[j].req /\ Ceil(z) = Ceil(held[y]) + n /\ PageAt(y, z)' = share[j][n]
    BY <1>9
  <2>4. PICK n \in 1..wants[j] :
          y = batch[j].req /\ Ceil(z) = Ceil(held[y]) + n /\ PageAt(y, z)' = share[j][n]
    BY <2>3
  <2> HIDE DEF New
  <2>5. ASSUME PageAt(x, p)' = PageAt(y, z)' PROVE x = y /\ Ceil(p) = Ceil(z)
    <3>1. share[i][k] = share[j][n] BY <2>2, <2>4, <2>5
    <3>2. \A a, b \in 1..Len(batch) : \A c \in 1..wants[a], d \in 1..wants[b] :
            share[a][c] = share[b][d] => a = b /\ c = d
      BY <1>5
    <3>3. i = j /\ k = n BY <3>1, <3>2
    <3> QED BY <2>2, <2>4, <3>3
  <2>6. ASSUME x = y, Ceil(p) = Ceil(z) PROVE PageAt(x, p)' = PageAt(y, z)'
    <3>1. i = j BY <1>3, <2>2, <2>4, <2>6
    <3>2. Ceil(held[x]) \in Nat
      <4>1. held[x] \in Nat BY <1>0, EntryType, SizeType
      <4> QED BY <4>1, CeilBounds
    <3>3. k \in Nat /\ n \in Nat BY <1>3
    <3>4. k = n BY <2>2, <2>4, <2>6, <3>2, <3>3
    <3> QED BY <2>2, <2>4, <3>1, <3>4
  <2> QED BY <2>5, <2>6
<1> HIDE DEF New
<1>10. Layout'
  <2> SUFFICES ASSUME NEW x \in Running, NEW p \in 1..held'[x], NEW y \in 1..held'[x]
               PROVE  PageAt(x, p)' = PageAt(x, y)' <=> Ceil(p) = Ceil(y)
    BY <1>2, <1>6 DEF Layout
  <2>1. CASE Old(x, p) /\ Old(x, y)
    <3>1. PICK a \in 1..held[x] : Ceil(a) = Ceil(p) /\ PageAt(x, p)' = PageAt(x, a) BY <2>1
    <3>2. PICK b \in 1..held[x] : Ceil(b) = Ceil(y) /\ PageAt(x, y)' = PageAt(x, b) BY <2>1
    <3>3. PageAt(x, a) = PageAt(x, b) <=> Ceil(a) = Ceil(b) BY <1>0 DEF Layout
    <3> QED BY <3>1, <3>2, <3>3
  <2>2. CASE New(x, p) /\ New(x, y) BY <1>9, <2>2
  <2>3. CASE Old(x, p) /\ New(x, y)
    <3>1. PageAt(x, p)' # PageAt(x, y)' BY <1>7, <1>8, <2>3
    <3>2. Ceil(p) # Ceil(y) BY <1>8, <2>3
    <3> QED BY <3>1, <3>2
  <2>4. CASE New(x, p) /\ Old(x, y)
    <3>1. PageAt(x, p)' # PageAt(x, y)' BY <1>7, <1>8, <2>4
    <3>2. Ceil(p) # Ceil(y) BY <1>8, <2>4
    <3> QED BY <3>1, <3>2
  <2> HIDE DEF Old
  <2> QED BY <1>6, <2>1, <2>2, <2>3, <2>4
<1>11. Shared'
  <2> SUFFICES ASSUME NEW x \in Running, NEW y \in Running, NEW p \in 1..held'[x], NEW z \in 1..held'[y],
                      x # y, PageAt(x, p)' = PageAt(y, z)'
               PROVE  /\ Ceil(p) = Ceil(z)
                      /\ Ceil(p) * PageSize <= Len(hist[x]) /\ Ceil(p) * PageSize <= Len(hist[y])
                      /\ \A k \in 1..(Ceil(p) * PageSize) : hist[x][k] = hist[y][k]
    BY <1>1, <1>2 DEF Shared
  <2>1. CASE Old(x, p) /\ Old(y, z)
    <3>1. PICK a \in 1..held[x] : Ceil(a) = Ceil(p) /\ PageAt(x, p)' = PageAt(x, a) BY <2>1
    <3>2. PICK b \in 1..held[y] : Ceil(b) = Ceil(z) /\ PageAt(y, z)' = PageAt(y, b) BY <2>1
    <3>3. PageAt(x, a) = PageAt(y, b) BY <3>1, <3>2
    <3>4. /\ Ceil(a) = Ceil(b)
          /\ Ceil(a) * PageSize <= Len(hist[x]) /\ Ceil(a) * PageSize <= Len(hist[y])
          /\ \A k \in 1..(Ceil(a) * PageSize) : hist[x][k] = hist[y][k]
      BY <1>0, <3>3 DEF Shared
    <3> QED BY <3>1, <3>2, <3>4
  <2>2. CASE New(x, p) /\ New(y, z) BY <1>9, <2>2
  <2>3. CASE Old(x, p) /\ New(y, z) BY <1>7, <1>8, <2>3
  <2>4. CASE New(x, p) /\ Old(y, z) BY <1>7, <1>8, <2>4
  <2> HIDE DEF Old
  <2> QED BY <1>6, <2>1, <2>2, <2>3, <2>4
<1> HIDE DEF Old
<1>12. OwnedPages' = {g \in Page : \E x \in Running : \E p \in 1..held'[x] : g = PageAt(x, p)'}
  <2>1. \A x \in Running : PagesOf(x)' = {PageAt(x, p)' : p \in 1..held'[x]}
    BY DEF PagesOf, Owned, PageAt
  <2>2. OwnedPages' = UNION {PagesOf(x)' : x \in Running} BY <1>2 DEF OwnedPages
  <2> QED BY <1>6, <2>1, <2>2
<1>13. OwnedPages \subseteq OwnedPages'
  <2>1. ASSUME NEW x \in Running, NEW p \in 1..held[x] PROVE PageAt(x, p) \in OwnedPages'
    <3>1. held[x] \in Nat /\ held'[x] \in Nat /\ held[x] <= held'[x] BY <1>0, <1>6, EntryType, SizeType
    <3>2. p \in 1..held'[x] /\ PageAt(x, p)' = PageAt(x, p) BY <1>6, <3>1 DEF PageAt
    <3> QED BY <1>6, <1>12, <3>2
  <2>2. OwnedPages = UNION {PagesOf(x) : x \in Running} BY DEF OwnedPages
  <2>3. \A x \in Running : PagesOf(x) = {PageAt(x, p) : p \in 1..held[x]}
    BY DEF PagesOf, Owned, PageAt
  <2> QED BY <2>1, <2>2, <2>3
<1>14. ASSUME NEW g \in OwnedPages' PROVE g \in OwnedPages \/ (g \in freePages /\ g \notin freePages')
  <2>1. PICK x \in Running : \E p \in 1..held'[x] : g = PageAt(x, p)' BY <1>12
  <2>2. PICK p \in 1..held'[x] : g = PageAt(x, p)' BY <2>1
  <2> QED BY <1>6, <1>7, <1>8, <2>2
<1>15. FreeApart'
  <2>1. freePages' \cap OwnedPages' = {} /\ Pending' \cap OwnedPages' = {}
    BY <1>0, <1>2, <1>5, <1>14 DEF FreeApart
  <2> QED BY <1>0, <1>1, <1>2, <1>5, <2>1 DEF FreeApart
<1>16. NonePagesLost'
  <2> SUFFICES ASSUME \A l \in Layer : usable[l] PROVE freePages' \cup Pending \cup OwnedPages' = Page
    BY <1>2 DEF NonePagesLost
  <2>1. freePages \cup Pending \cup OwnedPages = Page BY <1>0 DEF NonePagesLost
  <2>2. freePages \subseteq freePages' \cup OwnedPages'
    <3> SUFFICES ASSUME NEW g \in freePages, g \notin freePages' PROVE g \in OwnedPages' OBVIOUS
    <3>1. PICK i \in 1..Len(batch) : \E k \in 1..wants[i] : g = share[i][k] BY <1>5
    <3>2. PICK k \in 1..wants[i] : g = share[i][k] BY <3>1
    <3> DEFINE x == batch[i].req
    <3>3. x \in Running BY <1>3
    <3>4. \E p \in 1..held'[x] : PageOf(table'[rowOf[x]][p]) = g
      BY <3>2, StartUsesAll DEF share, wants
    <3> HIDE DEF x
    <3>5. PICK p \in 1..held'[x] : PageAt(x, p)' = g BY <1>4, <3>4
    <3> QED BY <1>6, <1>12, <3>3, <3>5
  <2>3. OwnedPages' \subseteq Page BY <1>12
  <2> QED BY <1>5, <1>13, <2>1, <2>2, <2>3
<1>17. RowsApart' BY <1>0, <1>1, <1>2 DEF RowsApart
<1>18. PoolTypeOK'
  <2>1. table' \in [Rows -> [1..MaxContext -> Slot]]
    <3>1. DOMAIN table' = Rows /\ table' = [v \in Rows |-> table'[v]] BY DEF StartPass
    <3>2. ASSUME NEW v \in Rows PROVE table'[v] \in [1..MaxContext -> Slot]
      <4>1. CASE \E i \in 1..Len(batch) : rowOf[batch[i].req] = v BY <1>3, <1>6, <4>1
      <4>2. CASE ~\E i \in 1..Len(batch) : rowOf[batch[i].req] = v
        <5>1. table'[v] = table[v] BY <4>2 DEF StartPass
        <5> QED BY <1>0, <5>1 DEF PoolTypeOK
      <4> QED BY <4>1, <4>2
    <3> QED BY <3>1, <3>2
  <2>2. ASSUME NEW x \in Requests
        PROVE  held'[x] \in 0..MaxContext /\ held[x] <= held'[x] /\ held[x] \in Nat
    <3>1. held[x] \in 0..MaxContext /\ held[x] \in Nat BY <1>0, SizeType DEF PoolTypeOK
    <3>2. CASE x \in Running BY <1>6, <3>1, <3>2
    <3>3. CASE x \notin Running
      <4>1. \A i \in 1..Len(batch) : batch[i].req # x BY <1>3, <3>3
      <4>2. held'[x] = held[x] BY <4>1 DEF StartPass
      <4> QED BY <3>1, <4>2
    <3> QED BY <3>2, <3>3
  <2>3. held' \in [Requests -> 0..MaxContext]
    <3>1. held' = [x \in Requests |-> held'[x]] BY DEF StartPass
    <3> QED BY <2>2, <3>1
  <2>4. \A x \in Requests : Len(hist[x]) <= held'[x]
    <3>1. \A x \in Requests : Len(hist[x]) \in Nat /\ Len(hist[x]) <= held[x] BY <1>0 DEF PoolTypeOK
    <3>2. \A x \in Requests : held'[x] \in Nat BY <2>2, SizeType
    <3> QED BY <2>2, <3>1, <3>2
  <2>5. freePages' \subseteq Page BY <1>0, <1>5 DEF PoolTypeOK
  <2> QED BY <1>0, <1>1, <1>2, <2>1, <2>3, <2>4, <2>5 DEF PoolTypeOK
<1>19. FreePagesUnreadable' BY <1>0, <1>2, <1>5 DEF FreePagesUnreadable, SlotsOf
<1>20. CommittedEverywhere'
  <2> SUFFICES ASSUME NEW l \in Layer, usable[l], NEW x \in Running, NEW p \in 1..Len(hist[x])
               PROVE  content[l][Entry(x, p)'] = hist[x][p]
    BY <1>1, <1>2 DEF CommittedEverywhere
  <2>1. p \in 1..held[x] BY <1>0, HeldEntry
  <2> QED BY <1>0, <1>6, <2>1 DEF CommittedEverywhere
<1>21. PassInv'
  <2>1. /\ Batch' = batch /\ pass'.mode = mode /\ pass'.layer = 1 /\ pass'.stage = "write"
    BY <1>1 DEF Batch
  <2>2. \A i \in 1..Len(batch) : Needed(batch[i])' = Needed(batch[i]) BY <1>1 DEF Needed
  <2>3. \A i \in 1..Len(batch) : Needed(batch[i]) <= held'[batch[i].req]
    <3> SUFFICES ASSUME NEW i \in 1..Len(batch) PROVE Needed(batch[i]) <= held'[batch[i].req] OBVIOUS
    <3>1. Needed(batch[i]) \in 0..MaxContext /\ held[batch[i].req] \in 0..MaxContext BY StartBatch
    <3>2. held'[batch[i].req] = IF Needed(batch[i]) > held[batch[i].req] THEN Needed(batch[i])
                                ELSE held[batch[i].req]
      BY StartRow
    <3> QED BY <3>1, <3>2, SizeType
  <2>4. 1 \in Layer BY SizeType DEF Layer
  <2>5. PassShape' BY <1>1, <1>2, <1>3, <2>1, <2>2, <2>3, <2>4 DEF PassShape
  <2>6. \A l \in Layer : ~Written(l)' BY <2>1, SizeType DEF Written, Layer
  <2>7. PassWrote' BY <2>6 DEF PassWrote
  <2> QED BY <2>5, <2>7 DEF PassInv
<1>22. AnsweredCausally' BY <1>1 DEF AnsweredCausally
<1> QED BY <1>10, <1>11, <1>15, <1>16, <1>17, <1>18, <1>19, <1>20, <1>21, <1>22 DEF PoolInv

--------------------------------------------------------------------------------
(* Moving a page.                                                          *)

(* The committed positions of block j of r, and where a move takes them.   *)
BlockFirst(j) == (j - 1) * PageSize + 1
BlockLast(r, j) == IF j * PageSize < Len(hist[r]) THEN j * PageSize ELSE Len(hist[r])
Source(r, j) ==
  [i \in 1..(BlockLast(r, j) - BlockFirst(j) + 1) |-> Entry(r, BlockFirst(j) + i - 1)]
Target(r, j, to) == [i \in 1..Len(Source(r, j)) |-> to * PageSize + i - 1]

LEMMA BlockIs ==
  ASSUME PoolTypeOK, RowsApart, Layout, NEW r \in Running, NEW j \in 1..MaxContext,
         held[r] = Len(hist[r]), BlockFirst(j) <= Len(hist[r])
  PROVE  /\ BlockFirst(j) \in 1..held[r] /\ BlockLast(r, j) \in BlockFirst(j)..held[r]
         /\ BlockLast(r, j) - BlockFirst(j) + 1 \in 1..PageSize
         /\ \A p \in 1..held[r] : Ceil(p) = j <=> p \in BlockFirst(j)..BlockLast(r, j)
         /\ \A p \in BlockFirst(j)..BlockLast(r, j) : p \in 1..held[r] /\ First(p) = BlockFirst(j)
<1> DEFINE b == BlockFirst(j)
           e == BlockLast(r, j)
           h == held[r]
           m == j * PageSize
<1>1. j \in Nat \ {0} /\ PageSize \in Nat \ {0} /\ h \in Nat BY EntryType, SizeType
<1>2. m \in Nat /\ b = m - PageSize + 1 /\ b \in Nat \ {0}
  <2>1. m \in Nat /\ (j - 1) * PageSize \in Nat /\ (j - 1) * PageSize = m - PageSize BY <1>1
  <2> QED BY <1>1, <2>1 DEF BlockFirst
<1>3. e = IF m < h THEN m ELSE h BY DEF BlockLast
<1>4. \A p \in Nat \ {0} : Ceil(p) = j <=> b <= p /\ p <= m BY <1>1, Block DEF BlockFirst
<1>5. \A p \in Nat \ {0} : Ceil(p) = j => First(p) = b BY DEF First, BlockFirst
<1>6. b <= h OBVIOUS
<1> HIDE DEF b, e, h, m
<1>7. b \in 1..h /\ e \in b..h /\ e - b + 1 \in 1..PageSize BY <1>1, <1>2, <1>3, <1>6
<1>8. ASSUME NEW p \in 1..h PROVE Ceil(p) = j <=> p \in b..e
  BY <1>1, <1>2, <1>3, <1>4
<1>9. \A p \in b..e : p \in 1..h BY <1>1, <1>7
<1>10. \A p \in b..e : First(p) = b
  <2>1. \A p \in 1..h : p \in Nat \ {0} BY <1>1
  <2> QED BY <1>5, <1>8, <1>9, <2>1
<1> QED BY <1>7, <1>8, <1>9, <1>10 DEF b, e, h

(* The slots a move reads and writes, index by index.                      *)
LEMMA MoveSlots ==
  ASSUME PoolTypeOK, RowsApart, Layout, NEW r \in Running, NEW j \in 1..MaxContext, NEW to \in Page,
         held[r] = Len(hist[r]), BlockFirst(j) <= Len(hist[r])
  PROVE  /\ Len(Target(r, j, to)) \in 1..PageSize
         /\ PageOf(Source(r, j)[1]) = PageAt(r, BlockFirst(j))
         /\ \A i \in 1..Len(Target(r, j, to)) :
              Target(r, j, to)[i] \in Slot /\ PageOf(Target(r, j, to)[i]) = to
         /\ \A i, k \in 1..Len(Target(r, j, to)) : Target(r, j, to)[i] = Target(r, j, to)[k] => i = k
         /\ \A p \in BlockFirst(j)..BlockLast(r, j) :
              /\ p - BlockFirst(j) + 1 \in 1..Len(Target(r, j, to))
              /\ Target(r, j, to)[p - BlockFirst(j) + 1] = to * PageSize + (p - BlockFirst(j))
              /\ Source(r, j)[p - BlockFirst(j) + 1] = Entry(r, p)
         /\ \A i \in 1..Len(Target(r, j, to)) : Source(r, j)[i] \in Slot
<1> DEFINE b == BlockFirst(j)
           e == BlockLast(r, j)
           c == e - b + 1
           src == Source(r, j)
           dst == Target(r, j, to)
<1>1. /\ b \in 1..held[r] /\ e \in b..held[r] /\ c \in 1..PageSize
      /\ \A p \in b..e : p \in 1..held[r]
  BY BlockIs
<1>2. held[r] \in Nat /\ PageSize \in Nat \ {0} /\ to \in Nat BY EntryType, SizeType DEF Page
<1>3. src = [i \in 1..c |-> Entry(r, b + i - 1)] BY DEF Source
<1>4. dst = [i \in 1..Len(src) |-> to * PageSize + i - 1] BY DEF Target
<1> HIDE DEF b, e, src, dst
<1>5. b \in Nat \ {0} /\ e \in Nat /\ c \in Nat BY <1>1, <1>2
<1>6. \A i \in 1..c : b + i - 1 \in b..e /\ b + i - 1 \in 1..held[r] BY <1>1, <1>2, <1>5
<1> HIDE DEF c
<1>7. \A i \in 1..c : src[i] = Entry(r, b + i - 1) /\ src[i] \in Slot BY <1>3, <1>6, HeldEntry
<1>8. Len(src) = c
  <2>1. src \in [1..c -> Slot] BY <1>3, <1>7
  <2> QED BY <1>5, <2>1, FunctionIsSeq
<1>9. to * PageSize \in Nat BY <1>2
<1>10. \A i \in 1..c : dst[i] = to * PageSize + i - 1 /\ to * PageSize + i - 1 = to * PageSize + (i - 1)
  <2> DEFINE t == to * PageSize
  <2>1. dst = [i \in 1..c |-> t + i - 1] BY <1>4, <1>8
  <2>2. t \in Nat BY <1>9
  <2> HIDE DEF t
  <2>3. \A i \in 1..c : dst[i] = t + i - 1 /\ t + i - 1 = t + (i - 1) BY <1>5, <2>1, <2>2
  <2> QED BY <2>3 DEF t
<1>11. \A i \in 1..c : dst[i] \in Slot /\ PageOf(dst[i]) = to
  <2> SUFFICES ASSUME NEW i \in 1..c PROVE dst[i] \in Slot /\ PageOf(dst[i]) = to OBVIOUS
  <2>1. i - 1 \in 0..(PageSize - 1) BY <1>1, <1>2, <1>5
  <2>2. dst[i] = to * PageSize + (i - 1) BY <1>10
  <2> QED BY <1>2, <2>1, <2>2, SlotInPage
<1>12. Len(dst) = c
  <2>1. dst \in [1..c -> Slot]
    <3>1. DOMAIN dst = 1..c BY <1>4, <1>8
    <3>2. dst = [i \in 1..c |-> dst[i]] BY <1>4, <1>8
    <3> QED BY <1>11, <3>2
  <2> QED BY <1>5, <2>1, FunctionIsSeq
<1>13. \A i, k \in 1..c : dst[i] = dst[k] => i = k
  <2> DEFINE t == to * PageSize
  <2>1. t \in Nat /\ \A i \in 1..c : dst[i] = t + i - 1 BY <1>9, <1>10
  <2> HIDE DEF t
  <2> QED BY <1>5, <2>1
<1>14. ASSUME NEW p \in b..e
       PROVE  /\ p - b + 1 \in 1..c /\ dst[p - b + 1] = to * PageSize + (p - b)
              /\ src[p - b + 1] = Entry(r, p)
  <2> DEFINE i == p - b + 1
  <2>1. i \in 1..c /\ b + i - 1 = p /\ i - 1 = p - b BY <1>5 DEF c
  <2> HIDE DEF i
  <2>2. dst[i] = to * PageSize + (i - 1) BY <1>10, <2>1
  <2>3. src[i] = Entry(r, b + i - 1) BY <1>7, <2>1
  <2> QED BY <2>1, <2>2, <2>3 DEF i
<1>15. PageOf(src[1]) = PageAt(r, b)
  <2>1. 1 \in 1..c /\ b + 1 - 1 = b BY <1>1, <1>2, <1>5
  <2>2. src[1] = Entry(r, b + 1 - 1) BY <1>7, <2>1
  <2> QED BY <2>1, <2>2 DEF PageAt
<1>16. c \in 1..PageSize BY <1>1 DEF c
<1> QED BY <1>7, <1>11, <1>12, <1>13, <1>14, <1>15, <1>16 DEF b, e, src, dst

(* A refused move takes the page off the free list and writes only in it.  *)
PageSpent(to) ==
  /\ freePages' = freePages \ {to} /\ table' = table
  /\ \A l \in Layer, s \in Slot : PageOf(s) # to => content'[l][s] = content[l][s]


LEMMA MoveEffect ==
  ASSUME PoolInv, NEW r \in Requests, NEW j \in 1..MaxContext, NEW to \in Page, MovePage(r, j, to),
         NEW old, old = PageAt(r, BlockFirst(j))
  PROVE  /\ r \in Running /\ held[r] = Len(hist[r]) /\ BlockFirst(j) <= Len(hist[r])
         /\ to \in freePages /\ old \in Page /\ old # to
         /\ \A x \in Running \ {r} : old \notin PagesOf(x)
         /\ content' \in [Layer -> [Slot -> Token \cup {Unwritten}]]
         /\ \A l \in Layer, s \in Slot :
              PageOf(s) # to => content'[l][s] = IF Reached = Layer /\ PageOf(s) = old THEN Unwritten
                                                 ELSE content[l][s]
         /\ Reached = Layer =>
              /\ \A l \in Layer : \A p \in BlockFirst(j)..BlockLast(r, j) :
                   content'[l][to * PageSize + (p - BlockFirst(j))] = content[l][Entry(r, p)]
              /\ freePages' = (freePages \ {to}) \cup {old}
              /\ table' = [table EXCEPT ![rowOf[r]] =
                   [p \in 1..MaxContext |->
                      IF p \in BlockFirst(j)..BlockLast(r, j) THEN to * PageSize + (p - BlockFirst(j))
                      ELSE table[rowOf[r]][p]]]
         /\ Reached # Layer => PageSpent(to)
<1>0. /\ PoolTypeOK /\ RowsApart /\ Layout /\ Shared /\ FreeApart BY DEF PoolInv
<1> DEFINE b == BlockFirst(j)
           e == BlockLast(r, j)
           src == Source(r, j)
           dst == Target(r, j, to)
<1>1. /\ r \in Running /\ to \in freePages /\ held[r] = Len(hist[r]) /\ b <= Len(hist[r])
      /\ \A x \in Running \ {r} : PageOf(src[1]) \notin PagesOf(x)
      /\ content' = [l \in Layer |->
           IF l \in Reached
           THEN IF Reached = Layer
                THEN Dropped(Moved(content[l], dst, src), SlotsOf({PageOf(src[1])}), Unwritten)
                ELSE Moved(content[l], dst, src)
           ELSE content[l]]
      /\ Reached = Layer =>
           /\ freePages' = (freePages \ {to}) \cup {PageOf(src[1])}
           /\ table' = [table EXCEPT ![rowOf[r]] =
                [p \in 1..MaxContext |-> IF p \in b..e THEN dst[p - b + 1] ELSE table[rowOf[r]][p]]]
      /\ Reached # Layer => freePages' = freePages \ {to} /\ table' = table
  BY DEF MovePage, BlockFirst, BlockLast, Source, Target
<1>2. /\ PageOf(src[1]) = old /\ Len(dst) \in 1..PageSize
      /\ \A i \in 1..Len(dst) : dst[i] \in Slot /\ PageOf(dst[i]) = to /\ src[i] \in Slot
      /\ \A i, k \in 1..Len(dst) : dst[i] = dst[k] => i = k
      /\ \A p \in b..e :
           p - b + 1 \in 1..Len(dst) /\ dst[p - b + 1] = to * PageSize + (p - b)
           /\ src[p - b + 1] = Entry(r, p)
  BY <1>0, <1>1, MoveSlots
<1>3. b \in 1..held[r] BY <1>0, <1>1, BlockIs
<1> HIDE DEF b, e, src, dst
<1>4. old \in Page /\ old # to
  <2>1. PageAt(r, b) \in Page /\ PageAt(r, b) \notin freePages BY <1>0, <1>1, <1>3, OwnedApart
  <2> QED BY <1>1, <2>1 DEF b
<1>5. ASSUME NEW l \in Layer, NEW s \in Slot
      PROVE  /\ PageOf(s) # to => Moved(content[l], dst, src)[s] = content[l][s]
             /\ \A i \in 1..Len(dst) : dst[i] = s =>
                  Moved(content[l], dst, src)[s] = content[l][src[i]]
             /\ Moved(content[l], dst, src)[s] \in Token \cup {Unwritten}
             /\ DOMAIN Moved(content[l], dst, src) = Slot
             /\ content[l][s] \in Token \cup {Unwritten}
  <2> DEFINE f == content[l]
             g == Moved(f, dst, src)
  <2>1. f \in [Slot -> Token \cup {Unwritten}] BY <1>0 DEF PoolTypeOK
  <2> HIDE DEF f
  <2>2. DOMAIN g = Slot BY <2>1 DEF Moved
  <2>3. \/ \E i \in 1..Len(dst) : dst[i] = s /\ g[s] = f[src[i]]
        \/ (\A i \in 1..Len(dst) : dst[i] # s) /\ g[s] = f[s]
    <3>1. s \in DOMAIN f BY <2>1
    <3> QED BY <3>1, MovedAt
  <2> HIDE DEF g
  <2> QED BY <1>2, <2>1, <2>2, <2>3 DEF f, g
<1>6. ASSUME NEW l \in Layer
      PROVE  /\ content'[l] \in [Slot -> Token \cup {Unwritten}]
             /\ \A s \in Slot :
                  /\ PageOf(s) # to =>
                       content'[l][s] = IF Reached = Layer /\ PageOf(s) = old THEN Unwritten
                                        ELSE content[l][s]
                  /\ Reached = Layer /\ PageOf(s) = to => content'[l][s] = Moved(content[l], dst, src)[s]
  <2> DEFINE g == Moved(content[l], dst, src)
  <2>1. \A s \in Slot : /\ g[s] \in Token \cup {Unwritten} /\ content[l][s] \in Token \cup {Unwritten}
                        /\ PageOf(s) # to => g[s] = content[l][s]
    BY <1>5
  <2>2. DOMAIN g = Slot
    <3>1. dst[1] \in Slot
      <4>1. 1 \in 1..Len(dst) BY <1>2, SizeType
      <4> QED BY <1>2, <4>1
    <3> QED BY <1>5, <3>1
  <2>3. DOMAIN content[l] = Slot /\ content[l] \in [Slot -> Token \cup {Unwritten}] BY <1>0 DEF PoolTypeOK
  <2>4. content'[l] = IF l \in Reached
                      THEN IF Reached = Layer THEN Dropped(g, SlotsOf({old}), Unwritten) ELSE g
                      ELSE content[l]
    BY <1>1, <1>2
  <2>5. g \in [Slot -> Token \cup {Unwritten}]
    <3>1. g = [s \in Slot |-> g[s]] BY <2>2 DEF Moved
    <3> QED BY <2>1, <3>1
  <2> HIDE DEF g
  <2>6. CASE Reached = Layer
    <3>1. content'[l] = [s \in Slot |-> IF s \in SlotsOf({old}) THEN Unwritten ELSE g[s]]
      BY <2>2, <2>4, <2>6 DEF Dropped
    <3>2. content'[l] \in [Slot -> Token \cup {Unwritten}] BY <2>1, <3>1
    <3>3. \A s \in Slot : content'[l][s] = IF PageOf(s) = old THEN Unwritten ELSE g[s]
      BY <3>1 DEF SlotsOf
    <3> QED BY <1>4, <2>1, <2>6, <3>2, <3>3 DEF g
  <2>7. CASE Reached # Layer
    <3>1. content'[l] = g \/ content'[l] = content[l] BY <2>4, <2>7
    <3> QED BY <2>1, <2>3, <2>5, <2>7, <3>1
  <2> QED BY <2>6, <2>7
<1>7. content' \in [Layer -> [Slot -> Token \cup {Unwritten}]]
  <2>1. content' = [l \in Layer |-> content'[l]] BY <1>1
  <2> QED BY <1>6, <2>1
<1>8. ASSUME Reached = Layer, NEW l \in Layer, NEW p \in b..e
      PROVE  content'[l][to * PageSize + (p - b)] = content[l][Entry(r, p)]
  <2> DEFINE i == p - b + 1
  <2>1. i \in 1..Len(dst) /\ dst[i] = to * PageSize + (p - b) /\ src[i] = Entry(r, p) BY <1>2
  <2> HIDE DEF i
  <2>2. dst[i] \in Slot /\ PageOf(dst[i]) = to BY <1>2, <2>1
  <2>3. content'[l][dst[i]] = Moved(content[l], dst, src)[dst[i]] BY <1>6, <1>8, <2>2
  <2>4. Moved(content[l], dst, src)[dst[i]] = content[l][src[i]] BY <1>5, <2>1, <2>2
  <2> QED BY <2>1, <2>3, <2>4
<1>9. Reached = Layer =>
        table' = [table EXCEPT ![rowOf[r]] =
          [p \in 1..MaxContext |-> IF p \in b..e THEN to * PageSize + (p - b) ELSE table[rowOf[r]][p]]]
  <2>1. \A p \in 1..MaxContext :
          (IF p \in b..e THEN dst[p - b + 1] ELSE table[rowOf[r]][p])
            = (IF p \in b..e THEN to * PageSize + (p - b) ELSE table[rowOf[r]][p])
    BY <1>2
  <2>2. [p \in 1..MaxContext |-> IF p \in b..e THEN dst[p - b + 1] ELSE table[rowOf[r]][p]]
          = [p \in 1..MaxContext |-> IF p \in b..e THEN to * PageSize + (p - b) ELSE table[rowOf[r]][p]]
    BY <2>1
  <2> QED BY <1>1, <2>2
<1>10. Reached = Layer => freePages' = (freePages \ {to}) \cup {old} BY <1>1, <1>2
<1>11. \A x \in Running \ {r} : old \notin PagesOf(x) BY <1>1, <1>2
<1>12. \A l \in Layer, s \in Slot :
         PageOf(s) # to => content'[l][s] = IF Reached = Layer /\ PageOf(s) = old THEN Unwritten
                                            ELSE content[l][s]
  BY <1>6
<1>13. Reached # Layer => PageSpent(to) BY <1>1, <1>12 DEF PageSpent
<1> QED BY <1>1, <1>4, <1>7, <1>8, <1>9, <1>10, <1>11, <1>12, <1>13 DEF b, e

(* A move some layer refused: the new page is lost, nothing else changes.  *)
LEMMA MoveRefusedStep ==
  ASSUME PoolInv, NEW r \in Requests, NEW j \in 1..MaxContext, NEW to \in Page, MovePage(r, j, to),
         Reached # Layer
  PROVE  PoolInv'
<1>0. /\ PoolTypeOK /\ RowsApart /\ Layout /\ Shared /\ FreeApart /\ NonePagesLost
      /\ FreePagesUnreadable /\ CommittedEverywhere
  BY DEF PoolInv
<1> DEFINE old == PageAt(r, BlockFirst(j))
<1>1. /\ to \in freePages /\ freePages' = freePages \ {to} /\ table' = table
      /\ content' \in [Layer -> [Slot -> Token \cup {Unwritten}]]
      /\ \A l \in Layer, s \in Slot : PageOf(s) # to => content'[l][s] = content[l][s]
  <2>1. old = PageAt(r, BlockFirst(j)) OBVIOUS
  <2> HIDE DEF old
  <2>2. to \in freePages BY DEF MovePage
  <2>3. content' \in [Layer -> [Slot -> Token \cup {Unwritten}]] BY <2>1, MoveEffect, Zenon
  <2>4. PageSpent(to) BY <2>1, MoveEffect, Zenon
  <2> QED BY <2>2, <2>3, <2>4 DEF PageSpent
<1>2. /\ usable' = usable /\ grouping' = grouping /\ deferred' = deferred /\ rowOf' = rowOf
      /\ status' = status /\ held' = held /\ hist' = hist /\ pass' = None /\ seen' = <<>>
  BY DEF MovePage
<1>3. UNCHANGED reqVars BY <1>1, <1>2 DEF reqVars
<1>4. /\ Running' = Running /\ OwnedPages' = OwnedPages
      /\ \A x, p : Entry(x, p)' = Entry(x, p)
      /\ RowsApart' /\ Layout' /\ Shared'
  BY <1>0, <1>3, SameRequests
<1>5. PoolTypeOK' BY <1>0, <1>1, <1>2 DEF PoolTypeOK
<1>6. Pending' = Pending BY <1>2 DEF Pending
<1>7. FreeApart' BY <1>0, <1>1, <1>2, <1>4, <1>6 DEF FreeApart
<1>8. NonePagesLost'
  <2>1. ~\A l \in Layer : usable[l] BY SizeType DEF Reached, Layer
  <2> QED BY <1>0, <1>2, <2>1 DEF NonePagesLost
<1>9. PassInv' /\ AnsweredCausally' BY <1>2 DEF PassInv, AnsweredCausally
<1>10. FreePagesUnreadable' BY <1>0, <1>1 DEF FreePagesUnreadable, SlotsOf
<1>11. CommittedEverywhere'
  <2> SUFFICES ASSUME NEW l \in Layer, usable[l], NEW x \in Running, NEW p \in 1..Len(hist[x])
               PROVE  content'[l][Entry(x, p)] = hist[x][p]
    BY <1>2, <1>4 DEF CommittedEverywhere
  <2>1. p \in 1..held[x] /\ Entry(x, p) \in Slot BY <1>0, HeldEntry
  <2>2. PageOf(Entry(x, p)) # to BY <1>0, <1>1, <2>1, OwnedApart DEF PageAt
  <2>3. content'[l][Entry(x, p)] = content[l][Entry(x, p)] BY <1>1, <2>1, <2>2
  <2> QED BY <1>0, <2>3 DEF CommittedEverywhere
<1> QED BY <1>4, <1>5, <1>7, <1>8, <1>9, <1>10, <1>11 DEF PoolInv

(* A move all layers made: block j of r is in the new page, and the old    *)
(* one, which no other request holds, is free.                             *)
LEMMA MovedStep ==
  ASSUME PoolInv, NEW r \in Requests, NEW j \in 1..MaxContext, NEW to \in Page, MovePage(r, j, to),
         Reached = Layer
  PROVE  PoolInv'
<1>0. /\ PoolTypeOK /\ RowsApart /\ Layout /\ Shared /\ FreeApart /\ NonePagesLost
      /\ FreePagesUnreadable /\ CommittedEverywhere
  BY DEF PoolInv
<1> DEFINE old == PageAt(r, BlockFirst(j))
           b == BlockFirst(j)
           e == BlockLast(r, j)
<1>1. /\ r \in Running /\ held[r] = Len(hist[r]) /\ b <= Len(hist[r])
      /\ to \in freePages /\ old \in Page /\ old # to
      /\ \A x \in Running \ {r} : old \notin PagesOf(x)
      /\ content' \in [Layer -> [Slot -> Token \cup {Unwritten}]]
      /\ \A l \in Layer, s \in Slot :
           PageOf(s) # to => content'[l][s] = IF PageOf(s) = old THEN Unwritten ELSE content[l][s]
      /\ \A l \in Layer : \A p \in b..e :
           content'[l][to * PageSize + (p - b)] = content[l][Entry(r, p)]
      /\ freePages' = (freePages \ {to}) \cup {old}
      /\ table' = [table EXCEPT ![rowOf[r]] =
           [p \in 1..MaxContext |-> IF p \in b..e THEN to * PageSize + (p - b) ELSE table[rowOf[r]][p]]]
  <2>1. old = PageAt(r, BlockFirst(j)) OBVIOUS
  <2> HIDE DEF old
  <2> QED BY <2>1, MoveEffect
<1>2. /\ b \in 1..held[r] /\ e \in b..held[r] /\ e - b + 1 \in 1..PageSize
      /\ \A p \in 1..held[r] : Ceil(p) = j <=> p \in b..e
      /\ \A p \in b..e : p \in 1..held[r] /\ First(p) = b
  BY <1>0, <1>1, BlockIs
<1>3. old = PageAt(r, b) OBVIOUS
<1> HIDE DEF b, e, old
<1>4. /\ usable' = usable /\ grouping' = grouping /\ deferred' = deferred /\ rowOf' = rowOf
      /\ status' = status /\ held' = held /\ hist' = hist /\ pass' = None /\ seen' = <<>>
      /\ ~grouping
  BY DEF MovePage
<1>5. Running' = Running /\ Pending' = {} /\ Pending = {}
  BY <1>0, <1>4 DEF Running, Pending, FreeApart
<1>6. held[r] \in Nat /\ held[r] \in 0..MaxContext /\ rowOf[r] \in Rows /\ MaxContext \in Nat
      /\ \A p \in 1..held[r] : p \in 1..MaxContext
  BY <1>0, <1>1, EntryType, HeldEntry, SizeType
<1>7. \A x \in Running : x # r => \A p : Entry(x, p)' = Entry(x, p) /\ PageAt(x, p)' = PageAt(x, p)
  <2>1. \A x \in Running : x # r => rowOf[x] \in Rows /\ rowOf[x] # rowOf[r] BY <1>0, <1>1 DEF RowsApart
  <2>2. \A x \in Running : x # r => table'[rowOf[x]] = table[rowOf[x]] BY <1>0, <1>1, <2>1 DEF PoolTypeOK
  <2> QED BY <1>4, <2>2 DEF Entry, PageAt
<1>8. \A p \in 1..MaxContext :
        Entry(r, p)' = IF p \in b..e THEN to * PageSize + (p - b) ELSE Entry(r, p)
  <2>1. table'[rowOf[r]] =
          [p \in 1..MaxContext |-> IF p \in b..e THEN to * PageSize + (p - b) ELSE table[rowOf[r]][p]]
    BY <1>0, <1>1, <1>6 DEF PoolTypeOK
  <2> QED BY <1>4, <2>1 DEF Entry
<1>9. ASSUME NEW p \in b..e
      PROVE  /\ p \in 1..held[r] /\ Entry(r, p)' = to * PageSize + (p - First(p)) /\ PageAt(r, p)' = to
             /\ Entry(r, p)' \in Slot /\ First(p) = b /\ PageAt(r, p) = old
  <2>1. p \in 1..held[r] /\ First(p) = b /\ p \in 1..MaxContext BY <1>2, <1>6
  <2>2. Entry(r, p)' = to * PageSize + (p - b) BY <1>8, <2>1
  <2>3. to \in Nat /\ PageSize \in Nat \ {0} BY SizeType DEF Page
  <2>4. p - b \in 0..(PageSize - 1)
    <3>1. b \in Nat /\ e \in Nat BY <1>2, <1>6
    <3> QED BY <1>2, <2>3, <3>1
  <2>5. PageOf(to * PageSize + (p - b)) = to /\ to * PageSize + (p - b) \in Slot
    <3> DEFINE o == p - b
    <3>1. o \in 0..(PageSize - 1) BY <2>4
    <3> HIDE DEF o
    <3>2. PageOf(to * PageSize + o) = to /\ to * PageSize + o \in Slot BY <2>3, <3>1, SlotInPage
    <3> QED BY <3>2 DEF o
  <2>6. PageAt(r, p) = PageAt(r, b)
    <3>1. b \in b..e BY <1>2, <1>6
    <3>2. Ceil(p) = j /\ Ceil(b) = j BY <1>2, <2>1, <3>1
    <3> QED BY <1>0, <1>1, <1>2, <2>1, <3>2 DEF Layout
  <2> QED BY <1>3, <2>1, <2>2, <2>5, <2>6 DEF PageAt
<1>10. ASSUME NEW p \in 1..held[r], p \notin b..e
       PROVE  Entry(r, p)' = Entry(r, p) /\ PageAt(r, p)' = PageAt(r, p) /\ PageAt(r, p) # old
  <2>1. Entry(r, p)' = Entry(r, p) BY <1>6, <1>8, <1>10
  <2>2. Ceil(p) # j BY <1>2, <1>10
  <2>3. Ceil(b) = j
    <3>1. b \in b..e BY <1>2, <1>6
    <3> QED BY <1>2, <3>1
  <2>4. PageAt(r, p) # PageAt(r, b) BY <1>0, <1>1, <1>2, <2>2, <2>3 DEF Layout
  <2> QED BY <1>3, <2>1, <2>4 DEF PageAt
<1>11. ASSUME NEW x \in Running, NEW p \in 1..held[x]
       PROVE  /\ PageAt(x, p) # to /\ PageAt(x, p) \in Page /\ PageAt(x, p) \in OwnedPages
              /\ x # r => PageAt(x, p) # old
  <2>1. PageAt(x, p) \in PagesOf(x) BY DEF PageAt, PagesOf, Owned
  <2> QED BY <1>0, <1>1, <2>1, OwnedApart
<1>12. Layout'
  <2> SUFFICES ASSUME NEW x \in Running, NEW p \in 1..held[x]
               PROVE  /\ PageAt(x, p)' \in Page
                      /\ Entry(x, p)' = PageAt(x, p)' * PageSize + (p - First(p))
                      /\ \A y \in 1..held[x] : PageAt(x, p)' = PageAt(x, y)' <=> Ceil(p) = Ceil(y)
    BY <1>4, <1>5 DEF Layout
  <2>1. CASE x # r BY <1>0, <1>7, <2>1 DEF Layout
  <2>2. CASE x = r /\ p \in b..e
    <3>1. PageAt(r, p)' = to /\ Entry(r, p)' = to * PageSize + (p - First(p)) /\ Ceil(p) = j
      BY <1>2, <1>9, <2>2
    <3>2. ASSUME NEW y \in 1..held[r] PROVE PageAt(r, y)' = to <=> Ceil(y) = j
      <4>1. CASE y \in b..e BY <1>2, <1>9, <4>1
      <4>2. CASE y \notin b..e BY <1>1, <1>2, <1>10, <1>11, <4>2
      <4> QED BY <4>1, <4>2
    <3> QED BY <2>2, <3>1, <3>2
  <2>3. CASE x = r /\ p \notin b..e
    <3>1. PageAt(r, p)' = PageAt(r, p) /\ Entry(r, p)' = Entry(r, p) /\ Ceil(p) # j /\ PageAt(r, p) # to
      BY <1>1, <1>2, <1>10, <1>11, <2>3
    <3>2. ASSUME NEW y \in 1..held[r] PROVE PageAt(r, p)' = PageAt(r, y)' <=> Ceil(p) = Ceil(y)
      <4>1. CASE y \in b..e BY <1>2, <1>9, <3>1, <4>1
      <4>2. CASE y \notin b..e BY <1>0, <1>1, <1>10, <2>3, <3>1, <4>2 DEF Layout
      <4> QED BY <4>1, <4>2
    <3> QED BY <1>0, <2>3, <3>1, <3>2 DEF Layout
  <2> QED BY <2>1, <2>2, <2>3
<1>13. Shared'
  <2> SUFFICES ASSUME NEW x \in Running, NEW y \in Running, NEW p \in 1..held[x], NEW z \in 1..held[y],
                      x # y, PageAt(x, p)' = PageAt(y, z)'
               PROVE  PageAt(x, p) = PageAt(y, z)
    BY <1>0, <1>4, <1>5 DEF Shared
  <2>1. CASE x # r /\ y # r BY <1>7, <2>1
  <2>2. CASE x = r
    <3>1. PageAt(y, z)' = PageAt(y, z) /\ PageAt(y, z) # to BY <1>7, <1>11, <2>2
    <3>2. p \notin b..e BY <1>9, <2>2, <3>1
    <3> QED BY <1>10, <2>2, <3>1, <3>2
  <2>3. CASE y = r
    <3>1. PageAt(x, p)' = PageAt(x, p) /\ PageAt(x, p) # to BY <1>7, <1>11, <2>3
    <3>2. z \notin b..e BY <1>9, <2>3, <3>1
    <3> QED BY <1>10, <2>3, <3>1, <3>2
  <2> QED BY <2>1, <2>2, <2>3
<1>14. OwnedPages' = (OwnedPages \ {old}) \cup {to}
  <2>1. /\ OwnedPages = {g \in Page : \E x \in Running : \E p \in 1..held[x] : g = PageAt(x, p)}
        /\ OwnedPages' = {g \in Page : \E x \in Running : \E p \in 1..held[x] : g = PageAt(x, p)'}
    <3>1. \A x \in Running : /\ PagesOf(x) = {PageAt(x, p) : p \in 1..held[x]}
                             /\ PagesOf(x)' = {PageAt(x, p)' : p \in 1..held[x]}
      BY <1>4 DEF PagesOf, Owned, PageAt
    <3>2. \A x \in Running : \A p \in 1..held[x] : PageAt(x, p) \in Page /\ PageAt(x, p)' \in Page
      BY <1>4, <1>5, <1>11, <1>12 DEF Layout
    <3>3. OwnedPages = UNION {PagesOf(x) : x \in Running} /\ OwnedPages' = UNION {PagesOf(x)' : x \in Running}
      BY <1>5 DEF OwnedPages
    <3> QED BY <3>1, <3>2, <3>3
  <2>2. ASSUME NEW g \in OwnedPages' PROVE g \in (OwnedPages \ {old}) \cup {to}
    <3>1. PICK x \in Running : \E p \in 1..held[x] : g = PageAt(x, p)' BY <2>1
    <3>2. PICK p \in 1..held[x] : g = PageAt(x, p)' BY <3>1
    <3>3. CASE x # r BY <1>7, <1>11, <3>2, <3>3
    <3>4. CASE x = r /\ p \in b..e BY <1>9, <3>2, <3>4
    <3>5. CASE x = r /\ p \notin b..e BY <1>10, <1>11, <3>2, <3>5
    <3> QED BY <3>3, <3>4, <3>5
  <2>3. ASSUME NEW g \in OwnedPages, g # old PROVE g \in OwnedPages'
    <3>1. PICK x \in Running : \E p \in 1..held[x] : g = PageAt(x, p) BY <2>1
    <3>2. PICK p \in 1..held[x] : g = PageAt(x, p) BY <3>1
    <3>3. g = PageAt(x, p)'
      <4>1. CASE x # r BY <1>7, <3>2, <4>1
      <4>2. CASE x = r /\ p \in b..e BY <1>9, <2>3, <3>2, <4>2
      <4>3. CASE x = r /\ p \notin b..e BY <1>10, <3>2, <4>3
      <4> QED BY <4>1, <4>2, <4>3
    <3>4. g \in Page BY <2>1
    <3> QED BY <2>1, <3>3, <3>4
  <2>4. to \in OwnedPages'
    <3>1. b \in b..e BY <1>2, <1>6
    <3>2. b \in 1..held[r] /\ PageAt(r, b)' = to BY <1>9, <3>1
    <3> QED BY <1>1, <2>1, <3>2
  <2> QED BY <2>2, <2>3, <2>4
<1>15. old \in OwnedPages BY <1>1, <1>2, <1>3, <1>11
<1>16. FreeApart' BY <1>0, <1>1, <1>4, <1>5, <1>14 DEF FreeApart
<1>17. NonePagesLost' BY <1>0, <1>1, <1>4, <1>5, <1>14, <1>15 DEF NonePagesLost
<1>18. RowsApart' BY <1>0, <1>4, <1>5 DEF RowsApart
<1>19. PoolTypeOK'
  <2>1. table' \in [Rows -> [1..MaxContext -> Slot]]
    <3> DEFINE row == [p \in 1..MaxContext |->
                         IF p \in b..e THEN to * PageSize + (p - b) ELSE table[rowOf[r]][p]]
    <3>1. ASSUME NEW p \in 1..MaxContext PROVE row[p] \in Slot
      <4>1. CASE p \in b..e
        <5>1. Entry(r, p)' \in Slot /\ Entry(r, p)' = to * PageSize + (p - b) BY <1>8, <1>9, <4>1
        <5> QED BY <4>1, <5>1
      <4>2. CASE p \notin b..e BY <1>0, <1>6, <4>2 DEF PoolTypeOK
      <4> QED BY <4>1, <4>2
    <3>2. row \in [1..MaxContext -> Slot]
      <4>1. row = [p \in 1..MaxContext |-> row[p]] OBVIOUS
      <4> HIDE DEF row
      <4> QED BY <3>1, <4>1
    <3>3. table' = [table EXCEPT ![rowOf[r]] = row] BY <1>1
    <3> HIDE DEF row
    <3> QED BY <1>0, <3>2, <3>3 DEF PoolTypeOK
  <2>2. freePages' \subseteq Page BY <1>0, <1>1 DEF PoolTypeOK
  <2> QED BY <1>0, <1>1, <1>4, <2>1, <2>2 DEF PoolTypeOK
<1>20. PassInv' /\ AnsweredCausally' BY <1>4 DEF PassInv, AnsweredCausally
<1>21. FreePagesUnreadable'
  <2> SUFFICES ASSUME NEW l \in Layer, NEW s \in Slot, PageOf(s) \in freePages'
               PROVE  content'[l][s] = Unwritten
    BY DEF FreePagesUnreadable, SlotsOf
  <2>1. CASE PageOf(s) = old BY <1>1, <2>1
  <2>2. CASE PageOf(s) # old
    <3>1. PageOf(s) \in freePages /\ PageOf(s) # to BY <1>1, <2>2
    <3>2. content[l][s] = Unwritten BY <1>0, <3>1 DEF FreePagesUnreadable, SlotsOf
    <3> QED BY <1>1, <2>2, <3>1, <3>2
  <2> QED BY <2>1, <2>2
<1>22. CommittedEverywhere'
  <2> SUFFICES ASSUME NEW l \in Layer, usable[l], NEW x \in Running, NEW p \in 1..Len(hist[x])
               PROVE  content'[l][Entry(x, p)'] = hist[x][p]
    BY <1>4, <1>5 DEF CommittedEverywhere
  <2>1. /\ p \in 1..held[x] /\ Entry(x, p) \in Slot /\ content[l][Entry(x, p)] = hist[x][p]
    BY <1>0, HeldEntry DEF CommittedEverywhere
  <2>2. CASE x = r /\ p \in b..e
    <3>1. content'[l][to * PageSize + (p - b)] = content[l][Entry(r, p)] BY <1>1, <2>2
    <3>2. Entry(r, p)' = to * PageSize + (p - b) BY <1>6, <1>8, <2>1, <2>2
    <3> QED BY <2>1, <2>2, <3>1, <3>2
  <2>3. CASE ~(x = r /\ p \in b..e)
    <3>1. Entry(x, p)' = Entry(x, p) /\ PageAt(x, p) # to /\ PageAt(x, p) # old
      BY <1>7, <1>10, <1>11, <2>1, <2>3
    <3>2. content'[l][Entry(x, p)] = content[l][Entry(x, p)] BY <1>1, <2>1, <3>1 DEF PageAt
    <3> QED BY <2>1, <3>1, <3>2
  <2> QED BY <2>2, <2>3
<1> QED BY <1>12, <1>13, <1>16, <1>17, <1>18, <1>19, <1>20, <1>21, <1>22 DEF PoolInv

--------------------------------------------------------------------------------
(* A step that changes nothing.                                            *)
LEMMA StutterStep ==
  ASSUME PoolInv, UNCHANGED poolVars
  PROVE  PoolInv'
<1>1. /\ UNCHANGED reqVars /\ content' = content /\ usable' = usable /\ freePages' = freePages
      /\ grouping' = grouping /\ deferred' = deferred /\ pass' = pass /\ seen' = seen
  BY DEF poolVars, layerVars, allocVars
<1>2. table' = table /\ rowOf' = rowOf /\ status' = status /\ held' = held /\ hist' = hist
  BY <1>1 DEF reqVars
<1>3. /\ Running' = Running /\ OwnedPages' = OwnedPages
      /\ \A r, p : Entry(r, p)' = Entry(r, p)
      /\ RowsApart' /\ Layout' /\ Shared'
  BY <1>1, SameRequests DEF PoolInv
<1>4. PoolTypeOK' BY <1>1, <1>2 DEF PoolInv, PoolTypeOK
<1>5. Pending' = Pending BY <1>1 DEF Pending
<1>6. FreeApart' /\ NonePagesLost' BY <1>1, <1>3, <1>5 DEF PoolInv, FreeApart, NonePagesLost
<1>7. FreePagesUnreadable' BY <1>1 DEF PoolInv, FreePagesUnreadable, SlotsOf
<1>8. CommittedEverywhere' BY <1>1, <1>2, <1>3 DEF PoolInv, CommittedEverywhere
<1>9. /\ Batch' = Batch /\ Prefix' = Prefix /\ Ext' = Ext
      /\ \A l : Written(l)' <=> Written(l)
      /\ \A i, j : NewSlot(i, j)' = NewSlot(i, j) /\ NewToken(i, j)' = NewToken(i, j)
  <2>1. Batch' = Batch BY <1>1 DEF Batch
  <2>2. Prefix' = Prefix /\ Ext' = Ext BY <1>2, <2>1 DEF Prefix, Ext
  <2>3. \A l : Written(l)' <=> Written(l) BY <1>1 DEF Written
  <2> QED BY <1>3, <2>1, <2>2, <2>3 DEF NewSlot, NewToken
<1>10. PassShape => PassShape' BY <1>1, <1>2, <1>3, <1>9 DEF PassShape, Needed
<1>11. PassWrote => PassWrote' BY <1>1, <1>9 DEF PassWrote
<1>12. PassInv' BY <1>1, <1>10, <1>11 DEF PoolInv, PassInv
<1>13. AnsweredCausally'
  <2>1. \A r, n : Extended(r, n)' = Extended(r, n) BY <1>2 DEF Extended
  <2> QED BY <1>1, <1>9, <2>1 DEF PoolInv, AnsweredCausally
<1> QED BY <1>3, <1>4, <1>6, <1>7, <1>8, <1>12, <1>13 DEF PoolInv

LEMMA StepInv == PoolInv /\ [PoolNext]_poolVars => PoolInv'
<1> SUFFICES ASSUME PoolInv, [PoolNext]_poolVars PROVE PoolInv' OBVIOUS
<1>1. CASE FreeGroupBegin BY <1>1, FreeGroupBeginStep
<1>2. CASE FreeGroupEnd BY <1>2, FreeGroupEndStep
<1>3. ASSUME NEW r \in Requests, Release(r) PROVE PoolInv' BY <1>3, ReleaseStep
<1>4. ASSUME NEW r \in Requests, NEW donor \in Requests, NEW w \in Rows, NEW n \in 0..MaxContext,
             Admit(r, w, donor, n)
      PROVE  PoolInv'
  BY <1>4, AdmitStep
<1>5. ASSUME NEW mode \in {"extend", "decode"}, NEW batch \in Batches, NEW take \in Takes, NEW skew \in Skews,
             StartPass(mode, batch, take, skew)
      PROVE  PoolInv'
  BY <1>5, StartPassStep
<1>6. CASE LayerWrites BY <1>6, LayerWritesStep
<1>7. CASE LayerAttends BY <1>7, LayerAttendsStep
<1>8. CASE Commit BY <1>8, CommitStep
<1>9. CASE LayerBreaks BY <1>9, LayerBreaksStep
<1>10. CASE PassRaises BY <1>10, PassRaisesStep
<1>11. ASSUME NEW r \in Requests, NEW j \in 1..MaxContext, NEW to \in Page, MovePage(r, j, to)
       PROVE  PoolInv'
  <2>1. CASE Reached = Layer BY <1>11, <2>1, MovedStep
  <2>2. CASE Reached # Layer BY <1>11, <2>2, MoveRefusedStep
  <2> QED BY <2>1, <2>2
<1>12. CASE UNCHANGED poolVars BY <1>12, StutterStep
<1> QED BY <1>1, <1>2, <1>3, <1>4, <1>5, <1>6, <1>7, <1>8, <1>9, <1>10, <1>11, <1>12 DEF PoolNext

(* Every state the pool reaches satisfies the inductive invariant.         *)
THEOREM PoolInvariant == PoolSpec => []PoolInv
<1>1. PoolInit => PoolInv BY InitInv
<1>2. PoolInv /\ [PoolNext]_poolVars => PoolInv' BY StepInv
<1> QED BY <1>1, <1>2, PTL DEF PoolSpec

(* The variables keep their types: tables hold slot numbers, a request     *)
(* never has more committed tokens than entries it owns.                   *)
THEOREM PoolTypeCorrect == PoolSpec => []PoolTypeOK
<1>1. PoolInv => PoolTypeOK BY DEF PoolInv
<1> QED BY <1>1, PoolInvariant, PTL

(* No layer answers from a slot the allocator may hand out, for any number *)
(* of layers, pages and requests, whatever layers broke before (patched    *)
(* free, free_group_end and move_kv_cache).                                *)
THEOREM FreedIsUnreadable == PoolSpec => []FreePagesUnreadable
<1>1. PoolInv => FreePagesUnreadable BY DEF PoolInv
<1> QED BY <1>1, PoolInvariant, PTL

(* Every usable layer keeps every committed token of every running request *)
(* through releases, shared prefixes, aborted passes, frees and moves.     *)
THEOREM CommittedIsKept == PoolSpec => []CommittedEverywhere
<1>1. PoolInv => CommittedEverywhere BY DEF PoolInv
<1> QED BY <1>1, PoolInvariant, PTL

(* An attention that answers used, for each query, exactly its request's   *)
(* tokens up to the query's position, for any chunk size and page size     *)
(* (forward_extend and forward_decode).                                    *)
THEOREM AnswersAreCausal == PoolSpec => []AnsweredCausally
<1>1. PoolInv => AnsweredCausally BY DEF PoolInv
<1> QED BY <1>1, PoolInvariant, PTL

(* While no layer is poisoned every page is in exactly one place: free,    *)
(* waiting for a free group to end, or held by running requests, two of    *)
(* which hold the same page only as a common committed prefix.             *)
THEOREM PagesAreConserved == PoolSpec => []PagesConserved
<1>1. PoolInv => PagesConserved
  <2> SUFFICES ASSUME PoolInv, \A l \in Layer : usable[l] PROVE PagesConserved BY DEF PagesConserved
  <2>1. /\ PoolTypeOK /\ RowsApart /\ Layout /\ Shared /\ FreeApart /\ NonePagesLost BY DEF PoolInv
  <2>2. /\ freePages \cup Pending \cup OwnedPages = Page
        /\ freePages \cap (Pending \cup OwnedPages) = {} /\ Pending \cap OwnedPages = {}
    BY <2>1 DEF FreeApart, NonePagesLost
  <2>3. ASSUME NEW r \in Running, NEW x \in Running, NEW p \in 1..held[r], NEW y \in 1..held[x],
               r # x, Entry(r, p) = Entry(x, y)
        PROVE  p = y /\ p <= Len(hist[r]) /\ p <= Len(hist[x]) /\ hist[r][p] = hist[x][p]
    BY <2>1, <2>3, EntriesApart
  <2> QED BY <2>2, <2>3 DEF PagesConserved, Pending, OwnedPages
<1> QED BY <1>1, PoolInvariant, PTL

================================================================================
