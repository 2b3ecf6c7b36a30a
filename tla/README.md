# Verification of the Spry-UQ runtime

TLA+ models of the Spry-UQ SGLang runtime: a 4-bit compressed key/value cache
with a HIP kernel library, a Python object that owns the device buffers of one
attention layer, an SGLang KV pool with one such object per layer, an attention
backend, a patch that hooks SGLang's slot allocators and start-up, a scalar codec
with its Python binding, a CPU reference runtime, and the tool that prepares a
patched source.  TLC checks every model on small instances; TLAPS proves, for
all values of their constants, every invariant that these runs check, the
refinement, and the action properties; liveness stays with TLC.

Paths below are relative to the repository.

## The system

| part | source | state | operations |
| --- | --- | --- | --- |
| scalar codec | `include/spry/codec.h`, `native/codec.cpp` | none between calls; loops over the lanes of a group | encode 32 values to 16 bytes and a scale byte, decode, rotate |
| ctypes binding | `python/spry_uq/native.py` | none | `CpuCodec.encode`, `decode`, `rotate` with their own checks |
| native HIP runtime | `native/runtime_hip.hip` | compressed K, compressed V, one validity byte a slot; during a call a device status word and the threads of two kernels | `spry_uq_hip_write`, `spry_uq_hip_attention` |
| CPU reference runtime | `native/runtime_cpu.cpp` | same buffers, no threads | `spry_uq_cpu_write`, `spry_uq_cpu_attention` |
| cache object | `python/spry_uq/runtime.py` | the buffers, `_poisoned`, call counters | `write`, `attention`, `invalidate`, `move`, `evidence` |
| KV pool | `python/spry_uq/sglang_pool.py` | one cache object a layer | `set_kv_buffer`, `set_kv_buffer_prefix_valid`, `move_kv_cache`, `invalidate` |
| attention backend | `python/spry_uq/sglang_backend.py` | none; reads SGLang's request-to-slot table and batch metadata | `forward_decode`, `forward_extend`, start-up validation |
| capability validation | `python/spry_uq/sglang_backend.py` | none; the settings are SGLang's | the gate of the arguments, the gate of the runner |
| SGLang patch | `patches/0001-spry-uq.patch` | SGLang's free page lists; the server being started | `free` of both allocators calls `invalidate` first; options, gates, selection, cell size |
| source preparation | `tools/prepare_sglang.py` | a directory being built | verify, clone, patch, copy, write a receipt |
| headers, build, CI | `include/spry/runtime.h`, `CMakeLists.txt`, ... | none | |

How they interact.  SGLang's scheduler (outside the repository) allocates slots,
builds a batch and runs the model layer by layer.  For each layer the backend
first stores the batch's new K/V through the pool into the layer's cache object,
then asks the same object for attention over slots it reads from the request
table.  The object checks what can be checked on the host and calls the HIP
library, which validates everything else on the device and only then mutates or
reads.  When requests end, the patched allocator calls the pool's `invalidate`
for whole pages before it makes them allocatable.  Everything on the host runs
on one thread and every native call waits for the stream; the GPU threads
inside one kernel are the only true concurrency of a server.  Failures cut these sequences
anywhere: between the stores of a kernel, between two layers, between a write
and the check of the metadata.

Before that, start-up passes the overlay's gates while SGLang goes on resolving
its settings between them, and the pool is built layer by layer.  Apart from the
server stand two things: the scalar codec and the CPU runtime, sequential C that
tests call to judge the kernels, and the preparation tool, several runs of which
may meet in one directory while a maintainer edits its inputs.

What is hard here, and what makes each part correct:

* **HIP runtime** - validation threads race on the status word; head 0 marks a
  slot valid while other heads still write.  A verdict must be exact, nothing
  may be stored before it, an OK write must have landed completely, an OK read
  must come from the listed written rows and the right head, and each call must
  return.
* **Cache object** - after any native failure the buffers hold anything.  As
  long as the object answers, a readable slot must hold one whole token; moves
  over overlapping slots must be simultaneous; the counters `evidence()`
  reports must be backed by effects.
* **Pool, backend, allocator** - a page is shared, filled in several passes,
  released in free groups, reused and moved, while layers break one by one and
  passes are aborted and retried.  Attention must be computed from exactly the
  tokens of its own request up to its own position; an allocatable slot must be
  unreadable in every layer; no page may be lost or owned twice.
* **Extend loop** - chunk and request offsets: every query's row must be
  assigned exactly once, with its own causal length, whatever the metadata; and
  lengths that pass the checks of the host should not be refused by the kernel,
  which costs the process the layer's cache.
* **Write paths of the pool** - a matrix of locations with garbage beyond each
  row's committed length becomes one flattened write: exactly the committed
  tokens must be stored, each with its own K and V, and only they may decide
  whether the write is refused.
* **Codec** - ties, clipping, signs and extreme exponents: nearest rounding, a
  scale that fits, and bytes that both decoders accept.  A call with several
  faults ends with the status of the first one, and leaves the caller's buffer
  alone.
* **CPU runtime** - an oracle must itself be right: verdict and effect must be
  among those the kernels may have, and halves rounded as hardware does.
* **Start-up** - a gate passed early says nothing of later settings: a server
  that serves must be wholly compressed or wholly without the overlay, and what
  it reports as allocated must be what the sizing charged.
* **Source preparation** - each input is read more than once and a run may stop
  anywhere: a receipt must imply a complete tree, an edit under way should
  show in it (it does unless it is applied and then taken back), and nothing that
  existed may be overwritten.

`PROJECT.json` lists each hazard at the line where it bites with the properties
that would catch it.

## Modules

```
KVStore            what one cache promises: a map from slots to whole tokens
  ^ implements
CompressedCache    the cache object          -- EXTENDS --> HipRuntime
  ^ used per layer (through KVStore)                        the ABI, thread by thread
KVPool             pool + backend + allocator hooks + external scheduler
  -- EXTENDS --> ExtendPlan                  chunk arithmetic
ExtendLoop         forward_extend, statement by statement -- EXTENDS --> ExtendPlan
IndexRange         host shape checks and kernel grids, in C int
Codec              encode_group and what decoders accept
SlotMaps           scatter, drop and move of a map from slots
PrefixWrite        the pool's two write paths, location by location
Startup            gates, sizing, pool and backend construction
CodecCalls         calls of the codec: checks, output buffer, rotation
CpuRuntime         the CPU oracle             -- INSTANCE --> HipRuntime (its promises)
HalfPrecision      the oracle's half conversions
PrepareSource      runs of the preparation tool
```

`MC<module>.tla` and `.cfg` instantiate each for TLC.  The theorems are in eight
modules:

| proofs | about |
| --- | --- |
| `CompressedCacheProofs` | HipRuntime, CompressedCache and its refinement of KVStore |
| `KVPoolProofs` | KVPool |
| `ExtendPlanProofs` | ExtendPlan, for the two modules that use it |
| `BatchProofs` | ExtendLoop, PrefixWrite |
| `ArgumentProofs` | IndexRange, CodecCalls |
| `CodecProofs` | Codec, HalfPrecision |
| `CpuRuntimeProofs` | CpuRuntime |
| `DeploymentProofs` | Startup, PrepareSource |

**HipRuntime.**  A call enters (`BeginCall`), is refused by the host
(`HostRefuses`: null pointers, shapes, device, stream, capture) or is empty
(`EmptyCall`).  Each validation thread is two steps, the unsynchronised read of
the status word (`ValidateLoad`, which may see the initial zero or the current
value) and the decision with its `atomicCAS` (`ValidateReport`).  The host
copies the status back once every thread is done and returns it
(`ReturnVerdict`) or launches the second kernel (`LaunchKernel`).  A thread of
`write_kernel` is up to three steps: K row, V row, validity byte.  A thread of
`attention_kernel` is one step, because nothing else writes while it runs.  HIP
errors and device faults end a call from any point (`HipCallFails`,
`DeviceFault`), leaving whatever the threads had stored.  A row is
`<<token, head>>`, so that a torn or misplaced row is visible; what its bytes
are is the business of Codec.  The status `SPRY_UQ_MALFORMED_ENCODING` does not
occur, because no stored scale byte is one the check refuses
(`DecodersAccept`, proved for every float of the domain the kernel encodes).

**IndexRange.**  The shape arguments of one ABI call on their way through the
host checks, in the code's order (`CheckArguments`, `CheckCommon`,
`CheckShape`), and the two grids (`LaunchKernel`).  HipRuntime's calls have
already passed these checks: it treats any refusal as one nondeterministic
outcome and gives each lane and head a thread, which `GridCovers` justifies.
Pointers are not part of a shape, and the bound on the attention scale, a float
comparison, is not modelled.

**CompressedCache.**  One action per method; those that call the library start
a call of HipRuntime and end with `NativeReturns`, which is `_call`: a nonzero
status poisons the object.  `invalidate` and `move` are single steps, their
torch operations being ordered on one stream and synchronised before return.  A
method whose Python checks raise has no effect and is not a step.

**KVStore** is the abstract specification: `Put`, `Read`, `Drop`, `Move` of whole
tokens, and `Break`, after which nothing happens.  In the refinement a validated
write counts as stored when its kernel is launched, a read when the object hands
out the answer, and a failure when the native call returns it.

**KVPool.**  Layers are KVStores.  `StartPass` is the scheduler's allocation of
a batch, `LayerWrites` and `LayerAttends` are a layer's `set_kv_buffer` and
attention, `Commit` ends a pass.  `LayerBreaks` poisons the layer, `PassRaises`
is any Python exception, after a write too.  `Free`, `FreeGroupBegin/End` are the
patched allocator; `Reached` says which layers an `invalidate` or a move gets to
before it raises at a poisoned one.  Scheduler and allocator are outside the
repository; their actions (marked external) do what the code here relies on:
page-granular allocation, page-aligned shared prefixes, no release of pages
another running request uses, request table rows that are never cleared.

**PrefixWrite.**  A write is one step: the layer id finds its cache
(`LayerId`, `Index`), the mask selects flattened places (`Selected`), and the
rows go to their slots, or the call is refused.  `NativeFailure` is a call that
the native library refuses or that faults: each K and each V row of it is stored,
torn (some heads stored, or a part of a head) or untouched, with `Progress`
saying only that a thread stores K before V, and the layer is poisoned.  The two
rows of a slot are kept apart, so that K of one token may stand beside V of
another.  KVPool takes for granted that a write stores exactly its batch; this
module is why.

**Startup.**  One action per gate, in the order the process meets them:
`CheckArgs`, `ConfigureCell`, `OpenPool`, `BuildLayer` for each layer (the
constructor of a cache object, with its extent checks), `FinishPool`,
`CreateBackend`; `Forward` is the gate of each pass.  A refusal is an exception
that ends the process.  `Resolve` is SGLang changing settings in between.

**ExtendPlan / ExtendLoop.**  ExtendPlan states in closed form which query
is computed with which causal length; KVPool uses it.  ExtendLoop is the loop
itself, with its checks and possible raises, over metadata that may be wrong;
`PlanFollowed` says the loop does what the plan says.  The index row of a request
is a slice of the page table and clipped at its width (`Width`), which no check
of the host compares with the final length.  `Called` is what the cache object
demands before its native call, and `RefuseLength` the kernel's refusal of a
causal length beyond the row, which poisons the object; `CallsBounded` says that
it takes a final length beyond the table, and that a call which returns had none.

**Codec.**  `encode_group` as a loop over lanes and candidates.  A group is
integers times a power of two, which any finite floats are (`FiniteAssumption`
bounds them by 2^128).  `log2f` is its real value: the exponent is the integer n
with 2^(n - 1/2) <= 0.156 maximum < 2^(n + 1/2), squared to stay in integers, and no
integer maximum lies on the boundary.  That is an idealisation for a maximum
within a rounding error of one, where the code may take the neighbouring
exponent; `scaled_maximum` that underflows to zero gives -127 in both.
`InHalfDomain` is the range of what the HIP runtime encodes, 256 for halves and
4096 for the rotated rows of K, and puts no lower bound on the unit: halves reach
down to 2^-24, and a rotated row is of floats with mantissas of 24 bits.

**CodecCalls.**  A call goes through the checks of the binding (if it comes from
Python) and of the C function, one action each in the code's order, and then
through a loop over groups or the three nested loops of `rotate`.  The rotation
works on integers, on which sums of floats of one exponent are exact; its last
scaling by 1/sqrt(dimension) is left out, and `Transforms` compares with the
Sylvester matrix before it.

**CpuRuntime.**  Each check of the oracle is a loop over all lanes, one action
per lane, followed by the loop that stores or attends.  It instantiates
HipRuntime on its own state, so that `OracleVerdict` and the results in
`OracleEffect` are HipRuntime's definitions read on the oracle.  `OracleEffect`
says besides that a slot changes only in a write that names it and has no fault
in any lane, so that a refused write changes nothing.  Its shape checks are those
of IndexRange in another order.

**HalfPrecision.**  The two conversions as functions of the exponent and mantissa
fields, whose widths are parameters (23 and 10 bits, top exponents 255 and 31,
biases 127 and 15 in the code), against a definition of nearest half that
searches all of them.

**PrepareSource.**  Each run is a process with a program counter; each read of
lock, patch, overlay or checkout and each change of the output is a step, and a
run may stop between any two.  An edit gives a file its next edition; editions of
a patch may have the same text (`Text`), so that an edit can be taken back, and a
digest tells texts apart and not editions.  The trees and receipts of the model
hold editions, which is more than the files themselves say, and `checked` is
history: the editions that were verified.

## Runs

| run | states | what it shows |
| --- | --- | --- |
| `hip_runtime` | 169 537 | `VerdictExact`, `WriteLands`, `ReadExact`, `NoStoreBeforeVerdict`, and that each call returns (`CallReturns`) |
| `compressed_cache` | 72 365 | `ReadableRowsWhole`, `EvidenceBacked`, and the refinement `ImplementsStore` |
| `kv_pool` | 399 648 | `FreePagesUnreadable`, `CommittedEverywhere`, `AnsweredCausally`, `PagesConserved` |
| `prefix_write` | 213 645 | `CommittedOnly`, `JudgedByCommitted`, `PrefixExact` |
| `extend_loop` | 7 243 | `RowsConsecutive`, `PlanFollowed`, `CallsBounded` |
| `index_range` | 9 680 | `RangeExact`, `GridCovers`, `ObjectWritesFit` |
| `startup` | 15 749 | `NoFallback`, `BytesAccounted`, `DisabledStarts` |
| `codec` | 33 138 | `Rounded`, `ScaleFits`, `DecodersAccept` |
| `codec_calls` | 159 443 | `AllOrNothing`, `Transforms`, `NoOverflow`, `ReturnsFirstFault` |
| `cpu_runtime` | 136 674 | `OracleVerdict`, `OracleEffect` |
| `half_precision` | 4 032 | `NearestHalf`, `RoundedOnce` |
| `prepare_source` | 2 932 464 | `ReceiptComplete`, `EditsShow`, `ArtifactsPreserved` |

`hip_runtime` and `extend_loop` also check their type invariants (`HipTypeOK`,
`ExtendTypeOK`).  All type invariants are proved, as theorems of their own or as
part of the inductive invariant of their module.  Each property
has a mutant of the code (a dropped check, an off-by-one, a swapped order) that
breaks it.

Bounds, and why they are enough:

* `hip_runtime`: two slots, two K/V heads, four query heads, calls of one or two
  lanes.  Races need two threads on the status word and two heads of a slot;
  the grouping of heads needs a ratio of two.  The calls have
  duplicate, negative and too large slots, two different failures in one call,
  unwritten slots, lengths of zero and beyond the width, and garbage beyond a
  length.
* `compressed_cache`: three slots are the least with a chain of overlapping
  moves, a swap and an untouched slot; two counted calls of each kind allow
  write, fail, read in every order.  `MaxCalls` bounds the counters, and both
  they and a poisoned object stop the system: deadlock is not checked.
* `kv_pool`: two layers (one may be broken, moved or invalidated before the
  other), two pages of two slots (a page is filled in two passes, shared, freed
  with its sibling slot and reused), three requests over two table rows (a row
  is reused and holds stale entries, and a batch has one or two requests, as many
  as there are rows), chunk size one (a request of two new
  tokens takes two chunks).  Requests are admitted once; they are symmetric.
  `Skews` are host decode lengths off by one either way.
* `codec`: groups of two values, each value up to 64 units with four partners,
  and units from the smallest subnormal to the largest finite exponent; this
  meets each tie, both clamps, and every magnitude.  A group of two has
  one byte of codes, a pair of nibbles; the theorems are for any even size.  TLC's
  integers have no room for values of 24 bits in these comparisons: that
  mantissas of any length are treated alike rests on the theorems.
* `extend_loop`: chunk two, up to three requests with extend lengths around
  multiples of the chunk, lengths of zero and below, wrong final lengths, wrong
  batch sizes and query counts.  Page tables of four and six entries and a cache
  of five slots put final lengths on both sides of the table and of the cache,
  with the table the narrower and the wider one.  The loop ends: deadlock is not
  checked.
* `index_range`: an `int` of six bits (`IntMax` 63), blocks of four threads, head
  dimensions 4 and 5 (no divisors of 63, so that products miss the limit from
  both sides),
  extents around each divisor of 63, zero and negative ones.  Each refusal and
  both sides of each limit occur; the theorems are for any width.  A call ends:
  deadlock is not checked.
* `prefix_write`: two layers of four slots from layer 3 on (ids below, in and
  beyond the stage), matrices of two and three columns with padding that is
  negative, too large or another row's slot, lengths below zero and beyond the
  width, V of another length.  A write may fail with its two rows at each location
  in any state that `Progress` allows, over slots empty or written before.
* `startup`: `MaxChanges` two changes between gates, enough for a setting that is
  switched on and off again unseen; one to three layers, one and two heads, the
  three head dimensions and one that is not supported, and an index limit of
  4352 in the place of the largest `int`, so that both sides occur.  Refusals
  end the process: deadlock is not checked.
* `codec_calls`: dimensions 2, 4 and 8 in groups of two, any one or two groups at
  fault, buffers a byte or a group off; vectors on both sides of the limit that a
  largest float of 20 gives, every vector of three values in 8 dimensions and of
  more values in 2 and 4.  A call ends: deadlock is not checked.
* `cpu_runtime`: three slots, two K/V heads under four query heads, every pair
  of write lanes with every slot and token, reads of one lane with two indices
  or two with one.
* `half_precision`: every float of 6 bits of mantissa and exponents to 20,
  narrowed to 3 bits and an exponent up to 7: ties, carries into the exponent and into infinity,
  subnormals and values below them all occur, as in 23 to 10.
* `prepare_source`: two runs racing for one output, one whose output is refused,
  one that only verifies; two patches, two overlay files, three locks and
  `MaxEdits` two edits, so that a patch can change between two of its reads and
  the lock or an overlay file as well, or the patch back to its first text: the
  receipt with the locked digests over another tree is among the states.  The two
  racing runs are symmetric.

Fairness.  HipRuntime: `WF(Progress)`, the GPU runs every launched thread to its
end and the host, blocked on the stream, goes on when they have ended;
`WF(TakeResult)`, the caller is the Python frame that made the call.  Nothing is
assumed about callers making calls, and nothing about failures.  Startup:
`WF(StartUp)`, start-up is one thread that runs on its own; nothing is assumed of
SGLang's changes or of forwards.  CodecCalls: `WF(CallNext)`, a sequential call
runs on.  The other modules state safety only.

## Proofs

All theorems are for any number of layers, pages, slots, heads, tokens, lanes,
requests, runs and calls that the named assumptions of the modules allow.

* **KVPoolProofs** - `PoolInvariant`, and from it `FreedIsUnreadable`,
  `CommittedIsKept`, `AnswersAreCausal`, `PagesAreConserved`, for any page size,
  chunk, context length and free group, and batches of any length: the lanes of
  a pass are cut into one stretch per request (`Stretches`, `OffsetsCut`), so
  that each lane has one request and one position.  None of the four properties
  is inductive.
  `PoolInv` adds what they take for granted: running requests have rows of their
  own (`RowsApart`; stale entries of a row otherwise belong to two), each block
  of a request lies slot by slot in one page and blocks in different pages
  (`Layout`; without it a write of one position could land in another), two
  requests meet in a page only as the same full committed block (`Shared`; so
  that a write never lands in another's tokens), free, waiting and owned pages
  are apart (`FreeApart`) and, while all layers answer, complete
  (`NonePagesLost`), and a pass in progress has room for its tokens and has
  stored them in the layers it is past (`PassInv`).  The whole of `PoolInv` was
  checked on the states of `kv_pool` before it was proved.  The arithmetic of
  pages is in lemmas (`CeilIs`, `Block`, `SlotInPage`).
* **ExtendPlanProofs** - what the closed form computes: `Offsets` is a recursive
  function over a sequence of any length, reasoned about by sets of numbers (a
  set with 0 and with each number the next is Nat, because its complement has no
  least element), which needs no induction theorem with an operator parameter.
  `RowOfQuery` and `AssignedIs` say which row is computed by which chunk.
* **CompressedCacheProofs** - `HipInvariant` is the inductive invariant `HipInv`
  of the native runtime: the checked invariants and five facts they do not
  imply: what each thread of
  `write_kernel` has stored given its program counter (`WriteProgress`; threads
  do not disturb each other because validated lanes have distinct slots and
  lanes have distinct heads), what each thread of `attention_kernel` has
  computed (`AttendProgress`), that output starts empty (`FreshOutput`), that
  an OK attention holds all rows (`AttendLands`), and that a kernel runs only
  under status OK (`KernelStatus`).  From it follow `HipTypeCorrect`,
  `VerdictsAreExact`, `WritesLand`, `ReadsAreExact` and, as an action property,
  `ValidateBeforeMutate`.  The grouped-query arithmetic is the lemma `GroupHead`.
  `CacheInvariant` adds that a call in progress belongs to an unpoisoned object
  (`CallInProgress`) and that readable rows are whole; hence `CacheTypeCorrect`,
  `RowsAreWhole` and, with what the counters say while a call runs,
  `EvidenceIsBacked`.  `CacheImplementsStore` is the refinement: initial states
  map to initial states, and each action to `Put` (launch of a validated write),
  `Read` (an answer), `Drop`, `Move`, `Break` (the first failing return) or a
  stutter.
* **BatchProofs** - `ExtendTypeCorrect`, `RowsAreConsecutive`, `CallsAreBounded`
  and `PlanIsFollowed`, for any chunk size and any metadata.  The invariant adds
  where the loop stands within its request (`LoopShape`), what the last assigned
  row is (`LastRow`) and that neighbouring rows are linked (`RowsLinked`); that
  the rows assigned are those of the plan is then a comparison with
  `AssignedIs`, row by row.  That a loop which goes on has had final lengths within
  the table and the cache is `Served`: the last chunk of a request has a causal
  length equal to its final length, so a row that was clipped is refused
  (`ServedChunk`, `RefusedChunk`).
  `PrefixTypeCorrect`, `SlotsHoldCommitted`, `PaddingIsIgnored` and the action
  property `WritesAreExact`, for any matrices, lengths and layers: rows and
  columns of a flat index are unique (`Unflatten`, `Flatten`), so that the
  selection and the committed entries are the same set (`SelectedCommitted`,
  `CommittedSelected`); an accepted call's locations are distinct, so that each
  slot has one source.  A half of a slot is unwritten, torn or committed whatever
  a write got to (`WriteKeeps`, one half at a time), and the two belong together
  where a write completed (`WriteCompletes`) and nowhere else.
* **ArgumentProofs** - `RangesAreExact`, `GridsCover`, `ObjectWritesAreAccepted`
  and `RangeTypeCorrect`, from `WidthAssumption` (a head dimension is never
  smaller than a block, which is what leaves room for rounding the grid up) and
  `ShapesAssumption`.  The invariant `RangeInv` carries what the checks passed so
  far say of the call.  The arithmetic is in lemmas: `NarrowExact` (division
  before multiplication is exact), `GridBounds`, `RoomForBlock`, `ItemOf`
  (quotient and remainder by the heads are a bijection).
  `CallsAreAllOrNothing`: the invariant `ChecksInv` says, for each check, what the
  ones before it have established (`Passed`) and what is in the buffer
  (`Stored`).  `SumsFit`: in the loops of a rotation a value that was already
  combined at the present width is at most twice the width times the largest
  input, one that was not at most the width times (`Bounded`), and the width,
  doubled, still divides the dimension (`Aligned`, from `CallsAssumption`:
  dimensions are powers of two).
  `RotationTransforms`, for every power of two and every vector of integers: behind
  the loops the row holds the matrix of twice the width times each block of the
  input, ahead of them the matrix of the width (`Transformed`).  A butterfly
  joins two blocks (`ButterflyJoins`), because the matrix of twice the width is
  four of the present one, the last with its sign changed (`SignsOfQuarters`,
  from the bits of a number below a power of two, `BitsOfHalves`), and because a
  sum splits in two halves (`SumSplits`).  That the matrix is its own inverse up
  to its size is `HadamardInverts`, by doubling (`InvertsNext`) and linearity
  (`HadamardOfCrossed`).  Sums are recursive functions, reasoned about by sets of
  numbers as the offsets of ExtendPlan are.
* **CodecProofs** - for any even group size and any finite floats.  The
  invariant says that the codes packed so far are nearest (`Packing`), that the
  candidate loop holds the best of the candidates passed (`Searching`), and
  that the exponent is that of the group (`Scaled`); hence `CodecTypeCorrect`,
  `CodesAreNearest`, `ScalesFit` and `EncodedIsAccepted`.  Powers of two have no
  induction to be proved by: 2^n counts the subsets of 1..n (`PowerCounts`),
  which gives positivity, monotonicity and doubling, and sums of exponents and
  the existence of the logarithm follow from least counterexamples
  (`LeastNumber`, `LogExists`).
  `HalvesAreNearest` and `RoundingIsStable` are for any widths of the fields that
  `FieldAssumption` allows, those of the code among them: values grow with
  the bits of a half (`ValuesOrdered`), so that a half is nearest if it is as
  near as its two neighbours (`NearestNeighbour`), and the carry out of the
  mantissa is such a neighbour.
* **CpuRuntimeProofs** - `OracleVerdictsAgree` and `OracleEffectsAgree`, for any
  shapes and calls.  `CpuInv` says of each loop what it found of the lanes it
  is past and what the loops before it found of all (`Writing`, `Attending`);
  `CpuAssumption` is that query heads are a multiple of K/V heads.  That stores
  come only from writes without a fault (`OnlyAcceptedStores`) is what `Writing`
  says of the loop that stores: both loops of checks are behind it, for all lanes.
* **DeploymentProofs** - `StartInvariant` says what the server is at each stage
  (`BuiltSoFar`), a function of the launch and, while layers are built, of their
  number.  From it `NeverFallsBack`: the second gate leaves a single value of the
  settings (`OneSupported`), and nothing is resolved between it and serving.
  And `BytesAreAccounted`, whose arithmetic is `BytesAgree`.
  `PrepInvariant` says of each run, by its program counter, whose tree it may
  write (`Allowed`), what it has verified (`Verified`), built (`Built`) and noted
  for its receipt (`Noted`), and of each tree what a complete receipt implies
  (`Sealed`).  A run reads a patch three times and editions only grow, so the
  edition verified is no newer than the one applied (`CheckedOK`, `AppliedOK`),
  nor that than the one digested (`EditsAreShown`).  This says nothing of texts
  beyond the verification: a digest equal to the locked one proves that the
  locked text was applied only if the patch was not edited twice in between.
  A path is taken only
  while absent, hence by one run (`ArtifactsArePreserved`).  `PrepInv` was checked
  on the states of `prepare_source` before it was proved.

Only model-checked:

* `CallReturns`, `DisabledStarts`, `ReturnsFirstFault`: liveness under fairness is
  beyond the prover.

## Not modelled

* Floating-point arithmetic of attention (rotation, products, softmax) and of
  `log2f`: outside what TLC can enumerate, and no control depends on them.
* Exceptions of torch inside `move` or `invalidate`: taken to come before the
  first scatter.
* Changes of the public attributes `slots`, `kv_heads`, `head_dim` or of the
  buffers behind the object's back (`_ready` refuses them).
* The bound on the attention scale.  An attention call may still be refused for
  its shape after the object's own checks, and the refusal poisons the object;
  CompressedCache has this as one of the failures a native call may return.
* The native library's file being replaced between the check of its digest and
  the loading of it (`python/spry_uq/runtime.py:45`).
* In PrepareSource: `git` itself (a clone creates its directory or fails, which
  leaves out an existing empty directory); anybody but the tool and the maintainer
  writing to an output.
* In Startup: settings are members of small sets of what the gates look at, and
  the memory profiling that turns the cell size into a number of slots is
  SGLang's.
* Loading and declaring the ctypes library, headers, build identity, build and
  CI files: no state.

## Plan

1. Done: the modules, the runs, and the proofs above.
2. An exception of torch between the three scatters of a move
   (`python/spry_uq/runtime.py:193`), the hazard without a property.
