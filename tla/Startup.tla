-------------------------------- MODULE Startup --------------------------------
(***************************************************************************)
(* Start-up of a server with the overlay: the gates of the patch and of    *)
(* python/spry_uq/sglang_backend.py, the size of a cache cell, the pool    *)
(* that is built layer by layer, the backend, and the gate of each         *)
(* forward.  Between two gates SGLang resolves settings, which may change  *)
(* them.  A refusal is an exception, which ends the process.               *)
(***************************************************************************)
EXTENDS Integers

CONSTANTS
  Blocked,      \* settings that _blocked_settings names
  Faults,       \* facts of model and device that the runner's gate refuses
  Modes,        \* forward modes
  Launches,     \* the choice of backend, heads, head dims, layers, tokens and page
  HeadDims,     \* SUPPORTED_HEAD_DIMS
  IntMax, AddressMax,  \* 2^31 - 1, 2^40
  MaxChanges    \* bound on the changes between gates

Settings == [on : SUBSET Blocked, faults : SUBSET Faults, library : BOOLEAN,
             graphs : SUBSET {"decode", "prefill"}]
Launch == [spry : BOOLEAN, heads : Nat \ {0}, dim : Nat, vdim : Nat, layers : Nat \ {0},
           size : Nat \ {0}, page : Nat \ {0}]

ASSUME StartAssumption ==
  /\ HeadDims \subseteq Nat /\ {IntMax, AddressMax, MaxChanges} \subseteq Nat
  /\ {"decode", "extend", "idle"} \subseteq Modes /\ Launches \subseteq Launch

VARIABLES
  stage,      \* how far start-up has come
  launch,     \* what is launched
  settings,   \* server_args, model and device, as resolved so far
  changes,    \* changes between gates so far
  server,     \* bytes of a token over all layers, caches built, token_to_kv_pool,
              \* attention backend, effective_spry_uq_backend, spry_uq_allocated_bytes
  forwarded   \* how the last forward ended

startVars == <<stage, launch, settings, changes, server, forwarded>>

StartInit ==
  /\ stage = "args" /\ launch \in Launches /\ settings \in Settings /\ changes = 0
  /\ server = [cell |-> 0, built |-> 0, pool |-> "none", backend |-> "none",
               effective |-> FALSE, reported |-> 0]
  /\ forwarded = "none"

Spry == launch.spry
Slots == launch.size + launch.page
RowBytes == 17 * (launch.dim \div 32)
Tensor == Slots * (launch.heads * RowBytes)   \* bytes of a cache's k, and of its v

ArgsSupported == settings.library /\ settings.graphs = {} /\ settings.on = {}

(* Mutant of RunnerSupported: the gate of the arguments is not repeated.   *)
RunnerSupportedOnce ==
  settings.faults = {} /\ launch.dim \in HeadDims /\ launch.vdim = launch.dim

RunnerSupported ==
  ArgsSupported /\ settings.faults = {} /\ launch.dim \in HeadDims /\ launch.vdim = launch.dim

(* A gate either refuses or lets start-up go on with a new server state.   *)
Gate(at, refuses, next, new) ==
  /\ stage = at
  /\ IF refuses THEN stage' = "refused" /\ UNCHANGED server
     ELSE stage' = next /\ server' = new
  /\ UNCHANGED <<launch, settings, changes, forwarded>>

(* Mutant of CheckArgs: also without the option.                           *)
CheckArgsAlways == Gate("args", ~ArgsSupported, "memory", server)

CheckArgs == Gate("args", Spry /\ ~ArgsSupported, "memory", server)

(* Mutant of CellBytes: validity is counted once for all layers.           *)
CellBytesOnce == launch.layers * (2 * launch.heads * 17 * (launch.dim \div 32)) + 1

CellBytes == launch.layers * (2 * launch.heads * 17 * (launch.dim \div 32) + 1)

ConfigureCell ==
  Gate("memory", Spry /\ launch.dim \notin HeadDims, "pool",
       [server EXCEPT !.cell = IF Spry THEN CellBytes ELSE @])

(* The runner's gate calls the backend effective before there is a pool.   *)
OpenPool ==
  Gate("pool", Spry /\ ~RunnerSupported, IF Spry THEN "layers" ELSE "backend",
       IF Spry THEN [server EXCEPT !.effective = TRUE] ELSE [server EXCEPT !.pool = "dense"])

(* CompressedCache's constructor on the extents.                           *)
Fits ==
  /\ Slots <= 2^30 /\ launch.heads <= 2^30
  /\ Tensor <= AddressMax /\ Slots * launch.heads * launch.dim <= IntMax

(* The library or the allocation may fail for any of the caches; then the  *)
(* pool is not assigned.                                                   *)
BuildLayer(fails) ==
  server.built < launch.layers /\
  Gate("layers", fails \/ ~Fits, "layers", [server EXCEPT !.built = @ + 1])

FinishPool ==
  server.built = launch.layers /\
  Gate("layers", FALSE, "backend", [server EXCEPT !.pool = "spry"])

KeyBytes == server.built * (Tensor + Slots)
ValueBytes == server.built * Tensor
AllocatedBytes == server.built * (Tensor + Tensor + Slots)

CreateBackend(workspace) ==
  Gate("backend", Spry /\ (workspace \/ ~RunnerSupported \/ server.pool # "spry"), "serving",
       IF Spry THEN [server EXCEPT !.backend = "spry", !.effective = TRUE, !.reported = AllocatedBytes]
       ELSE [server EXCEPT !.backend = "dense"])

(* A layer or tensor that is not supported is refused before the mode.     *)
Forward(mode, supported) ==
  /\ stage = "serving" /\ server.backend = "spry"
  /\ forwarded' = IF supported /\ mode \in {"idle", "decode", "extend"} THEN mode ELSE "refused"
  /\ UNCHANGED <<stage, launch, settings, changes, server>>

(* SGLang resolves settings until the backend exists.                      *)
Resolve ==
  /\ stage \in {"memory", "pool", "backend"} /\ changes < MaxChanges
  /\ settings' \in Settings \ {settings} /\ changes' = changes + 1
  /\ UNCHANGED <<stage, launch, server, forwarded>>

StartNext ==
  \/ CheckArgs \/ ConfigureCell \/ OpenPool \/ FinishPool \/ Resolve
  \/ \E bad \in BOOLEAN : BuildLayer(bad) \/ CreateBackend(bad)
  \/ \E mode \in Modes, supported \in BOOLEAN : Forward(mode, supported)

(* Start-up runs on its own, and a loop over layers ends; nobody promises  *)
(* a forward.                                                              *)
StartUp ==
  \/ CheckArgs \/ ConfigureCell \/ OpenPool \/ FinishPool
  \/ \E bad \in BOOLEAN : BuildLayer(bad) \/ CreateBackend(bad)

StartSpec == StartInit /\ [][StartNext]_startVars /\ WF_startVars(StartUp)
--------------------------------------------------------------------------------
(* No fallback, in either direction: a server that serves with the option  *)
(* has the compressed pool for every layer and the Spry backend, under     *)
(* settings that are all supported by then, although SGLang changed some   *)
(* after the first gate; without the option nothing of the overlay is in   *)
(* effect (sglang_backend.py:93-99, :102-139, :149-164; patch:75-82,       *)
(* :95-113; patch:13).                                                     *)
NoFallback ==
  stage = "serving" =>
    IF Spry
    THEN /\ server.pool = "spry" /\ server.built = launch.layers /\ server.backend = "spry"
         /\ server.effective
         /\ settings = [on |-> {}, faults |-> {}, library |-> TRUE, graphs |-> {}]
         /\ launch.dim \in HeadDims /\ launch.vdim = launch.dim
    ELSE server = [cell |-> 0, built |-> 0, pool |-> "dense", backend |-> "dense",
                   effective |-> FALSE, reported |-> 0]

(* What the backend reports is what the pool accounts for and what the     *)
(* sizing of the pool charged for each slot, the reserved page included    *)
(* (patch:162-165, sglang_pool.py:134-140, runtime.py:81-82).              *)
BytesAccounted ==
  server.backend = "spry" =>
    /\ server.reported = KeyBytes + ValueBytes
    /\ server.reported = server.cell * Slots

(* An unsupported model or device stops start-up, but without the option   *)
(* the overlay refuses nothing (patch:13-14).                              *)
DisabledStarts == ~Spry ~> stage = "serving"
================================================================================
