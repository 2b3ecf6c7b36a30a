---------------------------- MODULE DeploymentProofs ---------------------------
(* The safety properties of modules Startup, for any launches, layers and  *)
(* limits and any number of changes between gates, and PrepareSource, for  *)
(* any runs, paths, locks, patches and files and any number of edits.      *)
EXTENDS Startup, PrepareSource, TLAPS

(* What start-up has made of the server by each stage; before a stage is   *)
(* reached, nothing of what comes after it.                                *)
With(cell, built, pool, backend, effective, reported) ==
  [cell |-> cell, built |-> built, pool |-> pool, backend |-> backend,
   effective |-> effective, reported |-> reported]

Supported == settings = [on |-> {}, faults |-> {}, library |-> TRUE, graphs |-> {}]

BuiltSoFar ==
  /\ stage \in {"args", "memory"} => server = With(0, 0, "none", "none", FALSE, 0)
  /\ stage = "layers" =>
       \E n \in 0..launch.layers : server = With(CellBytes, n, "none", "none", TRUE, 0)
  /\ stage = "pool" => server = With(IF Spry THEN CellBytes ELSE 0, 0, "none", "none", FALSE, 0)
  /\ stage = "backend" =>
       server = IF Spry THEN With(CellBytes, launch.layers, "spry", "none", TRUE, 0)
                ELSE With(0, 0, "dense", "none", FALSE, 0)
  /\ stage = "serving" =>
       server = IF Spry
                THEN With(CellBytes, launch.layers, "spry", "spry", TRUE,
                          launch.layers * (Tensor + Tensor + Slots))
                ELSE With(0, 0, "dense", "dense", FALSE, 0)
  /\ stage = "refused" => server.backend = "none"

StartInv ==
  /\ launch \in Launches /\ settings \in Settings
  /\ stage \in {"args", "memory", "pool", "layers", "backend", "serving", "refused"}
  /\ stage = "layers" => Spry
  /\ BuiltSoFar
  /\ stage = "serving" /\ Spry => Supported /\ launch.dim \in HeadDims /\ launch.vdim = launch.dim

(* The launched shapes are natural numbers.                                *)
LEMMA LaunchShape ==
  ASSUME launch \in Launches
  PROVE  /\ launch.heads \in Nat /\ launch.dim \in Nat /\ launch.layers \in Nat \ {0}
         /\ launch.size \in Nat /\ launch.page \in Nat
         /\ Slots \in Nat /\ launch.dim \div 32 \in Nat
  BY StartAssumption DEF Launch, Slots

(* A gate that supports the settings leaves one value of them.             *)
LEMMA OneSupported ==
  ASSUME settings \in Settings, RunnerSupported
  PROVE  Supported /\ launch.dim \in HeadDims /\ launch.vdim = launch.dim
  BY DEF Settings, RunnerSupported, ArgsSupported, Supported

(* What the server is at each stage of start-up: the invariant behind      *)
(* NoFallback and BytesAccounted.                                          *)
THEOREM StartInvariant == StartSpec => []StartInv
<1>1. StartInit => StartInv
  <2> SUFFICES ASSUME StartInit PROVE StartInv OBVIOUS
  <2>1. BuiltSoFar BY DEF StartInit, BuiltSoFar, With
  <2> QED BY <2>1 DEF StartInit, StartInv
<1>2. StartInv /\ [StartNext]_startVars => StartInv'
  <2> SUFFICES ASSUME StartInv, [StartNext]_startVars PROVE StartInv' OBVIOUS
  <2> USE DEF StartInv
  <2>1. CASE CheckArgs
    <3>1. BuiltSoFar' BY <2>1 DEF CheckArgs, Gate, BuiltSoFar, With
    <3> QED BY <2>1, <3>1 DEF CheckArgs, Gate
  <2>2. CASE ConfigureCell
    <3>1. stage' \in {"refused", "pool"} /\ launch' = launch /\ settings' = settings
      BY <2>2 DEF ConfigureCell, Gate
    <3>2. server = With(0, 0, "none", "none", FALSE, 0)
      BY <2>2 DEF ConfigureCell, Gate, BuiltSoFar
    <3>3. CASE stage' = "refused"
      <4>1. server' = server BY <2>2, <3>3 DEF ConfigureCell, Gate
      <4> QED BY <3>1, <3>2, <3>3, <4>1 DEF BuiltSoFar, With
    <3>4. CASE stage' = "pool"
      <4>1. server' = [server EXCEPT !.cell = IF Spry THEN CellBytes ELSE @]
        BY <2>2, <3>4 DEF ConfigureCell, Gate
      <4>2. server' = With(IF Spry THEN CellBytes ELSE 0, 0, "none", "none", FALSE, 0)
        BY <3>2, <4>1 DEF With
      <4>3. Spry' = Spry /\ CellBytes' = CellBytes BY <3>1 DEF Spry, CellBytes
      <4> QED BY <3>1, <3>4, <4>2, <4>3 DEF BuiltSoFar, With
    <3> QED BY <3>1, <3>3, <3>4
  <2>3. CASE OpenPool
    <3>1. stage' \in {"refused", "layers", "backend"} /\ launch' = launch /\ settings' = settings
      BY <2>3 DEF OpenPool, Gate
    <3>2. server = With(IF Spry THEN CellBytes ELSE 0, 0, "none", "none", FALSE, 0)
      BY <2>3 DEF OpenPool, Gate, BuiltSoFar
    <3>3. Spry' = Spry /\ CellBytes' = CellBytes BY <3>1 DEF Spry, CellBytes
    <3>4. CASE stage' = "refused"
      <4>1. server' = server BY <2>3, <3>4 DEF OpenPool, Gate
      <4> QED BY <3>1, <3>2, <3>4, <4>1 DEF BuiltSoFar, With
    <3>5. CASE stage' = "layers"
      <4>1. Spry /\ server' = [server EXCEPT !.effective = TRUE]
        BY <2>3, <3>5 DEF OpenPool, Gate
      <4>2. server' = With(CellBytes, 0, "none", "none", TRUE, 0) BY <3>2, <4>1 DEF With
      <4>3. 0 \in 0..launch'.layers BY <3>1, LaunchShape
      <4> QED BY <3>1, <3>3, <3>5, <4>1, <4>2, <4>3 DEF BuiltSoFar
    <3>6. CASE stage' = "backend"
      <4>1. ~Spry /\ server' = [server EXCEPT !.pool = "dense"]
        BY <2>3, <3>6 DEF OpenPool, Gate
      <4>2. server' = With(0, 0, "dense", "none", FALSE, 0) BY <3>2, <4>1 DEF With
      <4> QED BY <3>1, <3>3, <3>6, <4>1, <4>2 DEF BuiltSoFar
    <3> QED BY <3>1, <3>4, <3>5, <3>6
  <2>4. ASSUME NEW bad \in BOOLEAN, BuildLayer(bad) PROVE StartInv'
    <3>1. stage' \in {"refused", "layers"} /\ launch' = launch /\ settings' = settings /\ Spry
      BY <2>4 DEF BuildLayer, Gate
    <3>2. PICK n \in 0..launch.layers : server = With(CellBytes, n, "none", "none", TRUE, 0)
      BY <2>4 DEF BuildLayer, Gate, BuiltSoFar
    <3>3. Spry' = Spry /\ CellBytes' = CellBytes BY <3>1 DEF Spry, CellBytes
    <3>4. CASE stage' = "refused"
      <4>1. server' = server BY <2>4, <3>4 DEF BuildLayer, Gate
      <4> QED BY <3>1, <3>2, <3>4, <4>1 DEF BuiltSoFar, With
    <3>5. CASE stage' = "layers"
      <4>1. server' = [server EXCEPT !.built = @ + 1] /\ server.built < launch.layers
        BY <2>4, <3>5 DEF BuildLayer, Gate
      <4>2. server' = With(CellBytes, n + 1, "none", "none", TRUE, 0) BY <3>2, <4>1 DEF With
      <4>3. n + 1 \in 0..launch'.layers BY <3>1, <3>2, <4>1, LaunchShape DEF With
      <4> QED BY <3>1, <3>3, <3>5, <4>2, <4>3 DEF BuiltSoFar
    <3> QED BY <3>1, <3>4, <3>5
  <2>5. CASE FinishPool
    <3>1. /\ stage' = "backend" /\ launch' = launch /\ settings' = settings /\ Spry
          /\ server.built = launch.layers /\ server' = [server EXCEPT !.pool = "spry"]
      BY <2>5 DEF FinishPool, Gate
    <3>2. PICK n \in 0..launch.layers : server = With(CellBytes, n, "none", "none", TRUE, 0)
      BY <2>5 DEF FinishPool, Gate, BuiltSoFar
    <3>3. server' = With(CellBytes, launch.layers, "spry", "none", TRUE, 0)
      BY <3>1, <3>2 DEF With
    <3>4. Spry' = Spry /\ CellBytes' = CellBytes BY <3>1 DEF Spry, CellBytes
    <3> QED BY <3>1, <3>3, <3>4 DEF BuiltSoFar
  <2>6. ASSUME NEW workspace \in BOOLEAN, CreateBackend(workspace) PROVE StartInv'
    <3>1. stage' \in {"refused", "serving"} /\ launch' = launch /\ settings' = settings
      BY <2>6 DEF CreateBackend, Gate
    <3>2. server = IF Spry THEN With(CellBytes, launch.layers, "spry", "none", TRUE, 0)
                   ELSE With(0, 0, "dense", "none", FALSE, 0)
      BY <2>6 DEF CreateBackend, Gate, BuiltSoFar
    <3>3. /\ Spry' = Spry /\ CellBytes' = CellBytes /\ Tensor' = Tensor /\ Slots' = Slots
          /\ Supported' = Supported
      BY <3>1 DEF Spry, CellBytes, Tensor, RowBytes, Slots, Supported
    <3>4. CASE stage' = "refused"
      <4>1. server' = server BY <2>6, <3>4 DEF CreateBackend, Gate
      <4> QED BY <3>1, <3>2, <3>4, <4>1 DEF BuiltSoFar, With
    <3>5. CASE stage' = "serving" /\ Spry
      <4>1. /\ RunnerSupported
            /\ server' = [server EXCEPT !.backend = "spry", !.effective = TRUE,
                                        !.reported = AllocatedBytes]
        BY <2>6, <3>5 DEF CreateBackend, Gate
      <4>2. AllocatedBytes = launch.layers * (Tensor + Tensor + Slots)
        BY <3>2, <3>5 DEF AllocatedBytes, With
      <4>3. server' = With(CellBytes, launch.layers, "spry", "spry", TRUE,
                           launch.layers * (Tensor + Tensor + Slots))
        BY <3>2, <3>5, <4>1, <4>2 DEF With
      <4>4. BuiltSoFar' BY <3>1, <3>3, <3>5, <4>3 DEF BuiltSoFar
      <4> QED BY <3>1, <3>3, <3>5, <4>1, <4>4, OneSupported
    <3>6. CASE stage' = "serving" /\ ~Spry
      <4>1. server' = [server EXCEPT !.backend = "dense"]
        BY <2>6, <3>6 DEF CreateBackend, Gate
      <4>2. server' = With(0, 0, "dense", "dense", FALSE, 0) BY <3>2, <3>6, <4>1 DEF With
      <4> QED BY <3>1, <3>3, <3>6, <4>2 DEF BuiltSoFar
    <3> QED BY <3>1, <3>4, <3>5, <3>6
  <2>7. ASSUME NEW mode \in Modes, NEW supported \in BOOLEAN, Forward(mode, supported)
        PROVE StartInv'
    BY <2>7 DEF Forward, BuiltSoFar, Spry, CellBytes, Tensor, RowBytes, Slots, Supported
  <2>8. CASE Resolve
    BY <2>8 DEF Resolve, BuiltSoFar, Spry, CellBytes
  <2>9. CASE UNCHANGED startVars
    BY <2>9 DEF startVars, BuiltSoFar, Spry, CellBytes, Tensor, RowBytes, Slots, Supported
  <2> QED BY <2>1, <2>2, <2>3, <2>4, <2>5, <2>6, <2>7, <2>8, <2>9 DEF StartNext
<1>3. QED BY <1>1, <1>2, PTL DEF StartSpec
(* Charged per slot or counted per tensor, the bytes are the same.         *)
LEMMA BytesAgree ==
  ASSUME launch \in Launches, server.built = launch.layers
  PROVE  /\ launch.layers * (Tensor + Tensor + Slots) = KeyBytes + ValueBytes
         /\ launch.layers * (Tensor + Tensor + Slots) = CellBytes * Slots
<1> DEFINE row == launch.heads * (17 * (launch.dim \div 32))
<1>1. launch.layers \in Nat /\ Slots \in Nat /\ row \in Nat
  BY LaunchShape
<1>2. Tensor = Slots * row BY DEF Tensor, RowBytes
<1>3. CellBytes = launch.layers * (2 * row + 1)
  BY LaunchShape DEF CellBytes
<1>4. Tensor \in Nat BY <1>1, <1>2
<1>5. KeyBytes + ValueBytes = launch.layers * (Tensor + Slots) + launch.layers * Tensor
  BY DEF KeyBytes, ValueBytes
<1>6. \A l, t, s \in Nat : l * (t + t + s) = l * (t + s) + l * t
  OBVIOUS
<1>7. \A l, r, s \in Nat : l * (s * r + s * r + s) = l * (2 * r + 1) * s
  OBVIOUS
<1> HIDE DEF row
<1> QED BY <1>1, <1>2, <1>3, <1>4, <1>5, <1>6, <1>7

(* No fallback (sglang_backend.py:93-99, :102-139, :149-164): a server     *)
(* that serves with the option has the compressed pool for all layers, the *)
(* Spry backend and settings that are all supported, although SGLang may   *)
(* have changed any of them after the first gate, any number of times;     *)
(* without the option nothing of the overlay is in effect.                 *)
THEOREM NeverFallsBack == StartSpec => []NoFallback
<1>1. StartInv => NoFallback
  BY DEF StartInv, BuiltSoFar, With, Supported, NoFallback
<1> QED BY <1>1, StartInvariant, PTL

(* The reported bytes are those the pool accounts for and those the cell   *)
(* size charged (patch:162-165, sglang_pool.py:134-140): no slot is paid   *)
(* for that the tensors do not have, whatever layers, heads, dimension and *)
(* page size.                                                              *)
THEOREM BytesAreAccounted == StartSpec => []BytesAccounted
<1>1. StartInv => BytesAccounted
  <2> SUFFICES ASSUME StartInv, server.backend = "spry" PROVE BytesAccounted
    BY DEF BytesAccounted
  <2>1. stage = "serving" /\ Spry
    BY DEF StartInv, BuiltSoFar, With
  <2>2. server = With(CellBytes, launch.layers, "spry", "spry", TRUE,
                      launch.layers * (Tensor + Tensor + Slots))
    BY <2>1 DEF StartInv, BuiltSoFar
  <2>3. /\ server.built = launch.layers /\ server.cell = CellBytes
        /\ server.reported = launch.layers * (Tensor + Tensor + Slots)
    BY <2>2 DEF With
  <2> QED BY <2>3, BytesAgree DEF StartInv, BytesAccounted
<1> QED BY <1>1, StartInvariant, PTL
--------------------------------------------------------------------------------
(* The preparation tool.  What a run has done by each step, in terms of    *)
(* its own record x, the tree t at its output, and the files of ROOT now.  *)

Cloned == {"checkout", "apply", "overlay", "metadata", "lock digest", "patch digests",
           "overlay digests", "open", "dump"}
Patched == Cloned \ {"checkout", "apply"}
Overlaid == Patched \ {"overlay"}
Packaged == Overlaid \ {"metadata"}
LockNoted == Packaged \ {"lock digest"}
OverlayNoted == {"open", "dump"}
Steps == {"load", "source", "output", "verify", "clone", "done", "stopped"} \cup Cloned

Receipt == [state : {"none", "partial", "complete"}, lock : Nat, lockNow : Nat,
            patches : Seq(Nat), overlay : [Files -> Nat], checked : [Patches -> Nat]]
Tree == [owner : Runs \cup {Nobody, Absent}, base : Commits, applied : Seq(Patches \X Nat),
         overlay : [Files -> Nat], meta : BOOLEAN, receipt : Receipt]
Run == [at : Steps, lock : 1..Len(Locks), i : Nat \ {0}, notes : Receipt]

PrepTypeOK ==
  /\ root \in [lock : 1..Len(Locks), patch : [Patches -> Nat], overlay : [Files -> Nat \ {0}]]
  /\ source \in [head : Commits, clean : BOOLEAN]
  /\ run \in [Runs -> Run]
  /\ tree \in [Outputs -> Tree]

(* Its path was accepted, and it may create something there.               *)
Allowed(r, x) ==
  /\ x.at \in {"output", "clone"} \cup Cloned => r \notin VerifyOnly
  /\ x.at \in {"verify", "clone"} \cup Cloned /\ r \notin VerifyOnly => Out(r) \notin Refusable

(* The first n locked patches had the locked text in the edition checked.  *)
CheckedOK(lock, n, checked, patch) ==
  \A j \in 1..n :
    LET p == lock.patches[j] IN
    Text[p][checked[p]] = lock.sha[p] /\ checked[p] <= patch[p]

Verified(x, now) ==
  LET lock == Locks[x.lock] IN
  /\ x.lock <= now.lock
  /\ x.i \in 1..Len(lock.patches)
  /\ x.at = "verify" => CheckedOK(lock, x.i - 1, x.notes.checked, now.patch)
  /\ x.at \in {"clone"} \cup Cloned =>
       CheckedOK(lock, Len(lock.patches), x.notes.checked, now.patch)

(* What is applied are the locked patches, each in an edition not older    *)
(* than the one checked, nor newer than it is now.                         *)
AppliedOK(lock, applied, checked, patch) ==
  \A j \in 1..Len(applied) :
    /\ applied[j][1] = lock.patches[j]
    /\ checked[lock.patches[j]] <= applied[j][2] /\ applied[j][2] <= patch[lock.patches[j]]

(* The tree is its own, and has the locked commit and patches.             *)
Built(r, x, t, now) ==
  LET lock == Locks[x.lock] IN
  x.at \in Cloned =>
    /\ t.owner = r /\ t.receipt.state # "complete"
    /\ x.at # "checkout" => t.base = lock.commit
    /\ Len(t.applied) = IF x.at \in Patched THEN Len(lock.patches) ELSE x.i - 1
    /\ AppliedOK(lock, t.applied, x.notes.checked, now.patch)
    /\ x.at \in Overlaid => \A f \in Files : t.overlay[f] # 0
    /\ x.at \in Packaged => t.meta

NoOlder(applied, noted) == \A j \in 1..Len(noted) : applied[j][2] <= noted[j]

(* The receipt in the making names the lock the run works from, and no     *)
(* patch older than the one applied.                                       *)
Noted(x, t) ==
  LET lock == Locks[x.lock] IN
  /\ x.at \in Steps \ (LockNoted \cup {"done", "stopped"}) => x.notes.patches = <<>>
  /\ x.at \in LockNoted =>
       /\ x.notes.lock = x.lock /\ x.notes.lock <= x.notes.lockNow
       /\ Len(x.notes.patches) = IF x.at = "patch digests" THEN x.i - 1 ELSE Len(lock.patches)
       /\ NoOlder(t.applied, x.notes.patches)
  /\ x.at \in OverlayNoted => x.notes.overlay = t.overlay
  /\ x.i # 1 => x.at \in {"verify", "apply", "patch digests"}

RunOK(r, x, t, now) == Allowed(r, x) /\ Verified(x, now) /\ Built(r, x, t, now) /\ Noted(x, t)

(* What a complete receipt says of its tree.                               *)
Sealed(t) ==
  LET lock == Locks[t.receipt.lock] IN
  t.receipt.state = "complete" =>
    /\ t.owner # Absent
    /\ t.base = lock.commit /\ t.meta
    /\ Len(t.applied) = Len(lock.patches)
    /\ \A j \in 1..Len(lock.patches) : t.applied[j][1] = lock.patches[j]
    /\ t.receipt.overlay = t.overlay /\ \A f \in Files : t.overlay[f] # 0
    /\ t.receipt.lock <= t.receipt.lockNow
    /\ \A j \in 1..Len(lock.patches) :
         LET p == lock.patches[j] IN
         /\ Text[p][t.receipt.checked[p]] = lock.sha[p]
         /\ t.receipt.checked[p] <= t.applied[j][2] /\ t.applied[j][2] <= t.receipt.patches[j]

PrepInv ==
  /\ PrepTypeOK
  /\ \A r \in Runs : RunOK(r, run[r], tree[Out(r)], root)
  /\ \A o \in Outputs : Sealed(tree[o])

LEMMA LockShape ==
  ASSUME NEW n \in 1..Len(Locks)
  PROVE  /\ Locks[n].commit \in Commits
         /\ Locks[n].patches \in Seq(Patches) /\ Len(Locks[n].patches) \in Nat \ {0}
         /\ Locks[n].sha \in [Patches -> Nat]
<1>1. Locks[n] \in Lock /\ Locks[n].patches # <<>> BY PrepAssumption
<1> QED BY <1>1 DEF Lock

(* What a run that is in no output looks at in its path: nothing.          *)
LEMMA Elsewhere ==
  ASSUME NEW r, NEW x, NEW t, NEW t2, NEW now,
         x.at \notin Cloned, RunOK(r, x, t, now)
  PROVE  RunOK(r, x, t2, now)
<1>1. Allowed(r, x) /\ Verified(x, now) BY DEF RunOK
<1>2. Built(r, x, t2, now) BY DEF Built
<1>3. x.at \notin LockNoted /\ x.at \notin OverlayNoted
  BY DEF Cloned, Patched, Overlaid, Packaged, LockNoted, OverlayNoted
<1>4. Noted(x, t2) BY <1>3 DEF RunOK, Noted
<1> QED BY <1>1, <1>2, <1>4 DEF RunOK

(* A step of a run concerns its own record and its own output only.        *)
LEMMA Frame ==
  ASSUME PrepInv, UNCHANGED <<root, source, edits>>,
         NEW r \in Runs, NEW x \in Run, NEW t \in Tree,
         run' = [run EXCEPT ![r] = x], tree' = [tree EXCEPT ![Out(r)] = t],
         t = tree[Out(r)] \/ tree[Out(r)].owner \in {r, Absent},
         RunOK(r, x, t, root), Sealed(t)
  PROVE  PrepInv'
<1>0. Out(r) \in Outputs BY PrepAssumption DEF Out
<1>1. PrepTypeOK' BY <1>0 DEF PrepInv, PrepTypeOK
<1>2. run'[r] = x /\ tree'[Out(r)] = t BY <1>0 DEF PrepInv, PrepTypeOK
<1>3. ASSUME NEW q \in Runs PROVE RunOK(q, run'[q], tree'[Out(q)], root)
  <2>0. Out(q) \in Outputs BY PrepAssumption DEF Out
  <2>1. RunOK(q, run[q], tree[Out(q)], root) BY DEF PrepInv
  <2>2. CASE q = r BY <1>2, <2>2
  <2>3. CASE q # r
    <3>1. run'[q] = run[q] BY <2>3 DEF PrepInv, PrepTypeOK
    <3>2. CASE tree'[Out(q)] = tree[Out(q)] BY <2>1, <3>1, <3>2
    <3>3. CASE tree'[Out(q)] # tree[Out(q)]
      <4>1. Out(q) = Out(r) /\ tree[Out(q)].owner \in {r, Absent}
        BY <1>2, <2>0, <3>3 DEF PrepInv, PrepTypeOK
      <4>2. tree[Out(q)].owner # q BY <2>3, <4>1, PrepAssumption
      <4>3. run[q].at \notin Cloned BY <2>1, <4>2 DEF RunOK, Built
      <4> QED BY <2>1, <3>1, <4>3, Elsewhere
    <3> QED BY <3>2, <3>3
  <2> QED BY <2>2, <2>3
<1>4. ASSUME NEW o \in Outputs PROVE Sealed(tree'[o])
  <2>1. CASE o = Out(r) BY <1>2, <2>1
  <2>2. CASE o # Out(r)
    <3>1. tree'[o] = tree[o] BY <2>2, <1>0 DEF PrepInv, PrepTypeOK
    <3> QED BY <3>1 DEF PrepInv
  <2> QED BY <2>1, <2>2
<1>5. root' = root OBVIOUS
<1>6. \A q \in Runs : RunOK(q, run'[q], tree'[Out(q)], root') BY <1>3, <1>5
<1> QED BY <1>1, <1>4, <1>6 DEF PrepInv

(* The record and the tree of a run, and what the invariant says of them.  *)
LEMMA Own ==
  ASSUME PrepInv, NEW r \in Runs
  PROVE  /\ run[r] \in Run /\ tree[Out(r)] \in Tree /\ Out(r) \in Outputs
         /\ RunOK(r, run[r], tree[Out(r)], root) /\ Sealed(tree[Out(r)])
         /\ root.patch \in [Patches -> Nat] /\ root.lock \in 1..Len(Locks)
         /\ \A f \in Files : root.overlay[f] \in Nat \ {0}
         /\ Locked(r).commit \in Commits /\ Locked(r).sha \in [Patches -> Nat]
         /\ Locked(r).patches \in Seq(Patches) /\ Len(Locked(r).patches) \in Nat \ {0}
         /\ run[r].i \in 1..Len(Locked(r).patches) /\ Current(r) \in Patches
         /\ Locked(r) = Locks[run[r].lock] /\ Locked(r).patches[run[r].i] = Current(r)
<1>1. Out(r) \in Outputs BY PrepAssumption DEF Out
<1>2. run[r] \in Run /\ tree[Out(r)] \in Tree BY <1>1 DEF PrepInv, PrepTypeOK
<1>3. RunOK(r, run[r], tree[Out(r)], root) /\ Sealed(tree[Out(r)])
  BY <1>1 DEF PrepInv
<1>4. root.patch \in [Patches -> Nat] /\ root.lock \in 1..Len(Locks)
      /\ \A f \in Files : root.overlay[f] \in Nat \ {0}
  BY DEF PrepInv, PrepTypeOK
<1>5. run[r].lock \in 1..Len(Locks) BY <1>2 DEF Run
<1>6. /\ Locked(r).commit \in Commits /\ Locked(r).sha \in [Patches -> Nat]
      /\ Locked(r).patches \in Seq(Patches) /\ Len(Locked(r).patches) \in Nat \ {0}
  BY <1>5, LockShape DEF Locked
<1>7. run[r].i \in 1..Len(Locked(r).patches) BY <1>3 DEF RunOK, Verified, Locked
<1>8. Current(r) \in Patches BY <1>6, <1>7 DEF Current
<1> QED BY <1>1, <1>2, <1>3, <1>4, <1>6, <1>7, <1>8 DEF Locked, Current

(* Goto as a new record of the run.                                        *)
LEMMA Moved ==
  ASSUME NEW x \in Run, NEW step \in Steps, NEW n \in Nat \ {0}
  PROVE  [x EXCEPT !.at = step, !.i = n] \in Run
  BY DEF Run

LEMMA GotoRecord ==
  ASSUME PrepInv, NEW r \in Runs, NEW step \in Steps, Goto(r, step)
  PROVE  /\ run' = [run EXCEPT ![r] = [run[r] EXCEPT !.at = step, !.i = 1]]
         /\ [run[r] EXCEPT !.at = step, !.i = 1] \in Run
<1>1. run \in [Runs -> Run] /\ run[r] \in Run BY DEF PrepInv, PrepTypeOK
<1>2. 1 \in Nat \ {0} OBVIOUS
<1>3. [run[r] EXCEPT !.at = step, !.i = 1] \in Run BY <1>1, <1>2, Moved
<1>4. run' = [run EXCEPT ![r] = [run[r] EXCEPT !.at = step, !.i = 1]]
  BY <1>1 DEF Goto
<1> QED BY <1>3, <1>4

(* A step that writes nothing.                                             *)
LEMMA Quiet ==
  ASSUME PrepInv, UNCHANGED <<root, source, edits, tree>>,
         NEW r \in Runs, NEW x \in Run, run' = [run EXCEPT ![r] = x],
         RunOK(r, x, tree[Out(r)], root)
  PROVE  PrepInv'
<1>1. tree[Out(r)] \in Tree /\ Out(r) \in Outputs /\ Sealed(tree[Out(r)]) BY Own
<1>2. tree' = [tree EXCEPT ![Out(r)] = tree[Out(r)]] BY <1>1 DEF PrepInv, PrepTypeOK
<1> QED BY <1>1, <1>2, Frame

LEMMA AtStep ==
  ASSUME NEW x \in Run, NEW step, NEW n
  PROVE  LET y == [x EXCEPT !.at = step, !.i = n] IN
         y.at = step /\ y.i = n /\ y.lock = x.lock /\ y.notes = x.notes
  BY DEF Run

LEMMA LoadLockKeeps ==
  ASSUME PrepInv, NEW r \in Runs, LoadLock(r)
  PROVE  PrepInv'
<1> DEFINE x == [run[r] EXCEPT !.at = "source", !.lock = root.lock]
<1>1. run[r] \in Run /\ run[r].at = "load" /\ root.lock \in 1..Len(Locks)
      /\ RunOK(r, run[r], tree[Out(r)], root)
  BY Own DEF LoadLock, At
<1>2. x.at = "source" /\ x.lock = root.lock /\ x.i = run[r].i /\ x.notes = run[r].notes
  BY <1>1 DEF Run
<1>3. "source" \in Steps BY DEF Steps
<1>4. x \in Run BY <1>1, <1>3 DEF Run
<1>5. run' = [run EXCEPT ![r] = x] BY DEF LoadLock, PrepInv, PrepTypeOK
<1>6. Len(Locks[root.lock].patches) \in Nat \ {0} BY <1>1, LockShape
<1>7. run[r].i = 1 /\ run[r].notes.patches = <<>>
  BY <1>1 DEF RunOK, Noted, Steps, LockNoted, Packaged, Overlaid, Patched, Cloned
<1> HIDE DEF x
<1>8. "source" \notin Cloned /\ "source" \notin LockNoted /\ "source" \notin OverlayNoted
  BY DEF OverlayNoted, LockNoted, Packaged, Overlaid, Patched, Cloned
<1>12. Verified(x, root)
  <2>1. Len(Locks) \in Nat BY PrepAssumption
  <2>2. root.lock <= root.lock BY <1>1, <2>1
  <2>3. 1 \in 1..Len(Locks[root.lock].patches) BY <1>6
  <2> QED BY <1>2, <1>7, <1>8, <2>2, <2>3 DEF Verified
<1>9. Allowed(r, x) /\ Built(r, x, tree[Out(r)], root)
  BY <1>2, <1>8 DEF Allowed, Built
<1>10. Noted(x, tree[Out(r)]) BY <1>2, <1>7, <1>8 DEF Noted
<1>11. RunOK(r, x, tree[Out(r)], root) BY <1>9, <1>10, <1>12 DEF RunOK
<1> QED BY <1>4, <1>5, <1>11, Quiet DEF LoadLock

(* A step that leads out of the run's output, or not yet into it.          *)
LEMMA OutsideRecord ==
  ASSUME PrepInv, NEW r \in Runs, UNCHANGED <<root, source, edits, tree>>,
         NEW x \in Run, run' = [run EXCEPT ![r] = x], x.lock = run[r].lock,
         x.at \notin Cloned, x.i \in 1..Len(Locked(r).patches),
         x.at = "output" => r \notin VerifyOnly,
         x.at = "verify" =>
           /\ r \notin VerifyOnly => Out(r) \notin Refusable
           /\ CheckedOK(Locked(r), x.i - 1, x.notes.checked, root.patch),
         x.at = "clone" =>
           /\ r \notin VerifyOnly /\ Out(r) \notin Refusable
           /\ CheckedOK(Locked(r), Len(Locked(r).patches), x.notes.checked, root.patch),
         x.at \notin {"done", "stopped"} => x.notes.patches = <<>>,
         x.i # 1 => x.at = "verify"
  PROVE  PrepInv'
<1>1. x.at \notin LockNoted /\ x.at \notin OverlayNoted
  BY DEF OverlayNoted, LockNoted, Packaged, Overlaid, Patched, Cloned
<1>2. Allowed(r, x) BY DEF Allowed
<1>3. run[r].lock <= root.lock BY Own DEF RunOK, Verified
<1>4. Verified(x, root) BY <1>3 DEF Verified, Locked
<1>5. Built(r, x, tree[Out(r)], root) BY DEF Built
<1>6. Noted(x, tree[Out(r)]) BY <1>1 DEF Noted
<1>7. RunOK(r, x, tree[Out(r)], root) BY <1>2, <1>4, <1>5, <1>6 DEF RunOK
<1> QED BY <1>7, Quiet

LEMMA OutsideKeeps ==
  ASSUME PrepInv, NEW r \in Runs, UNCHANGED <<root, source, edits, tree>>,
         NEW step \in Steps \ Cloned,
         run' = [run EXCEPT ![r] = [run[r] EXCEPT !.at = step, !.i = 1]],
         step # "clone", step = "output" => r \notin VerifyOnly,
         step = "verify" /\ r \notin VerifyOnly => Out(r) \notin Refusable,
         step \notin {"done", "stopped"} => run[r].notes.patches = <<>>
  PROVE  PrepInv'
<1> DEFINE x == [run[r] EXCEPT !.at = step, !.i = 1]
<1>1. run[r] \in Run /\ Len(Locked(r).patches) \in Nat \ {0} BY Own
<1>2. x.at = step /\ x.i = 1 /\ x.lock = run[r].lock /\ x.notes = run[r].notes BY <1>1, AtStep
<1>3. 1 \in Nat \ {0} /\ 1 \in 1..Len(Locked(r).patches) BY <1>1
<1>4. x \in Run BY <1>1, <1>3, Moved
<1>5. CheckedOK(Locked(r), 1 - 1, x.notes.checked, root.patch) BY DEF CheckedOK
<1>6. run' = [run EXCEPT ![r] = x] OBVIOUS
<1> HIDE DEF x
<1> QED BY <1>2, <1>3, <1>4, <1>5, <1>6, OutsideRecord

LEMMA VerifySourceKeeps ==
  ASSUME PrepInv, NEW r \in Runs, VerifySource(r)
  PROVE  PrepInv'
<1> DEFINE step == IF r \in VerifyOnly THEN "verify" ELSE "output"
<1>1. Len(Locked(r).patches) \in Nat \ {0} /\ RunOK(r, run[r], tree[Out(r)], root)
  BY Own
<1>2. step \in Steps \ Cloned BY DEF Steps, Cloned
<1>3. run' = [run EXCEPT ![r] = [run[r] EXCEPT !.at = step, !.i = 1]]
  BY <1>2, GotoRecord DEF VerifySource
<1>4. run[r].notes.patches = <<>>
  BY <1>1 DEF VerifySource, At, RunOK, Noted, Steps, LockNoted, Packaged, Overlaid, Patched, Cloned
<1>7. (step = "output" => r \notin VerifyOnly) /\ (step = "verify" => r \in VerifyOnly) /\ step # "clone"
  OBVIOUS
<1> HIDE DEF step
<1> QED BY <1>2, <1>3, <1>4, <1>7, OutsideKeeps DEF VerifySource

LEMMA ValidateOutputKeeps ==
  ASSUME PrepInv, NEW r \in Runs, ValidateOutput(r)
  PROVE  PrepInv'
<1>1. Len(Locked(r).patches) \in Nat \ {0} /\ RunOK(r, run[r], tree[Out(r)], root)
  BY Own
<1>2. "verify" \in Steps \ Cloned BY DEF Steps, Cloned
<1>3. run' = [run EXCEPT ![r] = [run[r] EXCEPT !.at = "verify", !.i = 1]]
  BY <1>2, GotoRecord DEF ValidateOutput
<1>4. run[r].notes.patches = <<>>
  BY <1>1 DEF ValidateOutput, At, RunOK, Noted, Steps, LockNoted, Packaged, Overlaid, Patched, Cloned
<1> QED BY <1>2, <1>3, <1>4, OutsideKeeps DEF ValidateOutput

LEMMA StopKeeps ==
  ASSUME PrepInv, NEW r \in Runs, Stop(r)
  PROVE  PrepInv'
<1>1. Len(Locked(r).patches) \in Nat \ {0} BY Own
<1>2. "stopped" \in Steps \ Cloned BY DEF Steps, Cloned
<1>3. run' = [run EXCEPT ![r] = [run[r] EXCEPT !.at = "stopped", !.i = 1]]
  BY <1>2, GotoRecord DEF Stop
<1> QED BY <1>2, <1>3, OutsideKeeps DEF Stop

LEMMA VerifyPatchKeeps ==
  ASSUME PrepInv, NEW r \in Runs, VerifyPatch(r)
  PROVE  PrepInv'
<1> DEFINE last == Len(Locked(r).patches)
           i == run[r].i
           old == run[r].notes.checked
           new == [old EXCEPT ![Current(r)] = root.patch[Current(r)]]
           notes == [run[r].notes EXCEPT !.checked = new]
           n == IF i = last THEN 1 ELSE i + 1
           step == IF i # last THEN "verify" ELSE IF r \in VerifyOnly THEN "done" ELSE "clone"
           x == [run[r] EXCEPT !.at = step, !.i = n, !.notes = notes]
<1>1. /\ last \in Nat \ {0} /\ RunOK(r, run[r], tree[Out(r)], root) /\ run[r] \in Run
      /\ i \in 1..last /\ Current(r) \in Patches /\ root.patch \in [Patches -> Nat]
      /\ Locked(r).patches[i] = Current(r) /\ Locked(r).patches \in Seq(Patches)
      /\ Locked(r) = Locks[run[r].lock]
  BY Own
<1>2. run[r].at = "verify" /\ Text[Current(r)][root.patch[Current(r)]] = Locked(r).sha[Current(r)]
  BY DEF VerifyPatch, At
<1>3. run[r].notes.patches = <<>>
  BY <1>1, <1>2 DEF RunOK, Noted, Steps, LockNoted, Packaged, Overlaid, Patched, Cloned
<1>4. run[r].notes \in Receipt /\ old \in [Patches -> Nat] BY <1>1 DEF Run, Receipt
<1>5. new \in [Patches -> Nat] BY <1>1, <1>4
<1>6. notes \in Receipt /\ notes.patches = <<>> /\ notes.checked = new
  <2> HIDE DEF new
  <2> QED BY <1>3, <1>4, <1>5 DEF Receipt
<1>7. CheckedOK(Locked(r), i, new, root.patch)
  <2>1. CheckedOK(Locked(r), i - 1, old, root.patch) BY <1>1, <1>2 DEF RunOK, Verified
  <2> SUFFICES ASSUME NEW j \in 1..i
               PROVE  LET p == Locked(r).patches[j] IN
                      Text[p][new[p]] = Locked(r).sha[p] /\ new[p] <= root.patch[p]
    BY DEF CheckedOK
  <2> DEFINE p == Locked(r).patches[j]
  <2>2. CASE p = Current(r)
    <3>1. new[p] = root.patch[Current(r)] /\ root.patch[p] \in Nat BY <1>1, <1>4, <2>2
    <3>2. new[p] <= root.patch[p] BY <2>2, <3>1
    <3> QED BY <1>2, <2>2, <3>1, <3>2
  <2>3. CASE p # Current(r)
    <3>1. j # i BY <1>1, <2>3
    <3>2. j \in 1..(i - 1)
      <4> HIDE DEF i, last
      <4> QED BY <1>1, <3>1
    <3>3. Text[p][old[p]] = Locked(r).sha[p] /\ old[p] <= root.patch[p] BY <2>1, <3>2 DEF CheckedOK
    <3>4. p \in Patches
      <4>1. j \in 1..last
        <5> HIDE DEF i, last
        <5> QED BY <1>1
      <4> QED BY <1>1, <4>1
    <3>5. new[p] = old[p] BY <1>4, <2>3, <3>4
    <3> QED BY <3>3, <3>5
  <2> QED BY <2>2, <2>3
<1>8. r \notin VerifyOnly => Out(r) \notin Refusable BY <1>1, <1>2 DEF RunOK, Allowed
<1>9. run' = [run EXCEPT ![r] = x]
  <2> DEFINE c == Current(r)
  <2>1. run \in [Runs -> Run] BY DEF PrepInv, PrepTypeOK
  <2>2. run' = [run EXCEPT ![r].notes.checked[c] = root.patch[c], ![r].i = n, ![r].at = step]
    BY <1>1, <1>2, <2>1 DEF VerifyPatch, Last, Run
  <2> HIDE DEF c, n, step
  <2>3. x = [run[r] EXCEPT !.notes.checked[c] = root.patch[c], !.i = n, !.at = step]
    BY <1>1, <1>4 DEF Run, Receipt, c
  <2> HIDE DEF x
  <2> QED BY <2>1, <2>2, <2>3
<1>10. /\ step \in Steps /\ n \in Nat \ {0} /\ n \in 1..last
       /\ step \notin Cloned /\ step # "output"
       /\ n # 1 => step = "verify"
       /\ step = "verify" => n - 1 = i
       /\ step = "clone" => i = last /\ r \notin VerifyOnly
  <2>1. {"verify", "done", "clone"} \cap Cloned = {} /\ {"verify", "done", "clone"} \subseteq Steps
    BY DEF Cloned, Steps
  <2>2. i \in 1..last /\ last \in Nat \ {0} BY <1>1
  <2> HIDE DEF i, last
  <2>3. n \in 1..last /\ n \in Nat \ {0} /\ (i # last => n - 1 = i) /\ (i = last => n = 1) BY <2>2
  <2> HIDE DEF n
  <2> QED BY <2>1, <2>3
<1> HIDE DEF notes, n, step
<1>11. x \in Run BY <1>1, <1>6, <1>10 DEF Run
<1>12. x.at = step /\ x.i = n /\ x.lock = run[r].lock /\ x.notes = notes BY <1>1 DEF Run
<1> HIDE DEF x, new, old
<1>13. x.at = "verify" => CheckedOK(Locked(r), x.i - 1, x.notes.checked, root.patch)
  <2> SUFFICES ASSUME step = "verify" PROVE CheckedOK(Locked(r), x.i - 1, x.notes.checked, root.patch)
    BY <1>12
  <2>1. x.i - 1 = i BY <1>10, <1>12
  <2> QED BY <1>6, <1>7, <1>12, <2>1
<1>14. x.at = "clone" => CheckedOK(Locked(r), last, x.notes.checked, root.patch)
  BY <1>6, <1>7, <1>10, <1>12
<1> HIDE DEF i
<1>15. UNCHANGED <<root, source, edits, tree>> BY DEF VerifyPatch
<1> QED BY <1>6, <1>8, <1>9, <1>10, <1>11, <1>12, <1>13, <1>14, <1>15, OutsideRecord

(* What a run in its output knows.                                         *)
LEMMA Inside ==
  ASSUME PrepInv, NEW r \in Runs, run[r].at \in Cloned
  PROVE  /\ tree[Out(r)].owner = r /\ tree[Out(r)].receipt.state # "complete"
         /\ r \notin VerifyOnly /\ Out(r) \notin Refusable
         /\ CheckedOK(Locked(r), Len(Locked(r).patches), run[r].notes.checked, root.patch)
<1>1. RunOK(r, run[r], tree[Out(r)], root) BY Own
<1> QED BY <1>1 DEF RunOK, Allowed, Verified, Built, Locked

(* A step within the output: what is left to show is what the step has     *)
(* made of the tree and of the receipt.                                    *)
LEMMA InsideKeeps ==
  ASSUME PrepInv, NEW r \in Runs, UNCHANGED <<root, source, edits>>,
         run[r].at \in Cloned,
         NEW x \in Run, NEW t \in Tree, x.at \in Cloned, x.lock = run[r].lock,
         x.i \in 1..Len(Locked(r).patches), x.notes.checked = run[r].notes.checked,
         run' = [run EXCEPT ![r] = x], tree' = [tree EXCEPT ![Out(r)] = t],
         t.receipt.state # "complete",
         Built(r, x, t, root), Noted(x, t)
  PROVE  PrepInv'
<1>1. /\ tree[Out(r)].owner = r /\ r \notin VerifyOnly /\ Out(r) \notin Refusable
      /\ CheckedOK(Locked(r), Len(Locked(r).patches), run[r].notes.checked, root.patch)
  BY Inside
<1>2. Allowed(r, x) BY <1>1 DEF Allowed
<1>3. x.at # "verify" BY DEF Cloned
<1>7. run[r].lock <= root.lock BY Own DEF RunOK, Verified
<1>4. Verified(x, root) BY <1>1, <1>3, <1>7 DEF Verified, Locked
<1>5. Sealed(t) BY DEF Sealed
<1>6. RunOK(r, x, t, root) BY <1>2, <1>4 DEF RunOK
<1> QED BY <1>1, <1>5, <1>6, Frame

LEMMA BareTree ==
  ASSUME NEW r \in Runs, NEW head \in Commits
  PROVE  Bare(r, head) \in Tree
<1>1. NoFiles \in [Files -> Nat] BY DEF NoFiles
<1>2. Blank \in Receipt BY <1>1 DEF Blank, Receipt
<1>3. <<>> \in Seq(Patches \X Nat) OBVIOUS
<1> QED BY <1>1, <1>2, <1>3 DEF Bare, Tree

LEMMA CloneKeeps ==
  ASSUME PrepInv, NEW r \in Runs, Clone(r)
  PROVE  PrepInv'
<1> DEFINE x == [run[r] EXCEPT !.at = "checkout", !.i = 1]
           t == Bare(r, source.head)
<1>1. /\ run[r].at = "clone" /\ tree[Out(r)].owner = Absent /\ tree' = [tree EXCEPT ![Out(r)] = t]
      /\ RunOK(r, run[r], tree[Out(r)], root) /\ run[r] \in Run
      /\ Len(Locked(r).patches) \in Nat \ {0}
  BY Own DEF Clone, At
<1>2. "checkout" \in Steps /\ "checkout" \in Cloned BY DEF Steps, Cloned
<1>3. run' = [run EXCEPT ![r] = x] /\ x \in Run BY <1>2, GotoRecord DEF Clone
<1>4. x.at = "checkout" /\ x.i = 1 /\ x.lock = run[r].lock /\ x.notes = run[r].notes
  BY <1>1, AtStep
<1>5. t \in Tree BY BareTree DEF PrepInv, PrepTypeOK
<1>6. t.owner = r /\ t.receipt.state = "none" /\ t.applied = <<>> BY DEF Bare, Blank
<1> HIDE DEF x, t
<1>7. Allowed(r, x) BY <1>1, <1>4 DEF RunOK, Allowed, Cloned
<1>8. CheckedOK(Locked(r), Len(Locked(r).patches), run[r].notes.checked, root.patch)
  BY <1>1 DEF RunOK, Verified, Locked
<1>15. run[r].lock <= root.lock BY <1>1 DEF RunOK, Verified
<1>9. Verified(x, root) BY <1>1, <1>4, <1>8, <1>15 DEF Verified, Locked, Cloned
<1>10. Built(r, x, t, root)
  BY <1>4, <1>6 DEF Built, AppliedOK, Patched, Overlaid, Packaged
<1>11. run[r].notes.patches = <<>>
  BY <1>1 DEF RunOK, Noted, Steps, LockNoted, Packaged, Overlaid, Patched, Cloned
<1>12. Noted(x, t)
  BY <1>4, <1>11 DEF Noted, OverlayNoted, LockNoted, Packaged, Overlaid, Patched, Cloned
<1>13. Sealed(t) BY <1>6 DEF Sealed
<1>14. RunOK(r, x, t, root) BY <1>7, <1>9, <1>10, <1>12 DEF RunOK
<1> QED BY <1>1, <1>3, <1>5, <1>13, <1>14, Frame DEF Clone

LEMMA CheckoutKeeps ==
  ASSUME PrepInv, NEW r \in Runs, Checkout(r)
  PROVE  PrepInv'
<1> DEFINE x == [run[r] EXCEPT !.at = "apply", !.i = 1]
           t == [tree[Out(r)] EXCEPT !.base = Locked(r).commit]
<1>1. /\ run[r].at = "checkout" /\ RunOK(r, run[r], tree[Out(r)], root) /\ run[r] \in Run
      /\ Len(Locked(r).patches) \in Nat \ {0} /\ tree[Out(r)] \in Tree /\ Out(r) \in Outputs
      /\ Locked(r).commit \in Commits /\ Locked(r) = Locks[run[r].lock]
  BY Own DEF Checkout, At
<1>2. "apply" \in Steps /\ "apply" \in Cloned /\ run[r].at \in Cloned BY <1>1 DEF Steps, Cloned
<1>3. run' = [run EXCEPT ![r] = x] /\ x \in Run BY <1>2, GotoRecord DEF Checkout
<1>4. x.at = "apply" /\ x.i = 1 /\ x.lock = run[r].lock /\ x.notes = run[r].notes
  BY <1>1, AtStep
<1>5. t \in Tree BY <1>1 DEF Tree
<1>6. tree' = [tree EXCEPT ![Out(r)] = t] BY <1>1 DEF Checkout, PrepInv, PrepTypeOK
<1>7. /\ t.base = Locked(r).commit /\ t.owner = tree[Out(r)].owner
      /\ t.applied = tree[Out(r)].applied /\ t.receipt = tree[Out(r)].receipt
  BY <1>1 DEF Tree
<1> HIDE DEF x, t
<1>8. Built(r, run[r], tree[Out(r)], root) /\ Noted(run[r], tree[Out(r)]) BY <1>1 DEF RunOK
<1>9. run[r].i = 1 BY <1>8, <1>1 DEF Noted
<1>10. Len(tree[Out(r)].applied) = 0 BY <1>8, <1>9, <1>1, <1>2 DEF Built, Patched
<1>11. Built(r, x, t, root)
  BY <1>1, <1>2, <1>4, <1>7, <1>8, <1>10 DEF Built, AppliedOK, Patched, Overlaid, Packaged
<1>12. run[r].notes.patches = <<>>
  BY <1>1, <1>8 DEF Noted, Steps, LockNoted, Packaged, Overlaid, Patched, Cloned
<1>13. Noted(x, t)
  BY <1>4, <1>12 DEF Noted, OverlayNoted, LockNoted, Packaged, Overlaid, Patched, Cloned
<1>14. t.receipt.state # "complete" BY <1>2, <1>7, Inside
<1>15. x.i \in 1..Len(Locked(r).patches) BY <1>1, <1>4
<1> QED BY <1>2, <1>3, <1>4, <1>5, <1>6, <1>11, <1>13, <1>14, <1>15, InsideKeeps DEF Checkout

LEMMA ApplyKeeps ==
  ASSUME PrepInv, NEW r \in Runs, Apply(r)
  PROVE  PrepInv'
<1> DEFINE last == Len(Locked(r).patches)
           i == run[r].i
           done == tree[Out(r)].applied
           new == <<Current(r), root.patch[Current(r)]>>
           t == [tree[Out(r)] EXCEPT !.applied = Append(@, new)]
           x == IF i = last THEN [run[r] EXCEPT !.at = "overlay", !.i = 1]
                ELSE [run[r] EXCEPT !.at = "apply", !.i = i + 1]
<1>1. /\ run[r].at = "apply" /\ RunOK(r, run[r], tree[Out(r)], root) /\ run[r] \in Run
      /\ last \in Nat \ {0} /\ tree[Out(r)] \in Tree /\ Out(r) \in Outputs
      /\ i \in 1..last /\ Current(r) \in Patches /\ root.patch \in [Patches -> Nat]
      /\ Locked(r).sha \in [Patches -> Nat] /\ Locked(r) = Locks[run[r].lock]
      /\ Locked(r).patches[i] = Current(r)
  BY Own DEF Apply, At
<1>2. "apply" \in Steps /\ "overlay" \in Steps /\ "overlay" \in Cloned /\ "apply" \in Cloned
  BY DEF Steps, Cloned
<1>3. done \in Seq(Patches \X Nat) /\ new \in Patches \X Nat BY <1>1 DEF Tree
<1>4. t \in Tree
  <2>1. Append(done, new) \in Seq(Patches \X Nat) BY <1>3
  <2> QED BY <1>1, <2>1 DEF Tree
<1>5. t.applied = Append(done, new) /\ t.owner = tree[Out(r)].owner /\ t.base = tree[Out(r)].base
      /\ t.receipt = tree[Out(r)].receipt
  BY <1>1 DEF Tree
<1>6. tree' = [tree EXCEPT ![Out(r)] = t] BY <1>1 DEF Apply, PrepInv, PrepTypeOK
<1>7. run' = [run EXCEPT ![r] = x]
  <2>1. CASE i = last BY <1>2, <2>1, GotoRecord DEF Apply, Advance, Last
  <2>2. CASE i # last
    <3>1. run' = [run EXCEPT ![r].i = i + 1] BY <2>2 DEF Apply, Advance, Last, PrepInv, PrepTypeOK
    <3>2. [run[r] EXCEPT !.i = i + 1] = [run[r] EXCEPT !.at = "apply", !.i = i + 1]
      BY <1>1 DEF Run
    <3> QED BY <2>2, <3>1, <3>2 DEF PrepInv, PrepTypeOK
  <2> QED BY <2>1, <2>2
<1>8. /\ x \in Run /\ x.lock = run[r].lock /\ x.notes = run[r].notes /\ x.i \in 1..last
      /\ \/ i = last /\ x.at = "overlay" /\ x.i = 1
         \/ i # last /\ x.at = "apply" /\ x.i = i + 1
  <2>1. CASE i = last
    <3> DEFINE y == [run[r] EXCEPT !.at = "overlay", !.i = 1]
    <3>1. 1 \in Nat \ {0} /\ 1 \in 1..last BY <1>1
    <3>2. y \in Run BY <1>1, <1>2, <3>1, Moved
    <3>3. y.at = "overlay" /\ y.i = 1 /\ y.lock = run[r].lock /\ y.notes = run[r].notes
      BY <1>1, AtStep
    <3>4. x = y BY <2>1
    <3> HIDE DEF x, y, last, i
    <3> QED BY <2>1, <3>1, <3>2, <3>3, <3>4
  <2>2. CASE i # last
    <3> DEFINE y == [run[r] EXCEPT !.at = "apply", !.i = i + 1]
    <3>1. i + 1 \in Nat \ {0} /\ i + 1 \in 1..last BY <1>1, <2>2
    <3>2. y \in Run BY <1>1, <1>2, <3>1, Moved
    <3>3. y.at = "apply" /\ y.i = i + 1 /\ y.lock = run[r].lock /\ y.notes = run[r].notes
      BY <1>1, AtStep
    <3>4. x = y BY <2>2
    <3> HIDE DEF x, y, last, i
    <3> QED BY <2>2, <3>1, <3>2, <3>3, <3>4
  <2> QED BY <2>1, <2>2
<1> HIDE DEF x, t
<1>9. Built(r, run[r], tree[Out(r)], root) /\ Noted(run[r], tree[Out(r)]) BY <1>1 DEF RunOK
<1>10. /\ tree[Out(r)].owner = r /\ tree[Out(r)].receipt.state # "complete"
       /\ CheckedOK(Locked(r), last, run[r].notes.checked, root.patch)
  BY <1>1, <1>2, Inside
<1>11. Len(done) = i - 1 /\ tree[Out(r)].base = Locked(r).commit
  BY <1>1, <1>2, <1>9 DEF Built, Patched
<1>12. Len(t.applied) = i /\ t.applied[i] = new
       /\ \A j \in 1..(i - 1) : t.applied[j] = done[j]
  <2>1. i \in Int /\ i - 1 \in Nat /\ i = (i - 1) + 1 BY <1>1
  <2> HIDE DEF i, new, done
  <2> QED BY <1>3, <1>5, <1>11, <2>1
<1>13. AppliedOK(Locked(r), t.applied, run[r].notes.checked, root.patch)
  <2>1. \A j \in 1..(i - 1) :
          /\ done[j][1] = Locked(r).patches[j]
          /\ run[r].notes.checked[Locked(r).patches[j]] <= done[j][2]
          /\ done[j][2] <= root.patch[Locked(r).patches[j]]
    BY <1>1, <1>2, <1>9, <1>11 DEF Built, AppliedOK
  <2>2. run[r].notes.checked[Current(r)] <= root.patch[Current(r)] BY <1>1, <1>10 DEF CheckedOK
  <2>3. t.applied[i][1] = Current(r) /\ t.applied[i][2] = root.patch[Current(r)] BY <1>12
  <2>4. root.patch[Current(r)] \in Nat BY <1>1
  <2>5. \A j \in 1..i : j = i \/ j \in 1..(i - 1) BY <1>1
  <2>6. Locked(r).patches[i] = Current(r) BY <1>1
  <2> HIDE DEF i, new, done
  <2> DEFINE checked == run[r].notes.checked
  <2> HIDE DEF checked
  <2>7. checked[Current(r)] <= root.patch[Current(r)] BY <2>2 DEF checked
  <2>8. \A j \in 1..(i - 1) :
          /\ t.applied[j][1] = Locked(r).patches[j]
          /\ checked[Locked(r).patches[j]] <= t.applied[j][2]
          /\ t.applied[j][2] <= root.patch[Locked(r).patches[j]]
    BY <1>12, <2>1 DEF checked
  <2>9. AppliedOK(Locked(r), t.applied, checked, root.patch)
    BY <1>12, <2>3, <2>4, <2>5, <2>6, <2>7, <2>8 DEF AppliedOK
  <2> QED BY <2>9 DEF checked
<1>14. Built(r, x, t, root)
  <2>1. Locks[x.lock] = Locked(r) BY <1>1, <1>8
  <2>2. x.at \notin Overlaid /\ x.at \notin Packaged BY <1>8 DEF Overlaid, Packaged, Patched, Cloned
  <2>3. t.base = Locked(r).commit /\ t.owner = r /\ t.receipt.state # "complete"
    BY <1>5, <1>10, <1>11
  <2>4. Len(t.applied) = IF x.at \in Patched THEN last ELSE x.i - 1
    <3>1. "overlay" \in Patched /\ "apply" \notin Patched BY DEF Patched, Cloned
    <3>2. i = (i + 1) - 1 /\ Len(t.applied) = i BY <1>1, <1>12
    <3> HIDE DEF i, last
    <3> QED BY <1>8, <3>1, <3>2
  <2> HIDE DEF last
  <2>5. x.notes = run[r].notes BY <1>8
  <2> QED BY <1>13, <2>1, <2>2, <2>3, <2>4, <2>5 DEF Built, last
<1>15. run[r].notes.patches = <<>>
  BY <1>1, <1>9 DEF Noted, Steps, LockNoted, Packaged, Overlaid, Patched, Cloned
<1>16. Noted(x, t)
  BY <1>8, <1>15 DEF Noted, OverlayNoted, LockNoted, Packaged, Overlaid, Patched, Cloned
<1>17. run[r].at \in Cloned /\ x.at \in Cloned BY <1>1, <1>2, <1>8
<1>18. UNCHANGED <<root, source, edits>> BY DEF Apply
<1> QED BY <1>4, <1>5, <1>6, <1>7, <1>8, <1>10, <1>14, <1>16, <1>17, <1>18, InsideKeeps

LEMMA CopyOverlayKeeps ==
  ASSUME PrepInv, NEW r \in Runs, CopyOverlay(r)
  PROVE  PrepInv'
<1>1. /\ run[r].at = "overlay" /\ RunOK(r, run[r], tree[Out(r)], root) /\ run[r] \in Run
      /\ Len(Locked(r).patches) \in Nat \ {0} /\ tree[Out(r)] \in Tree /\ Out(r) \in Outputs
      /\ run[r].i \in 1..Len(Locked(r).patches) /\ Locked(r) = Locks[run[r].lock]
      /\ \A f \in Files : root.overlay[f] \in Nat \ {0}
  BY Own DEF CopyOverlay, At
<1>2. run[r].at \in Cloned BY <1>1 DEF Cloned
<1>3. Built(r, run[r], tree[Out(r)], root) /\ Noted(run[r], tree[Out(r)]) BY <1>1 DEF RunOK
<1>4. tree[Out(r)].owner = r /\ tree[Out(r)].receipt.state # "complete" BY <1>2, Inside
<1>5. UNCHANGED <<root, source, edits>> BY DEF CopyOverlay
<1>6. run[r].notes.patches = <<>> /\ run[r].i = 1
  BY <1>1, <1>3 DEF Noted, Steps, LockNoted, Packaged, Overlaid, Patched, Cloned
<1>7. CASE {f \in Files : tree[Out(r)].overlay[f] = 0} = {}
  <2> DEFINE x == [run[r] EXCEPT !.at = "metadata", !.i = 1]
             t == tree[Out(r)]
  <2>1. "metadata" \in Steps /\ "metadata" \in Cloned BY DEF Steps, Cloned
  <2>2. run' = [run EXCEPT ![r] = x] /\ x \in Run BY <1>7, <2>1, GotoRecord DEF CopyOverlay
  <2>3. x.at = "metadata" /\ x.i = 1 /\ x.lock = run[r].lock /\ x.notes = run[r].notes
    BY <1>1, AtStep
  <2> HIDE DEF x
  <2>4. \A f \in Files : tree[Out(r)].overlay[f] # 0 BY <1>7
  <2>5. Built(r, x, t, root)
    BY <1>1, <1>2, <1>3, <2>3, <2>4 DEF Built, Packaged, Overlaid, Patched, Cloned
  <2>6. Noted(x, t)
    BY <1>6, <2>3 DEF Noted, OverlayNoted, LockNoted, Packaged, Overlaid, Patched, Cloned
  <2>7. x.i \in 1..Len(Locked(r).patches) BY <1>1, <1>6, <2>3
  <2>8. tree' = [tree EXCEPT ![Out(r)] = t] BY <1>1, <1>7 DEF CopyOverlay, PrepInv, PrepTypeOK
  <2> QED BY <1>1, <1>2, <1>4, <1>5, <2>1, <2>2, <2>3, <2>5, <2>6, <2>7, <2>8, InsideKeeps
<1>8. CASE {f \in Files : tree[Out(r)].overlay[f] = 0} # {}
  <2>1. PICK f \in Files : tree' = [tree EXCEPT ![Out(r)].overlay[f] = root.overlay[f]]
    BY <1>8 DEF CopyOverlay
  <2> DEFINE t == [tree[Out(r)] EXCEPT !.overlay[f] = root.overlay[f]]
             x == run[r]
  <2>2. tree' = [tree EXCEPT ![Out(r)] = t] BY <1>1, <2>1 DEF PrepInv, PrepTypeOK
  <2>3. t \in Tree BY <1>1 DEF Tree
  <2>4. t.owner = tree[Out(r)].owner /\ t.base = tree[Out(r)].base
        /\ t.applied = tree[Out(r)].applied /\ t.receipt = tree[Out(r)].receipt
    BY <1>1 DEF Tree
  <2> HIDE DEF t
  <2>5. run' = [run EXCEPT ![r] = x] BY <1>8 DEF CopyOverlay, PrepInv, PrepTypeOK
  <2>6. Built(r, x, t, root)
    BY <1>1, <1>2, <1>3, <2>4 DEF Built, Packaged, Overlaid, Patched, Cloned
  <2>7. Noted(x, t)
    BY <1>1, <1>6 DEF Noted, OverlayNoted, LockNoted, Packaged, Overlaid, Patched, Cloned
  <2> QED BY <1>1, <1>2, <1>4, <1>5, <2>2, <2>3, <2>4, <2>5, <2>6, <2>7, InsideKeeps
<1> QED BY <1>7, <1>8

LEMMA CopyMetadataKeeps ==
  ASSUME PrepInv, NEW r \in Runs, CopyMetadata(r)
  PROVE  PrepInv'
<1> DEFINE x == [run[r] EXCEPT !.at = "lock digest", !.i = 1]
           t == [tree[Out(r)] EXCEPT !.meta = TRUE]
<1>1. /\ run[r].at = "metadata" /\ RunOK(r, run[r], tree[Out(r)], root) /\ run[r] \in Run
      /\ Len(Locked(r).patches) \in Nat \ {0} /\ tree[Out(r)] \in Tree /\ Out(r) \in Outputs
      /\ Locked(r) = Locks[run[r].lock]
  BY Own DEF CopyMetadata, At
<1>2. "lock digest" \in Steps /\ "lock digest" \in Cloned /\ run[r].at \in Cloned
  BY <1>1 DEF Steps, Cloned
<1>3. run' = [run EXCEPT ![r] = x] /\ x \in Run BY <1>2, GotoRecord DEF CopyMetadata
<1>4. x.at = "lock digest" /\ x.i = 1 /\ x.lock = run[r].lock /\ x.notes = run[r].notes
  BY <1>1, AtStep
<1>5. t \in Tree BY <1>1 DEF Tree
<1>6. tree' = [tree EXCEPT ![Out(r)] = t] BY <1>1 DEF CopyMetadata, PrepInv, PrepTypeOK
<1>7. /\ t.meta /\ t.owner = tree[Out(r)].owner /\ t.base = tree[Out(r)].base
      /\ t.overlay = tree[Out(r)].overlay
      /\ t.applied = tree[Out(r)].applied /\ t.receipt = tree[Out(r)].receipt
  BY <1>1 DEF Tree
<1> HIDE DEF x, t
<1>8. Built(r, run[r], tree[Out(r)], root) /\ Noted(run[r], tree[Out(r)]) BY <1>1 DEF RunOK
<1>9. Built(r, x, t, root)
  BY <1>1, <1>2, <1>4, <1>7, <1>8 DEF Built, Packaged, Overlaid, Patched, Cloned
<1>10. run[r].notes.patches = <<>>
  BY <1>1, <1>8 DEF Noted, Steps, LockNoted, Packaged, Overlaid, Patched, Cloned
<1>11. Noted(x, t)
  BY <1>4, <1>10 DEF Noted, OverlayNoted, LockNoted, Packaged, Overlaid, Patched, Cloned
<1>12. t.receipt.state # "complete" BY <1>2, <1>7, Inside
<1>13. x.i \in 1..Len(Locked(r).patches)
  <2>1. Len(Locked(r).patches) \in Nat \ {0} BY <1>1
  <2>2. 1 \in 1..Len(Locked(r).patches) BY <2>1
  <2>3. x.i = 1 BY <1>4
  <2> QED BY <2>2, <2>3
<1> QED BY <1>2, <1>3, <1>4, <1>5, <1>6, <1>9, <1>11, <1>12, <1>13, InsideKeeps DEF CopyMetadata

(* A step that only notes something for the receipt.                       *)
LEMMA NotingKeeps ==
  ASSUME PrepInv, NEW r \in Runs, UNCHANGED <<root, source, edits, tree>>,
         run[r].at \in Packaged,
         NEW x \in Run, x.at \in Packaged, x.lock = run[r].lock,
         x.i \in 1..Len(Locked(r).patches), run' = [run EXCEPT ![r] = x],
         x.notes.checked = run[r].notes.checked,
         Noted(x, tree[Out(r)])
  PROVE  PrepInv'
<1> DEFINE t == tree[Out(r)]
<1>1. /\ RunOK(r, run[r], t, root) /\ t \in Tree /\ Out(r) \in Outputs
      /\ Locked(r) = Locks[run[r].lock]
  BY Own
<1>2. /\ run[r].at \in Cloned /\ run[r].at \in Patched /\ run[r].at \in Overlaid
      /\ x.at \in Cloned /\ x.at \in Patched /\ x.at \in Overlaid
      /\ run[r].at # "checkout" /\ x.at # "checkout"
  BY DEF Packaged, Overlaid, Patched, Cloned
<1>3. tree' = [tree EXCEPT ![Out(r)] = t] BY <1>1 DEF PrepInv, PrepTypeOK
<1>4. t.receipt.state # "complete" BY <1>2, Inside
<1>5. Built(r, run[r], t, root) BY <1>1 DEF RunOK
<1> HIDE DEF t
<1>6. Built(r, x, t, root) BY <1>2, <1>5 DEF Built
<1>7. Noted(x, t) BY DEF t
<1> QED BY <1>1, <1>2, <1>3, <1>4, <1>6, <1>7, InsideKeeps

LEMMA DigestLockKeeps ==
  ASSUME PrepInv, NEW r \in Runs, DigestLock(r)
  PROVE  PrepInv'
<1> DEFINE notes == [run[r].notes EXCEPT !.lock = run[r].lock, !.lockNow = root.lock]
           x == [run[r] EXCEPT !.at = "patch digests", !.notes = notes]
<1>1. /\ run[r].at = "lock digest" /\ RunOK(r, run[r], tree[Out(r)], root) /\ run[r] \in Run
      /\ run[r].i \in 1..Len(Locked(r).patches) /\ root.lock \in 1..Len(Locks)
  BY Own DEF DigestLock, At
<1>2. "lock digest" \in Packaged /\ "patch digests" \in Packaged /\ "patch digests" \in Steps
      /\ "patch digests" \in LockNoted /\ "patch digests" \notin OverlayNoted
      /\ "lock digest" \in Steps \ (LockNoted \cup {"done", "stopped"})
  BY DEF Steps, OverlayNoted, LockNoted, Packaged, Overlaid, Patched, Cloned
<1>3. run[r].notes \in Receipt /\ run[r].lock \in Nat /\ root.lock \in Nat
  <2>1. Len(Locks) \in Nat BY PrepAssumption
  <2>2. run[r].notes \in Receipt /\ run[r].lock \in 1..Len(Locks) BY <1>1 DEF Run
  <2>3. 1..Len(Locks) \subseteq Nat BY <2>1
  <2> QED BY <1>1, <2>2, <2>3
<1>4. notes \in Receipt BY <1>3 DEF Receipt
<1>5. /\ notes.lock = run[r].lock /\ notes.patches = run[r].notes.patches
      /\ notes.lockNow = root.lock /\ notes.checked = run[r].notes.checked
  BY <1>3 DEF Receipt
<1> HIDE DEF notes
<1>6. x \in Run BY <1>1, <1>2, <1>4 DEF Run
<1>7. x.at = "patch digests" /\ x.i = run[r].i /\ x.lock = run[r].lock /\ x.notes = notes
  BY <1>1 DEF Run
<1>8. run' = [run EXCEPT ![r] = x]
  BY <1>1 DEF DigestLock, PrepInv, PrepTypeOK, notes
<1> HIDE DEF x
<1>9. run[r].notes.patches = <<>> /\ run[r].i = 1 BY <1>1, <1>2 DEF RunOK, Noted
<1>10. NoOlder(tree[Out(r)].applied, <<>>) BY DEF NoOlder
<1>13. run[r].lock <= root.lock BY <1>1 DEF RunOK, Verified
<1>11. Noted(x, tree[Out(r)])
  <2>1. x.notes.lock = x.lock /\ x.notes.patches = <<>> /\ x.i = 1 BY <1>5, <1>7, <1>9
  <2>5. x.notes.lock <= x.notes.lockNow BY <1>5, <1>7, <1>13
  <2>2. Len(x.notes.patches) = x.i - 1 BY <2>1
  <2>3. x.at \in LockNoted /\ x.at \notin OverlayNoted /\ x.at = "patch digests" BY <1>2, <1>7
  <2>4. NoOlder(tree[Out(r)].applied, x.notes.patches) BY <1>10, <2>1
  <2> QED BY <2>1, <2>2, <2>3, <2>4, <2>5 DEF Noted
<1>12. UNCHANGED <<root, source, edits, tree>> BY DEF DigestLock
<1> QED BY <1>1, <1>2, <1>5, <1>6, <1>7, <1>8, <1>11, <1>12, NotingKeeps

LEMMA DigestPatchKeeps ==
  ASSUME PrepInv, NEW r \in Runs, DigestPatch(r)
  PROVE  PrepInv'
<1> DEFINE last == Len(Locked(r).patches)
           i == run[r].i
           old == run[r].notes.patches
           new == Append(old, root.patch[Current(r)])
           notes == [run[r].notes EXCEPT !.patches = new]
           x == [run[r] EXCEPT !.at = IF i = last THEN "overlay digests" ELSE @,
                               !.i = IF i = last THEN 1 ELSE i + 1, !.notes = notes]
           applied == tree[Out(r)].applied
<1>1. /\ run[r].at = "patch digests" /\ RunOK(r, run[r], tree[Out(r)], root)
      /\ run[r] \in Run /\ tree[Out(r)] \in Tree
      /\ i \in 1..last /\ last \in Nat \ {0} /\ root.patch \in [Patches -> Nat]
      /\ Current(r) \in Patches /\ Locked(r) = Locks[run[r].lock]
      /\ Locked(r).patches[i] = Current(r)
  BY Own DEF DigestPatch, At
<1>0. i \in Nat \ {0} /\ i \in 1..last /\ last \in Nat \ {0} /\ i = (i + 1) - 1
  <2>1. i \in 1..last /\ last \in Nat \ {0} BY <1>1
  <2> HIDE DEF i, last
  <2> QED BY <2>1
<1>2. /\ "patch digests" \in Packaged /\ "overlay digests" \in Packaged
      /\ "patch digests" \in LockNoted /\ "overlay digests" \in LockNoted
      /\ "patch digests" \notin OverlayNoted /\ "overlay digests" \notin OverlayNoted
      /\ "patch digests" \in Steps /\ "overlay digests" \in Steps
      /\ "patch digests" \in Cloned /\ "patch digests" \in Patched
  BY DEF Steps, OverlayNoted, LockNoted, Packaged, Overlaid, Patched, Cloned
<1>3. run[r].notes \in Receipt BY <1>1 DEF Run
<1>4. old \in Seq(Nat) /\ root.patch[Current(r)] \in Nat BY <1>1, <1>3 DEF Receipt
<1>5. new \in Seq(Nat) BY <1>4
<1>6. /\ notes.patches = new /\ notes.lock = run[r].notes.lock
      /\ notes.lockNow = run[r].notes.lockNow /\ notes.checked = run[r].notes.checked
  BY <1>3 DEF Receipt
<1>7. notes \in Receipt
  <2> HIDE DEF new
  <2> QED BY <1>3, <1>5 DEF Receipt
<1>8. run' = [run EXCEPT ![r] = x]
  BY <1>1 DEF DigestPatch, Note, Last, PrepInv, PrepTypeOK
<1> HIDE DEF notes, new
<1>9. x.lock = run[r].lock /\ x.notes = notes
  BY <1>1 DEF Run
<1>10. /\ i = last => x.at = "overlay digests" /\ x.i = 1
       /\ i # last => x.at = "patch digests" /\ x.i = i + 1
  BY <1>1 DEF Run
<1>11. x.i \in 1..last /\ x.i \in Nat \ {0} /\ x.at \in {"patch digests", "overlay digests"}
  <2> HIDE DEF x, i, last
  <2>1. CASE i = last
    <3>1. \A k : k = 1 => k \in 1..last /\ k \in Nat \ {0} BY <1>0
    <3>2. x.i = 1 /\ x.at = "overlay digests" BY <1>10, <2>1
    <3>3. x.i \in 1..last /\ x.i \in Nat \ {0} BY <3>1, <3>2, Zenon
    <3> QED BY <3>2, <3>3
  <2>2. CASE i # last
    <3>1. \A k : k = i + 1 => k \in 1..last /\ k \in Nat \ {0} BY <1>0, <2>2
    <3>2. x.i = i + 1 BY <1>10, <2>2
    <3>3. x.at = "patch digests" BY <1>10, <2>2
    <3>4. x.i \in 1..last /\ x.i \in Nat \ {0} BY <3>1, <3>2, Zenon
    <3> QED BY <3>3, <3>4
  <2> QED BY <2>1, <2>2
<1>12. x \in Run
  <2> DEFINE a == IF i = last THEN "overlay digests" ELSE run[r].at
             n == IF i = last THEN 1 ELSE i + 1
  <2>1. x = [run[r] EXCEPT !.at = a, !.i = n, !.notes = notes] OBVIOUS
  <2>2. a \in Steps BY <1>1, <1>2
  <2>3. n \in Nat \ {0}
    <3> HIDE DEF i, last
    <3> QED BY <1>0
  <2> HIDE DEF a, n, x
  <2> QED BY <1>1, <1>7, <2>1, <2>2, <2>3 DEF Run
<1> HIDE DEF x
<1>13. Noted(run[r], tree[Out(r)]) /\ Built(r, run[r], tree[Out(r)], root)
  BY <1>1 DEF RunOK
<1>14. /\ run[r].notes.lock = run[r].lock /\ Len(old) = i - 1 /\ NoOlder(applied, old)
       /\ run[r].notes.lock <= run[r].notes.lockNow
  BY <1>1, <1>2, <1>13 DEF Noted
<1>15. Len(applied) = last /\ AppliedOK(Locked(r), applied, run[r].notes.checked, root.patch)
  BY <1>1, <1>2, <1>13 DEF Built
<1>16. Len(new) = i /\ new[i] = root.patch[Current(r)] /\ \A j \in 1..(i - 1) : new[j] = old[j]
  <2> HIDE DEF i, old, last
  <2>1. i \in Int /\ i - 1 \in Nat /\ i = (i - 1) + 1 BY <1>0
  <2> QED BY <1>4, <1>14, <2>1 DEF new
<1>17. NoOlder(applied, new)
  <2>1. \A j \in 1..i : j = i \/ j \in 1..(i - 1)
    <3> HIDE DEF i, last
    <3> QED BY <1>0
  <2>2. \A j \in 1..(i - 1) : applied[j][2] <= old[j] BY <1>14 DEF NoOlder
  <2>3. i \in 1..Len(applied) BY <1>1, <1>15
  <2>4. applied[i][2] <= root.patch[Locked(r).patches[i]] BY <1>15, <2>3 DEF AppliedOK
  <2>5. applied[i][2] <= root.patch[Current(r)] BY <1>1, <2>4
  <2> HIDE DEF i, old, applied
  <2> QED BY <1>16, <2>1, <2>2, <2>5 DEF NoOlder
<1>18. Len(new) = IF x.at = "patch digests" THEN x.i - 1 ELSE last
  <2> HIDE DEF i, last
  <2> QED BY <1>0, <1>10, <1>16
<1>19. Noted(x, tree[Out(r)])
  <2>1. x.notes.patches = new /\ x.notes.lock = x.lock /\ x.notes.lock <= x.notes.lockNow
    BY <1>6, <1>9, <1>14
  <2>2. x.at \in LockNoted /\ x.at \notin OverlayNoted BY <1>2, <1>11
  <2>3. x.i # 1 => x.at = "patch digests"
    <3> HIDE DEF i, last
    <3> QED BY <1>10
  <2>4. Locks[x.lock] = Locked(r) BY <1>1, <1>9
  <2> QED BY <1>17, <1>18, <2>1, <2>2, <2>3, <2>4 DEF Noted
<1>20. UNCHANGED <<root, source, edits, tree>> BY DEF DigestPatch
<1>21. run[r].at \in Packaged /\ x.at \in Packaged BY <1>1, <1>2, <1>11
<1> HIDE DEF i, old, applied
<1> QED BY <1>6, <1>8, <1>9, <1>11, <1>12, <1>19, <1>20, <1>21, NotingKeeps

LEMMA DigestOverlayKeeps ==
  ASSUME PrepInv, NEW r \in Runs, DigestOverlay(r)
  PROVE  PrepInv'
<1> DEFINE notes == [run[r].notes EXCEPT !.overlay = tree[Out(r)].overlay]
           x == [run[r] EXCEPT !.at = "open", !.notes = notes]
<1>1. /\ run[r].at = "overlay digests" /\ RunOK(r, run[r], tree[Out(r)], root)
      /\ run[r] \in Run /\ tree[Out(r)] \in Tree
      /\ run[r].i \in 1..Len(Locked(r).patches)
  BY Own DEF DigestOverlay, At
<1>2. "overlay digests" \in Packaged /\ "open" \in Packaged /\ "open" \in Steps
      /\ "open" \in LockNoted /\ "overlay digests" \in LockNoted
  BY DEF Steps, OverlayNoted, LockNoted, Packaged, Overlaid, Patched, Cloned
<1>3. run[r].notes \in Receipt /\ tree[Out(r)].overlay \in [Files -> Nat] BY <1>1 DEF Run, Tree
<1>4. notes \in Receipt BY <1>3 DEF Receipt
<1>5. notes.lock = run[r].notes.lock /\ notes.patches = run[r].notes.patches
      /\ notes.overlay = tree[Out(r)].overlay /\ notes.lockNow = run[r].notes.lockNow
      /\ notes.checked = run[r].notes.checked
  BY <1>3 DEF Receipt
<1> HIDE DEF notes
<1>6. x \in Run BY <1>1, <1>2, <1>4 DEF Run
<1>7. x.at = "open" /\ x.i = run[r].i /\ x.lock = run[r].lock /\ x.notes = notes
  BY <1>1 DEF Run
<1>8. run' = [run EXCEPT ![r] = x]
  <2>1. run \in [Runs -> Run] BY DEF PrepInv, PrepTypeOK
  <2>2. run' = [run EXCEPT ![r].at = "open", ![r].notes.overlay = tree[Out(r)].overlay]
    BY DEF DigestOverlay
  <2>3. [run EXCEPT ![r].at = "open", ![r].notes.overlay = tree[Out(r)].overlay]
          = [run EXCEPT ![r] = [run[r] EXCEPT !.at = "open", !.notes = [run[r].notes EXCEPT !.overlay = tree[Out(r)].overlay]]]
    BY <1>1, <2>1 DEF Run
  <2> QED BY <2>2, <2>3 DEF notes
<1> HIDE DEF x
<1>9. Noted(run[r], tree[Out(r)]) BY <1>1 DEF RunOK
<1>10. run[r].i = 1 BY <1>1, <1>9 DEF Noted
<1>11. Noted(x, tree[Out(r)]) BY <1>1, <1>2, <1>5, <1>7, <1>9, <1>10 DEF Noted
<1>12. UNCHANGED <<root, source, edits, tree>> BY DEF DigestOverlay
<1> QED BY <1>1, <1>2, <1>5, <1>6, <1>7, <1>8, <1>11, <1>12, NotingKeeps

LEMMA OpenReceiptKeeps ==
  ASSUME PrepInv, NEW r \in Runs, OpenReceipt(r)
  PROVE  PrepInv'
<1> DEFINE x == [run[r] EXCEPT !.at = "dump", !.i = 1]
           t == [tree[Out(r)] EXCEPT !.receipt.state = "partial"]
<1>1. /\ run[r].at = "open" /\ RunOK(r, run[r], tree[Out(r)], root) /\ run[r] \in Run
      /\ Len(Locked(r).patches) \in Nat \ {0} /\ tree[Out(r)] \in Tree /\ Out(r) \in Outputs
      /\ Locked(r) = Locks[run[r].lock] /\ run[r].i \in 1..Len(Locked(r).patches)
  BY Own DEF OpenReceipt, At
<1>2. /\ "dump" \in Steps /\ "dump" \in Cloned /\ "open" \in Cloned /\ "dump" # "checkout"
      /\ "open" \in Patched /\ "open" \in Overlaid /\ "open" \in Packaged
      /\ "open" \in LockNoted /\ "open" \in OverlayNoted
      /\ "dump" \in Patched /\ "dump" \in Overlaid /\ "dump" \in Packaged
      /\ "dump" \in LockNoted /\ "dump" \in OverlayNoted
  BY DEF Steps, OverlayNoted, LockNoted, Packaged, Overlaid, Patched, Cloned
<1>3. run' = [run EXCEPT ![r] = x] /\ x \in Run BY <1>2, GotoRecord DEF OpenReceipt
<1>4. x.at = "dump" /\ x.i = 1 /\ x.lock = run[r].lock /\ x.notes = run[r].notes
  BY <1>1, AtStep
<1>5. t \in Tree BY <1>1 DEF Tree, Receipt
<1>6. tree' = [tree EXCEPT ![Out(r)] = t] BY <1>1 DEF OpenReceipt, PrepInv, PrepTypeOK
<1>7. /\ t.owner = tree[Out(r)].owner /\ t.base = tree[Out(r)].base /\ t.meta = tree[Out(r)].meta
      /\ t.overlay = tree[Out(r)].overlay /\ t.applied = tree[Out(r)].applied
      /\ t.receipt.state = "partial"
  BY <1>1 DEF Tree, Receipt
<1> HIDE DEF x, t
<1>8. Built(r, run[r], tree[Out(r)], root) /\ Noted(run[r], tree[Out(r)]) BY <1>1 DEF RunOK
<1>9. Built(r, x, t, root) BY <1>1, <1>2, <1>4, <1>7, <1>8 DEF Built
<1>10. Noted(x, t)
  BY <1>1, <1>2, <1>4, <1>7, <1>8 DEF Noted
<1>11. 1 \in 1..Len(Locked(r).patches) BY <1>1
<1> QED BY <1>1, <1>2, <1>3, <1>4, <1>5, <1>6, <1>7, <1>9, <1>10, <1>11, InsideKeeps DEF OpenReceipt

LEMMA DumpReceiptKeeps ==
  ASSUME PrepInv, NEW r \in Runs, DumpReceipt(r)
  PROVE  PrepInv'
<1> DEFINE x == [run[r] EXCEPT !.at = "done", !.i = 1]
           old == tree[Out(r)]
           receipt == [run[r].notes EXCEPT !.state = "complete"]
           t == [old EXCEPT !.receipt = receipt]
           n == run[r].lock
           patches == Locks[n].patches
<1>1. /\ run[r].at = "dump" /\ RunOK(r, run[r], old, root) /\ run[r] \in Run
      /\ old \in Tree /\ Out(r) \in Outputs /\ Locked(r) = Locks[n]
      /\ Len(Locked(r).patches) \in Nat \ {0}
  BY Own DEF DumpReceipt, At
<1>2. /\ "done" \in Steps /\ "dump" \in Cloned /\ "dump" # "checkout"
      /\ "dump" \in Patched /\ "dump" \in Overlaid /\ "dump" \in Packaged
      /\ "dump" \in LockNoted /\ "dump" \in OverlayNoted
      /\ "done" \notin Cloned /\ "done" \notin LockNoted /\ "done" \notin OverlayNoted
  BY DEF Steps, OverlayNoted, LockNoted, Packaged, Overlaid, Patched, Cloned
<1>3. run' = [run EXCEPT ![r] = x] /\ x \in Run BY <1>2, GotoRecord DEF DumpReceipt
<1>4. x.at = "done" /\ x.i = 1 /\ x.lock = n BY <1>1, AtStep
<1>5. run[r].notes \in Receipt /\ n \in 1..Len(Locks) BY <1>1 DEF Run
<1>6. receipt \in Receipt /\ receipt.state = "complete" /\ receipt.lock = run[r].notes.lock
      /\ receipt.patches = run[r].notes.patches /\ receipt.overlay = run[r].notes.overlay
      /\ receipt.lockNow = run[r].notes.lockNow /\ receipt.checked = run[r].notes.checked
  BY <1>5 DEF Receipt
<1>7. tree' = [tree EXCEPT ![Out(r)] = t] BY <1>1 DEF DumpReceipt, PrepInv, PrepTypeOK
<1> HIDE DEF receipt, x
<1>8. t \in Tree BY <1>1, <1>6 DEF Tree
<1>9. /\ t.owner = old.owner /\ t.base = old.base /\ t.meta = old.meta
      /\ t.overlay = old.overlay /\ t.applied = old.applied /\ t.receipt = receipt
  BY <1>1 DEF Tree
<1> HIDE DEF t
<1>10. Built(r, run[r], old, root) /\ Noted(run[r], old) BY <1>1 DEF RunOK
<1>11. /\ old.owner = r /\ old.base = Locks[n].commit /\ old.meta
       /\ Len(old.applied) = Len(patches) /\ AppliedOK(Locks[n], old.applied, run[r].notes.checked, root.patch)
       /\ \A f \in Files : old.overlay[f] # 0
  BY <1>1, <1>2, <1>10 DEF Built
<1>12. /\ run[r].notes.lock = n /\ run[r].notes.lock <= run[r].notes.lockNow
       /\ Len(run[r].notes.patches) = Len(patches)
       /\ NoOlder(old.applied, run[r].notes.patches) /\ run[r].notes.overlay = old.overlay
  BY <1>1, <1>2, <1>10 DEF Noted
<1>13. t.owner # Absent BY <1>9, <1>11, PrepAssumption
<1>14. \A j \in 1..Len(patches) : t.applied[j][1] = patches[j]
  BY <1>9, <1>11 DEF AppliedOK
<1>15. old.applied \in Seq(Patches \X Nat) /\ run[r].notes.patches \in Seq(Nat)
  BY <1>1, <1>5 DEF Tree, Receipt
<1>25. CheckedOK(Locks[n], Len(patches), run[r].notes.checked, root.patch)
  BY <1>1, <1>2 DEF RunOK, Verified
<1>16. \A j \in 1..Len(patches) :
         LET p == patches[j] IN
         /\ Text[p][t.receipt.checked[p]] = Locks[n].sha[p]
         /\ t.receipt.checked[p] <= t.applied[j][2] /\ t.applied[j][2] <= t.receipt.patches[j]
  <2> DEFINE noted == run[r].notes.patches
             checked == run[r].notes.checked
  <2>1. t.receipt.patches = noted /\ t.applied = old.applied /\ t.receipt.checked = checked
    BY <1>6, <1>9
  <2>2. Len(old.applied) = Len(patches) /\ Len(noted) = Len(patches) BY <1>11, <1>12
  <2>3. AppliedOK(Locks[n], old.applied, checked, root.patch) /\ NoOlder(old.applied, noted)
    BY <1>11, <1>12
  <2>4. CheckedOK(Locks[n], Len(patches), checked, root.patch) BY <1>25
  <2> HIDE DEF noted, checked, old, n
  <2> QED BY <2>1, <2>2, <2>3, <2>4 DEF AppliedOK, NoOlder, CheckedOK
<1>17. t.receipt.lock = n /\ t.receipt.overlay = t.overlay /\ t.receipt.lock <= t.receipt.lockNow
  BY <1>6, <1>9, <1>12
<1>18. /\ t.base = Locks[n].commit /\ t.meta /\ Len(t.applied) = Len(patches)
       /\ \A f \in Files : t.overlay[f] # 0
  BY <1>9, <1>11
<1>19. Sealed(t)
  <2>1. t.receipt.lock = n /\ Locks[n].patches = patches BY <1>17
  <2> HIDE DEF n, patches, old
  <2> QED BY <1>13, <1>14, <1>16, <1>17, <1>18, <2>1 DEF Sealed
<1>20. Allowed(r, x) /\ Built(r, x, t, root) /\ Noted(x, t)
  BY <1>2, <1>4 DEF Allowed, Built, Noted
<1>21. Verified(x, root)
  <2>1. 1 \in 1..Len(Locks[x.lock].patches) BY <1>1, <1>4
  <2>2. n <= root.lock BY <1>1 DEF RunOK, Verified
  <2>3. x.at \notin {"verify", "clone"} /\ x.at \notin Cloned BY <1>2, <1>4
  <2> QED BY <1>4, <2>1, <2>2, <2>3 DEF Verified
<1>22. RunOK(r, x, t, root) BY <1>20, <1>21 DEF RunOK
<1>23. tree[Out(r)].owner \in {r, Absent} BY <1>11
<1>24. UNCHANGED <<root, source, edits>> BY DEF DumpReceipt
<1> QED BY <1>3, <1>7, <1>8, <1>19, <1>22, <1>23, <1>24, Frame

(* An edit gives a file a later edition, so what was read stays no newer.  *)
LEMMA EditKeeps ==
  ASSUME PrepInv, Edit
  PROVE  PrepInv'
<1>1. root.patch \in [Patches -> Nat] /\ UNCHANGED <<run, tree>>
  BY DEF Edit, PrepInv, PrepTypeOK
<1>2. /\ root' \in [lock : 1..Len(Locks), patch : [Patches -> Nat], overlay : [Files -> Nat \ {0}]]
      /\ \A p \in Patches : root.patch[p] <= root'.patch[p]
      /\ root.lock <= root'.lock
  <2>1. root \in [lock : 1..Len(Locks), patch : [Patches -> Nat], overlay : [Files -> Nat \ {0}]]
    BY DEF PrepInv, PrepTypeOK
  <2>2. ASSUME NEW p \in Patches, root' = [root EXCEPT !.patch[p] = @ + 1] PROVE <1>2
    <3> DEFINE new == [root.patch EXCEPT ![p] = @ + 1]
    <3>1. new \in [Patches -> Nat] /\ \A q \in Patches : root.patch[q] <= new[q] BY <2>1
    <3>2. root' = [root EXCEPT !.patch = new] BY <2>2
    <3> HIDE DEF new
    <3>3. root' \in [lock : 1..Len(Locks), patch : [Patches -> Nat], overlay : [Files -> Nat \ {0}]]
      BY <2>1, <3>1, <3>2
    <3>4. root'.patch = new /\ root'.lock = root.lock BY <2>1, <3>2
    <3>5. root.lock <= root'.lock BY <2>1, <3>4
    <3> QED BY <3>1, <3>3, <3>4, <3>5
  <2>3. ASSUME NEW f \in Files, root' = [root EXCEPT !.overlay[f] = @ + 1] PROVE <1>2
    <3> DEFINE new == [root.overlay EXCEPT ![f] = @ + 1]
    <3>1. new \in [Files -> Nat \ {0}] BY <2>1
    <3>2. root' = [root EXCEPT !.overlay = new] BY <2>3
    <3> HIDE DEF new
    <3>3. \A q \in Patches : root.patch[q] <= root.patch[q] BY <2>1
    <3>4. root' \in [lock : 1..Len(Locks), patch : [Patches -> Nat], overlay : [Files -> Nat \ {0}]]
      BY <2>1, <3>1, <3>2
    <3>5. root'.patch = root.patch /\ root'.lock = root.lock BY <2>1, <3>2
    <3>6. root.lock <= root'.lock BY <2>1, <3>5
    <3> QED BY <3>3, <3>4, <3>5, <3>6
  <2>4. ASSUME root.lock < Len(Locks), root' = [root EXCEPT !.lock = @ + 1] PROVE <1>2
    <3>1. Len(Locks) \in Nat BY PrepAssumption
    <3>2. root.lock + 1 \in 1..Len(Locks) BY <2>1, <2>4, <3>1
    <3> QED BY <2>1, <2>4, <3>2
  <2>5. ASSUME root' = root PROVE <1>2 BY <2>1, <2>5
  <2> QED BY <2>2, <2>3, <2>4, <2>5 DEF Edit
<1>3. source' \in [head : Commits, clean : BOOLEAN] BY DEF Edit, PrepInv, PrepTypeOK
<1>4. PrepTypeOK' BY <1>1, <1>2, <1>3 DEF PrepInv, PrepTypeOK
<1>5. ASSUME NEW r \in Runs PROVE RunOK(r, run[r], tree[Out(r)], root')
  <2> DEFINE lock == Locked(r)
  <2>1. /\ RunOK(r, run[r], tree[Out(r)], root) /\ lock = Locks[run[r].lock]
        /\ lock.patches \in Seq(Patches) /\ lock.sha \in [Patches -> Nat]
        /\ tree[Out(r)] \in Tree /\ Len(lock.patches) \in Nat
        /\ run[r].i \in 1..Len(lock.patches) /\ run[r].lock \in Nat
        /\ run[r].notes \in Receipt
    BY Own DEF Run
  <2>2. root'.patch \in [Patches -> Nat] /\ root.lock \in Nat /\ root'.lock \in Nat
    BY <1>2 DEF PrepInv, PrepTypeOK
  <2>0. run[r].notes.checked \in [Patches -> Nat] BY <2>1 DEF Receipt
  <2> DEFINE checked == run[r].notes.checked
  <2> HIDE DEF lock, checked
  <2>3. ASSUME NEW n \in 0..Len(lock.patches), CheckedOK(lock, n, checked, root.patch)
        PROVE  CheckedOK(lock, n, checked, root'.patch)
    <3> SUFFICES ASSUME NEW j \in 1..n
                 PROVE  checked[lock.patches[j]] <= root'.patch[lock.patches[j]]
      BY <2>3 DEF CheckedOK
    <3>1. lock.patches[j] \in Patches BY <2>1
    <3>2. checked[lock.patches[j]] <= root.patch[lock.patches[j]] BY <2>3 DEF CheckedOK
    <3>3. root.patch[lock.patches[j]] <= root'.patch[lock.patches[j]] BY <1>2, <3>1
    <3>4. /\ checked[lock.patches[j]] \in Nat /\ root.patch[lock.patches[j]] \in Nat
          /\ root'.patch[lock.patches[j]] \in Nat
      BY <1>1, <2>0, <2>2, <3>1 DEF checked
    <3> QED BY <3>2, <3>3, <3>4
  <2>4. Verified(run[r], root')
    <3>1. run[r].i - 1 \in 0..Len(lock.patches) /\ Len(lock.patches) \in 0..Len(lock.patches)
      BY <2>1
    <3>2. run[r].lock <= root'.lock BY <1>2, <2>1, <2>2 DEF RunOK, Verified
    <3>3. run[r].at = "verify" => CheckedOK(lock, run[r].i - 1, checked, root'.patch)
      BY <2>1, <2>3, <3>1 DEF RunOK, Verified, checked
    <3>4. run[r].at \in {"clone"} \cup Cloned =>
            CheckedOK(lock, Len(lock.patches), checked, root'.patch)
      BY <2>1, <2>3, <3>1 DEF RunOK, Verified, checked
    <3> QED BY <2>1, <3>2, <3>3, <3>4 DEF Verified, checked
  <2>5. Built(r, run[r], tree[Out(r)], root')
    <3> SUFFICES ASSUME run[r].at \in Cloned PROVE Built(r, run[r], tree[Out(r)], root')
      BY DEF Built
    <3> DEFINE applied == tree[Out(r)].applied
    <3>1. applied \in Seq(Patches \X Nat) BY <2>1 DEF Tree
    <3>2. AppliedOK(lock, applied, checked, root.patch) BY <2>1 DEF RunOK, Built, checked
    <3>3. Len(applied) <= Len(lock.patches)
      <4>1. Len(applied) = IF run[r].at \in Patched THEN Len(lock.patches) ELSE run[r].i - 1
        BY <2>1 DEF RunOK, Built
      <4> HIDE DEF applied
      <4> QED BY <2>1, <4>1
    <3> HIDE DEF applied
    <3>4. AppliedOK(lock, applied, checked, root'.patch)
      <4> SUFFICES ASSUME NEW j \in 1..Len(applied)
                   PROVE  applied[j][2] <= root'.patch[lock.patches[j]]
        BY <3>2 DEF AppliedOK
      <4>1. j \in 1..Len(lock.patches) BY <2>1, <3>1, <3>3
      <4>2. lock.patches[j] \in Patches BY <2>1, <4>1
      <4>3. applied[j][2] <= root.patch[lock.patches[j]] BY <3>2 DEF AppliedOK
      <4>4. root.patch[lock.patches[j]] <= root'.patch[lock.patches[j]] BY <1>2, <4>2
      <4>5. /\ applied[j][2] \in Nat /\ root.patch[lock.patches[j]] \in Nat
            /\ root'.patch[lock.patches[j]] \in Nat
        <5>1. applied[j] \in Patches \X Nat BY <3>1
        <5>2. applied[j][2] \in Nat BY <5>1
        <5> QED BY <1>1, <2>2, <4>2, <5>2
      <4> QED BY <4>3, <4>4, <4>5
    <3>5. AppliedOK(Locks[run[r].lock], tree[Out(r)].applied, run[r].notes.checked, root'.patch)
      BY <2>1, <3>4 DEF applied, checked
    <3> QED BY <2>1, <3>5 DEF RunOK, Built
  <2> QED BY <2>1, <2>4, <2>5 DEF RunOK
<1>6. \A r \in Runs : RunOK(r, run'[r], tree'[Out(r)], root') BY <1>1, <1>5
<1>7. \A o \in Outputs : Sealed(tree'[o]) BY <1>1 DEF PrepInv
<1> QED BY <1>4, <1>6, <1>7 DEF PrepInv

LEMMA PrepStarts ==
  ASSUME PrepInit
  PROVE  PrepInv
<1>1. 1 \in 1..Len(Locks) /\ Len(Locks) \in Nat BY PrepAssumption
<1>2. NoFiles \in [Files -> Nat] BY DEF NoFiles
<1>3. Blank \in Receipt BY <1>2 DEF Blank, Receipt
<1>4. Locks[1].commit \in Commits /\ Locks[1].sha \in [Patches -> Nat]
      /\ Len(Locks[1].patches) \in Nat \ {0}
  BY <1>1, LockShape
<1>5. \A o \in {Nobody, Absent} : Bare(o, Locks[1].commit) \in Tree
  <2>1. <<>> \in Seq(Patches \X Nat) OBVIOUS
  <2> QED BY <1>2, <1>3, <1>4, <2>1 DEF Bare, Tree
<1>6. \A o \in {Nobody, Absent} : Sealed(Bare(o, Locks[1].commit)) BY DEF Bare, Blank, Sealed
<1>7. \A o \in Outputs : \E w \in {Nobody, Absent} : tree[o] = Bare(w, Locks[1].commit)
  BY DEF PrepInit
<1>8. \A r \in Runs : run[r] = [at |-> "load", lock |-> 1, i |-> 1, notes |-> Blank]
  BY DEF PrepInit
<1>9. PrepTypeOK
  <2>1. root \in [lock : 1..Len(Locks), patch : [Patches -> Nat], overlay : [Files -> Nat \ {0}]]
    BY <1>1, <1>4 DEF PrepInit
  <2>2. "load" \in Steps BY DEF Steps
  <2>3. run \in [Runs -> Run] BY <1>1, <1>3, <2>2 DEF PrepInit, Run
  <2>4. tree \in [Outputs -> Tree] BY <1>5 DEF PrepInit
  <2> QED BY <2>1, <2>3, <2>4 DEF PrepInit, PrepTypeOK
<1>10. ASSUME NEW r \in Runs PROVE RunOK(r, run[r], tree[Out(r)], root)
  <2>1. run[r].at = "load" /\ run[r].lock = 1 /\ run[r].i = 1 /\ run[r].notes.patches = <<>>
    BY <1>8 DEF Blank
  <2>2. "load" \notin Cloned /\ "load" \notin LockNoted /\ "load" \notin OverlayNoted
    BY DEF OverlayNoted, LockNoted, Packaged, Overlaid, Patched, Cloned
  <2>3. 1 \in 1..Len(Locks[1].patches) BY <1>4
  <2>6. run[r].lock <= root.lock BY <2>1 DEF PrepInit
  <2>4. Verified(run[r], root) BY <2>1, <2>2, <2>3, <2>6 DEF Verified
  <2>5. Allowed(r, run[r]) /\ Built(r, run[r], tree[Out(r)], root)
        /\ Noted(run[r], tree[Out(r)])
    BY <2>1, <2>2 DEF Allowed, Built, Noted
  <2> QED BY <2>4, <2>5 DEF RunOK
<1> QED BY <1>6, <1>7, <1>9, <1>10 DEF PrepInv

(* What every run has verified, built and noted, whatever the other runs   *)
(* and the maintainer do meanwhile: the invariant behind the receipts.     *)
THEOREM PrepInvariant == PrepSpec => []PrepInv
<1>1. PrepInv /\ [PrepNext]_prepVars => PrepInv'
  <2> SUFFICES ASSUME PrepInv, [PrepNext]_prepVars PROVE PrepInv' OBVIOUS
  <2>1. CASE Edit BY <2>1, EditKeeps
  <2>2. ASSUME NEW r \in Runs, RunStep(r) PROVE PrepInv'
    BY <2>2, LoadLockKeeps, VerifySourceKeeps, ValidateOutputKeeps, VerifyPatchKeeps,
       CloneKeeps, CheckoutKeeps, ApplyKeeps, CopyOverlayKeeps, CopyMetadataKeeps,
       DigestLockKeeps, DigestPatchKeeps, DigestOverlayKeeps, OpenReceiptKeeps,
       DumpReceiptKeeps, StopKeeps
    DEF RunStep
  <2>3. CASE UNCHANGED prepVars BY <2>3 DEF prepVars, PrepInv, PrepTypeOK
  <2> QED BY <2>1, <2>2, <2>3 DEF PrepNext
<1> QED BY <1>1, PrepStarts, PTL DEF PrepSpec

(* A complete receipt stands in the tree that the lock it names describes  *)
(* (tools/prepare_sglang.py:78-108).                                       *)
THEOREM ReceiptsAreComplete == PrepSpec => []ReceiptComplete
<1>1. PrepInv => ReceiptComplete BY DEF PrepInv, Sealed, ReceiptComplete, Complete
<1> QED BY <1>1, PrepInvariant, PTL

(* For each locked patch the edition noted is no older than the one         *)
(* applied, which is no older than one that was verified to have the       *)
(* locked text: an edit in between hides only by being taken back          *)
(* (tools/prepare_sglang.py:33, :84-85, :98-99).                           *)
THEOREM EditsAreShown == PrepSpec => []EditsShow
<1>1. PrepInv => EditsShow BY DEF PrepInv, Sealed, EditsShow, Complete
<1> QED BY <1>1, PrepInvariant, PTL

(* What a step that writes may write to.                                   *)
Written(r, o) ==
  /\ Out(r) = o /\ r \notin VerifyOnly /\ o \notin Refusable /\ tree'[o].owner = r
  /\ run[r].at # run'[r].at \/ run[r].at \in {"apply", "overlay"}
  /\ tree[o].owner \in {r, Absent} /\ ~Complete(o)

(* A step after the clone writes to the run's own tree, which has no       *)
(* complete receipt yet, and leaves its owner.                             *)
LEMMA WritesInside ==
  ASSUME PrepInv, NEW r \in Runs, NEW o \in Outputs, tree'[o] # tree[o],
         run[r].at \in Cloned, NEW t, tree' = [tree EXCEPT ![Out(r)] = t],
         t.owner = tree[Out(r)].owner,
         run[r].at # run'[r].at \/ run[r].at \in {"apply", "overlay"}
  PROVE  Written(r, o)
<1>1. tree[Out(r)].owner = r /\ tree[Out(r)].receipt.state # "complete"
      /\ r \notin VerifyOnly /\ Out(r) \notin Refusable
  BY Inside
<1>2. Out(r) \in Outputs /\ tree \in [Outputs -> Tree] BY Own DEF PrepInv, PrepTypeOK
<1>3. Out(r) = o /\ tree'[o] = t BY <1>2
<1> QED BY <1>1, <1>3 DEF Complete, Written

LEMMA WritesOwn ==
  ASSUME PrepInv, NEW r \in Runs, RunStep(r), NEW o \in Outputs, tree'[o] # tree[o]
  PROVE  Written(r, o)
<1> DEFINE old == tree[Out(r)]
<1>1. /\ RunOK(r, run[r], old, root) /\ Sealed(old)
      /\ Out(r) \in Outputs /\ old \in Tree /\ run[r] \in Run
  BY Own
<1>2. run \in [Runs -> Run] /\ tree \in [Outputs -> Tree] BY DEF PrepInv, PrepTypeOK
<1>3. \A step : Goto(r, step) => run'[r].at = step BY <1>2 DEF Goto, Run
<1>4. CASE Clone(r)
  <2>1. run[r].at = "clone" /\ old.owner = Absent
        /\ tree' = [tree EXCEPT ![Out(r)] = Bare(r, source.head)]
    BY <1>4 DEF Clone, At
  <2>2. Out(r) = o /\ tree'[o].owner = r BY <1>1, <1>2, <2>1 DEF Bare
  <2>3. r \notin VerifyOnly /\ Out(r) \notin Refusable BY <1>1, <2>1 DEF RunOK, Allowed
  <2>4. run'[r].at = "checkout" BY <1>3, <1>4 DEF Clone
  <2>5. ~Complete(o) BY <1>1, <2>1, <2>2 DEF Sealed, Complete
  <2> QED BY <2>1, <2>2, <2>3, <2>4, <2>5 DEF Written
<1>5. CASE Checkout(r)
  <2> DEFINE t == [old EXCEPT !.base = Locked(r).commit]
  <2>1. run[r].at = "checkout" /\ run[r].at \in Cloned BY <1>5 DEF Checkout, At, Cloned
  <2>2. tree' = [tree EXCEPT ![Out(r)] = t] BY <1>1, <1>2, <1>5 DEF Checkout
  <2>3. t.owner = old.owner BY <1>1 DEF Tree
  <2>4. run'[r].at = "apply" BY <1>3, <1>5 DEF Checkout
  <2> HIDE DEF t
  <2> QED BY <2>1, <2>2, <2>3, <2>4, WritesInside
<1>6. CASE Apply(r)
  <2> DEFINE t == [old EXCEPT !.applied = Append(@, <<Current(r), root.patch[Current(r)]>>)]
  <2>1. run[r].at = "apply" /\ run[r].at \in Cloned BY <1>6 DEF Apply, At, Cloned
  <2>2. tree' = [tree EXCEPT ![Out(r)] = t] BY <1>1, <1>2, <1>6 DEF Apply
  <2>3. t.owner = old.owner BY <1>1 DEF Tree
  <2> HIDE DEF t
  <2> QED BY <2>1, <2>2, <2>3, WritesInside
<1>7. CASE CopyOverlay(r)
  <2>1. run[r].at = "overlay" /\ run[r].at \in Cloned BY <1>7 DEF CopyOverlay, At, Cloned
  <2>2. PICK f \in Files : tree' = [tree EXCEPT ![Out(r)].overlay[f] = root.overlay[f]]
    BY <1>7 DEF CopyOverlay
  <2> DEFINE t == [old EXCEPT !.overlay[f] = root.overlay[f]]
  <2>3. tree' = [tree EXCEPT ![Out(r)] = t] BY <1>1, <1>2, <2>2
  <2>4. t.owner = old.owner BY <1>1 DEF Tree
  <2> HIDE DEF t
  <2> QED BY <2>1, <2>3, <2>4, WritesInside
<1>8. CASE CopyMetadata(r)
  <2> DEFINE t == [old EXCEPT !.meta = TRUE]
  <2>1. run[r].at = "metadata" /\ run[r].at \in Cloned BY <1>8 DEF CopyMetadata, At, Cloned
  <2>2. tree' = [tree EXCEPT ![Out(r)] = t] BY <1>1, <1>2, <1>8 DEF CopyMetadata
  <2>3. t.owner = old.owner BY <1>1 DEF Tree
  <2>4. run'[r].at = "lock digest" BY <1>3, <1>8 DEF CopyMetadata
  <2> HIDE DEF t
  <2> QED BY <2>1, <2>2, <2>3, <2>4, WritesInside
<1>9. CASE OpenReceipt(r)
  <2> DEFINE t == [old EXCEPT !.receipt.state = "partial"]
  <2>1. run[r].at = "open" /\ run[r].at \in Cloned BY <1>9 DEF OpenReceipt, At, Cloned
  <2>2. tree' = [tree EXCEPT ![Out(r)] = t] BY <1>1, <1>2, <1>9 DEF OpenReceipt
  <2>3. t.owner = old.owner BY <1>1 DEF Tree
  <2>4. run'[r].at = "dump" BY <1>3, <1>9 DEF OpenReceipt
  <2> HIDE DEF t
  <2> QED BY <2>1, <2>2, <2>3, <2>4, WritesInside
<1>10. CASE DumpReceipt(r)
  <2> DEFINE t == [old EXCEPT !.receipt = [run[r].notes EXCEPT !.state = "complete"]]
  <2>1. run[r].at = "dump" /\ run[r].at \in Cloned BY <1>10 DEF DumpReceipt, At, Cloned
  <2>2. tree' = [tree EXCEPT ![Out(r)] = t] BY <1>1, <1>2, <1>10 DEF DumpReceipt
  <2>3. t.owner = old.owner BY <1>1 DEF Tree
  <2>4. run'[r].at = "done" BY <1>3, <1>10 DEF DumpReceipt
  <2> HIDE DEF t
  <2> QED BY <2>1, <2>2, <2>3, <2>4, WritesInside
<1>11. \/ Clone(r) \/ Checkout(r) \/ Apply(r) \/ CopyOverlay(r) \/ CopyMetadata(r)
       \/ OpenReceipt(r) \/ DumpReceipt(r) \/ tree' = tree
  BY DEF RunStep, LoadLock, VerifySource, ValidateOutput, VerifyPatch, DigestLock,
         DigestPatch, DigestOverlay, Stop
<1> HIDE DEF old
<1> QED BY <1>4, <1>5, <1>6, <1>7, <1>8, <1>9, <1>10, <1>11

(* No step writes to what another run made, to what was there before, or   *)
(* to what a receipt closed (tools/prepare_sglang.py:58-67, :78).          *)
THEOREM ArtifactsArePreserved == PrepSpec => ArtifactsPreserved
<1>1. PrepInv /\ [PrepNext]_prepVars => PreservedStep
  <2> SUFFICES ASSUME PrepInv, [PrepNext]_prepVars, NEW o \in Outputs, tree'[o] # tree[o]
               PROVE  \E r \in Runs \ VerifyOnly :
                        /\ Out(r) = o /\ o \notin Refusable /\ tree'[o].owner = r
                        /\ run[r].at # run'[r].at \/ run[r].at \in {"apply", "overlay"}
                        /\ tree[o].owner \in {r, Absent} /\ ~Complete(o)
    BY DEF PreservedStep
  <2>1. PICK r \in Runs : RunStep(r) BY DEF PrepNext, Edit, prepVars
  <2>2. Written(r, o) BY <2>1, WritesOwn
  <2> QED BY <2>2 DEF Written
<1>2. [][PrepNext]_prepVars /\ []PrepInv => [][PreservedStep]_prepVars BY <1>1, PTL
<1> QED BY <1>2, PrepInvariant, PTL DEF PrepSpec, ArtifactsPreserved

================================================================================
