----------------------------- MODULE PrepareSource -----------------------------
(***************************************************************************)
(* tools/prepare_sglang.py: runs that verify a source checkout and prepare *)
(* a patched copy of it, while a maintainer edits patches, overlay, lock   *)
(* or checkout.  Each edit gives a file its next edition.  Editions may    *)
(* have the same text, as when an edit is taken back, and all that a       *)
(* SHA-256 tells apart is texts.  git clone creates its directory in one   *)
(* step, or fails if the path exists; git checkout of a commit gives that  *)
(* commit.  Nobody else writes to a new output.                            *)
(***************************************************************************)
EXTENDS Naturals, Sequences

CONSTANTS
  Runs,          \* processes
  VerifyOnly,    \* those with --verify-only
  Outputs, OutputOf,   \* paths, and the --output of each run
  Refusable,     \* paths inside the input checkout or installed packages
  Patches, Files, Commits,
  WithOverlay,   \* commits that contain python/spry_uq
  Text,          \* the texts of each patch, edition by edition
  Locks,         \* sources.lock.json, edition by edition
  MaxEdits,      \* bound on the maintainer's edits
  Nobody, Absent

Lock == [commit : Commits, patches : Seq(Patches), sha : [Patches -> Nat]]   \* sha: texts

ASSUME PrepAssumption ==
  /\ VerifyOnly \subseteq Runs /\ OutputOf \in [Runs -> Outputs]
  /\ WithOverlay \subseteq Commits /\ MaxEdits \in Nat
  /\ Nobody \notin Runs /\ Absent \notin Runs /\ Nobody # Absent
  /\ Text \in [Patches -> Seq(Nat)] /\ \A p \in Patches : Text[p] # <<>>
  /\ Locks \in Seq(Lock) /\ Locks # <<>>
  /\ \A v \in 1..Len(Locks) : Locks[v].patches # <<>>

VARIABLES
  root,     \* ROOT: editions of the lock, the patches and the overlay files
  source,   \* the input checkout: HEAD, and whether git status is empty
  edits,    \* edits so far
  run,      \* each process: step, lock read, loop index, receipt in the making
  tree      \* what each output path holds, and who made it: for each file the
            \* edition that was read to write it or, in a receipt, its digest

prepVars == <<root, source, edits, run, tree>>

(* checked is history: the editions that were verified, which no receipt   *)
(* says.                                                                   *)
NoFiles == [f \in Files |-> 0]
Blank == [state |-> "none", lock |-> 0, lockNow |-> 0, patches |-> <<>>, overlay |-> NoFiles,
          checked |-> [p \in Patches |-> 0]]
Bare(owner, head) == [owner |-> owner, base |-> head, applied |-> <<>>,
                      overlay |-> NoFiles, meta |-> FALSE, receipt |-> Blank]

(* A path may hold something from before; its content is of no interest.   *)
PrepInit ==
  /\ root = [lock |-> 1, patch |-> [p \in Patches |-> 1], overlay |-> [f \in Files |-> 1]]
  /\ source \in [head : Commits, clean : BOOLEAN]
  /\ edits = 0
  /\ run = [r \in Runs |-> [at |-> "load", lock |-> 1, i |-> 1, notes |-> Blank]]
  /\ tree \in [Outputs -> {Bare(o, Locks[1].commit) : o \in {Nobody, Absent}}]

At(r, step) == run[r].at = step
Locked(r) == Locks[run[r].lock]
Out(r) == OutputOf[r]
Current(r) == Locked(r).patches[run[r].i]   \* the patch a loop is at

Goto(r, step) == run' = [run EXCEPT ![r].at = step, ![r].i = 1]

(* The next round of a loop over the patches, or the step after it.        *)
Last(r) == run[r].i = Len(Locked(r).patches)
Advance(r, step) ==
  IF Last(r) THEN Goto(r, step) ELSE run' = [run EXCEPT ![r].i = @ + 1]

LoadLock(r) ==
  /\ At(r, "load")
  /\ run' = [run EXCEPT ![r].at = "source", ![r].lock = root.lock]
  /\ UNCHANGED <<root, source, edits, tree>>

VerifySource(r) ==
  /\ At(r, "source")
  /\ source.clean /\ source.head = Locked(r).commit
  /\ Goto(r, IF r \in VerifyOnly THEN "verify" ELSE "output")
  /\ UNCHANGED <<root, source, edits, tree>>

ValidateOutput(r) ==
  /\ At(r, "output")
  /\ tree[Out(r)].owner = Absent /\ Out(r) \notin Refusable
  /\ Goto(r, "verify")
  /\ UNCHANGED <<root, source, edits, tree>>

VerifyPatch(r) ==
  /\ At(r, "verify")
  /\ Text[Current(r)][root.patch[Current(r)]] = Locked(r).sha[Current(r)]
  /\ run' = [run EXCEPT ![r].notes.checked[Current(r)] = root.patch[Current(r)],
                        ![r].i = IF Last(r) THEN 1 ELSE @ + 1,
                        ![r].at = IF ~Last(r) THEN @
                                  ELSE IF r \in VerifyOnly THEN "done" ELSE "clone"]
  /\ UNCHANGED <<root, source, edits, tree>>

(* Mutant of Clone: it goes on in a directory that exists by now.          *)
CloneInto(r) ==
  /\ At(r, "clone")
  /\ tree' = [tree EXCEPT ![Out(r)] = Bare(r, source.head)]
  /\ Goto(r, "checkout")
  /\ UNCHANGED <<root, source, edits>>

Clone(r) ==
  /\ At(r, "clone")
  /\ tree[Out(r)].owner = Absent
  /\ tree' = [tree EXCEPT ![Out(r)] = Bare(r, source.head)]
  /\ Goto(r, "checkout")
  /\ UNCHANGED <<root, source, edits>>

(* Mutant of Checkout: it checks out the HEAD that was cloned.             *)
CheckoutHead(r) ==
  /\ At(r, "checkout") /\ Goto(r, "apply")
  /\ UNCHANGED <<root, source, edits, tree>>

Checkout(r) ==
  /\ At(r, "checkout")
  /\ tree' = [tree EXCEPT ![Out(r)].base = Locked(r).commit]
  /\ Goto(r, "apply")
  /\ UNCHANGED <<root, source, edits>>

(* The patch is read again here, after it was verified.                    *)
Apply(r) ==
  /\ At(r, "apply")
  /\ tree' = [tree EXCEPT ![Out(r)].applied = Append(@, <<Current(r), root.patch[Current(r)]>>)]
  /\ Advance(r, "overlay")
  /\ UNCHANGED <<root, source, edits>>

(* copytree, one file at a time.                                           *)
CopyOverlay(r) ==
  LET missing == {f \in Files : tree[Out(r)].overlay[f] = 0} IN
  /\ At(r, "overlay") /\ tree[Out(r)].base \notin WithOverlay
  /\ IF missing = {} THEN Goto(r, "metadata") /\ UNCHANGED tree
     ELSE /\ \E f \in missing :
               tree' = [tree EXCEPT ![Out(r)].overlay[f] = root.overlay[f]]
          /\ UNCHANGED run
  /\ UNCHANGED <<root, source, edits>>

CopyMetadata(r) ==
  /\ At(r, "metadata")
  /\ tree' = [tree EXCEPT ![Out(r)].meta = TRUE]
  /\ Goto(r, "lock digest")
  /\ UNCHANGED <<root, source, edits>>

DigestLock(r) ==
  /\ At(r, "lock digest")
  /\ run' = [run EXCEPT ![r].at = "patch digests", ![r].notes =
               [@ EXCEPT !.lock = run[r].lock, !.lockNow = root.lock]]
  /\ UNCHANGED <<root, source, edits, tree>>

(* Mutant of Note: the digest in the lock, which was verified, is written. *)
NoteLocked(r) == run[r].notes.checked[Current(r)]

Note(r) == root.patch[Current(r)]

DigestPatch(r) ==
  /\ At(r, "patch digests")
  /\ LET n == Append(run[r].notes.patches, Note(r))
     IN run' = [run EXCEPT ![r].notes.patches = n, ![r].i = IF Last(r) THEN 1 ELSE @ + 1,
                           ![r].at = IF Last(r) THEN "overlay digests" ELSE @]
  /\ UNCHANGED <<root, source, edits, tree>>

DigestOverlay(r) ==
  /\ At(r, "overlay digests")
  /\ run' = [run EXCEPT ![r].at = "open", ![r].notes.overlay = tree[Out(r)].overlay]
  /\ UNCHANGED <<root, source, edits, tree>>

(* Mode "x": the file must be new.                                         *)
OpenReceipt(r) ==
  /\ At(r, "open") /\ tree[Out(r)].receipt.state = "none"
  /\ tree' = [tree EXCEPT ![Out(r)].receipt.state = "partial"]
  /\ Goto(r, "dump")
  /\ UNCHANGED <<root, source, edits>>

DumpReceipt(r) ==
  /\ At(r, "dump")
  /\ tree' = [tree EXCEPT ![Out(r)].receipt = [run[r].notes EXCEPT !.state = "complete"]]
  /\ Goto(r, "done")
  /\ UNCHANGED <<root, source, edits>>

(* A check refuses, a command or file operation fails, or the process is   *)
(* killed: nothing is removed.                                             *)
Stop(r) ==
  /\ run[r].at \notin {"done", "stopped"}
  /\ Goto(r, "stopped")
  /\ UNCHANGED <<root, source, edits, tree>>

Edit ==
  /\ edits < MaxEdits /\ edits' = edits + 1
  /\ \/ \E p \in Patches :
          /\ root.patch[p] < Len(Text[p])
          /\ root' = [root EXCEPT !.patch[p] = @ + 1] /\ UNCHANGED source
     \/ \E f \in Files : root' = [root EXCEPT !.overlay[f] = @ + 1] /\ UNCHANGED source
     \/ /\ root.lock < Len(Locks)
        /\ root' = [root EXCEPT !.lock = @ + 1] /\ UNCHANGED source
     \/ source' \in [head : Commits, clean : BOOLEAN] \ {source} /\ UNCHANGED root
  /\ UNCHANGED <<run, tree>>

RunStep(r) ==
  \/ LoadLock(r) \/ VerifySource(r) \/ ValidateOutput(r) \/ VerifyPatch(r)
  \/ Clone(r) \/ Checkout(r) \/ Apply(r) \/ CopyOverlay(r) \/ CopyMetadata(r)
  \/ DigestLock(r) \/ DigestPatch(r) \/ DigestOverlay(r)
  \/ OpenReceipt(r) \/ DumpReceipt(r) \/ Stop(r)

PrepNext == Edit \/ \E r \in Runs : RunStep(r)

PrepSpec == PrepInit /\ [][PrepNext]_prepVars
--------------------------------------------------------------------------------
Complete(o) == tree[o].receipt.state = "complete"

(* A complete receipt stands in a complete tree: the locked commit, every  *)
(* locked patch in its order, every overlay file with the digest recorded, *)
(* and the package metadata - whatever else ran, stopped or was edited in  *)
(* the meantime (:78-108).                                                 *)
ReceiptComplete ==
  \A o \in Outputs : Complete(o) =>
    LET t == tree[o]
        lock == Locks[t.receipt.lock]
    IN /\ t.base = lock.commit /\ t.meta
       /\ Len(t.applied) = Len(lock.patches)
       /\ \A j \in 1..Len(lock.patches) : t.applied[j][1] = lock.patches[j]
       /\ t.receipt.overlay = t.overlay /\ \A f \in Files : t.overlay[f] # 0

(* Each patch is read for its verification, to be applied and for the      *)
(* receipt, in this order, and only the first reading is compared with the *)
(* lock (:33, :85, :99).  So a digest in the receipt that is not the       *)
(* locked one shows an edit since the verification.  The converse fails:   *)
(* an edit that was applied and then taken back leaves the locked digest   *)
(* over another tree.  That is the only way, it takes two edits of the     *)
(* patch in one run, one on each side of the reading that was applied.     *)
(* The digest of the lock is likewise of the edition it was read in, or of *)
(* a later one (:71, :98).                                                 *)
EditsShow ==
  \A o \in Outputs : Complete(o) =>
    LET t == tree[o]
        lock == Locks[t.receipt.lock]
    IN /\ t.receipt.lock <= t.receipt.lockNow
       /\ \A j \in 1..Len(lock.patches) :
            LET p == lock.patches[j]
                verified == t.receipt.checked[p]
                applied == t.applied[j][2]
            IN /\ Text[p][verified] = lock.sha[p]
               /\ verified <= applied /\ applied <= t.receipt.patches[j]

(* Nothing that exists is written to but by the run that created it, and   *)
(* by that no more once its receipt is complete; nothing is removed; a run *)
(* with --verify-only and a refused path create nothing (:58-67, :78).     *)
PreservedStep ==
  \A o \in Outputs : tree'[o] # tree[o] =>
    \E r \in Runs \ VerifyOnly :
      /\ Out(r) = o /\ o \notin Refusable /\ tree'[o].owner = r
      /\ run[r].at # run'[r].at \/ run[r].at \in {"apply", "overlay"}
      /\ tree[o].owner \in {r, Absent} /\ ~Complete(o)
ArtifactsPreserved == [][PreservedStep]_prepVars
================================================================================
