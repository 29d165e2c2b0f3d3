----------------------------- MODULE Checkpoint -----------------------------
(***************************************************************************)
(* Research checkpoints: checkpoint() and restore() of                     *)
(* src/ogfkit/science_workflow.py.                                         *)
(*                                                                         *)
(* A checkpoint copies output files, which other programs may be writing,  *)
(* into a staging directory and publishes it by a rename.  Writers into    *)
(* one destination exclude each other with the file .saving; a writer that *)
(* is killed leaves it behind.  A restore verifies the artifacts against   *)
(* the digests of the manifest, copies them and verifies the copies.       *)
(*                                                                         *)
(* A file is read in two parts, one after the other: what is read may be   *)
(* torn.  What stat() tells of a file (size, mtime, inode) is the number   *)
(* of its last write; a digest is the content itself.                      *)
(***************************************************************************)
EXTENDS Integers

CONSTANTS
  Writers,     \* processes that save into the destination
  NumFiles,    \* number of outputs
  Bytes,       \* what a part of a file may hold
  Versions,    \* what the programs write: pairs of parts
  None,
  MaxSaves,    \* bound: number of calls of checkpoint()
  MaxWrites,   \* bound: number of times the outputs are written
  MaxDamages   \* bound: number of times an artifact is damaged

Files   == 1..NumFiles
SaveIds == 1..MaxSaves
Content == Bytes \X Bytes

Part     == Bytes \union {None}
Listed   == [Files -> Content \union {None}]
Manifest == [sha : [Files -> Content], disk : Listed, of : [Files -> SUBSET Versions]]
Restored == [phase : {"idle", "verify", "copy", "check", "done"}, snap : Nat,
             at : 1..NumFiles+1, work : Listed]

ASSUME CheckpointAssumption ==
  /\ Versions \subseteq Content
  /\ NumFiles \in Nat /\ MaxSaves \in Nat /\ MaxWrites \in Nat /\ MaxDamages \in Nat
  /\ None \notin Writers /\ None \notin Content /\ None \notin Manifest

VARIABLES
  src,      \* the outputs
  ver,      \* stat() of each output
  writes,   \* number of writes so far
  lock,     \* .saving: the writer that made it, or None
  pc,       \* where each writer is
  save,     \* the number of each writer's call
  at,       \* the output each writer is at
  before,   \* stat() before the copy
  half,     \* the first part read
  target,   \* the copy just made
  staging,  \* .pending-*: the inventory of each writer so far
  snaps,    \* snapshot-*: digests in the manifest, artifacts on disk
  saves,    \* number of calls so far
  damages,  \* number of damages so far
  restore,  \* the restore: phase, snapshot, artifact, the files in the work directory
  held      \* history: what each output held since each writer began

checkpointVars == <<src, ver, writes, lock, pc, save, at, before, half, target, staging, snaps,
                    saves, damages, restore, held>>
sources == <<src, ver, writes>>
writer  == <<save, at, before, half, target, staging>>
rest    == <<saves, damages, restore>>

Phases == {"idle", "stat", "copy", "copy2", "stat2", "digest", "digest2", "abort", "unlock"}
Empty  == [f \in Files |-> None]
NotHeld == [f \in Files |-> {}]
NoRestore == [phase |-> "idle", snap |-> 1, at |-> 1, work |-> Empty]

CheckpointInit ==
  /\ src \in [Files -> Versions] /\ ver = [f \in Files |-> 0] /\ writes = 0
  /\ lock = None /\ pc = [w \in Writers |-> "idle"]
  /\ save = [w \in Writers |-> 0] /\ at = [w \in Writers |-> 1]
  /\ before = [w \in Writers |-> 0] /\ half = [w \in Writers |-> None]
  /\ target = [w \in Writers |-> None] /\ staging = [w \in Writers |-> Empty]
  /\ snaps = [i \in SaveIds |-> None] /\ saves = 0 /\ damages = 0
  /\ restore = NoRestore
  /\ held = [w \in Writers |-> NotHeld]

-----------------------------------------------------------------------------
(* Another program writes to an output, at any time. *)
WriteOutput(f, c) ==
  /\ writes < MaxWrites
  /\ writes' = writes + 1
  /\ src' = [src EXCEPT ![f] = c]
  /\ ver' = [ver EXCEPT ![f] = writes + 1]
  /\ held' = [w \in Writers |-> IF pc[w] = "idle" THEN held[w]
                                ELSE [held[w] EXCEPT ![f] = @ \union {c}]]
  /\ UNCHANGED <<lock, pc, writer, snaps, rest>>

(* O_CREAT | O_EXCL on .saving, then an empty staging directory. *)
Lock(w) ==
  /\ pc[w] = "idle" /\ saves < MaxSaves /\ lock = None
  /\ lock' = w
  /\ saves' = saves + 1 /\ save' = [save EXCEPT ![w] = saves + 1]
  /\ held' = [held EXCEPT ![w] = [f \in Files |-> {src[f]}]]
  /\ pc' = [pc EXCEPT ![w] = "stat"]
  /\ UNCHANGED <<sources, at, before, half, target, staging, snaps, damages, restore>>

(* Mutant: the open of .saving is inside the try, whose finally removes it. *)
RefusedUnlocks(w) ==
  /\ pc[w] = "idle" /\ saves < MaxSaves /\ lock # None
  /\ lock' = None
  /\ saves' = saves + 1
  /\ UNCHANGED <<sources, pc, writer, snaps, damages, restore, held>>

(* FileExistsError: the destination has a writer, or had one that was killed. *)
Refused(w) ==
  /\ pc[w] = "idle" /\ saves < MaxSaves /\ lock # None
  /\ saves' = saves + 1
  /\ UNCHANGED <<sources, lock, pc, writer, snaps, damages, restore, held>>

(* before = src.stat() *)
Stat(w) ==
  /\ pc[w] = "stat" /\ at[w] \in Files
  /\ before' = [before EXCEPT ![w] = ver[at[w]]]
  /\ pc' = [pc EXCEPT ![w] = "copy"]
  /\ UNCHANGED <<sources, lock, save, at, half, target, staging, snaps, rest, held>>

(* shutil.copyfile(), the first and the second part. *)
Copy(w) ==
  /\ pc[w] = "copy"
  /\ half' = [half EXCEPT ![w] = src[at[w]][1]]
  /\ pc' = [pc EXCEPT ![w] = "copy2"]
  /\ UNCHANGED <<sources, lock, save, at, before, target, staging, snaps, rest, held>>

CopyRest(w) ==
  /\ pc[w] = "copy2"
  /\ target' = [target EXCEPT ![w] = <<half[w], src[at[w]][2]>>]
  /\ pc' = [pc EXCEPT ![w] = "stat2"]
  /\ UNCHANGED <<sources, lock, save, at, before, half, staging, snaps, rest, held>>

(* Mutant: the output's stat is not compared. *)
NoStatAgain(w) ==
  /\ pc[w] = "stat2"
  /\ pc' = [pc EXCEPT ![w] = "digest"]
  /\ UNCHANGED <<sources, lock, writer, snaps, rest, held>>

(* after = src.stat(): raises if the output was written meanwhile. *)
StatAgain(w) ==
  /\ pc[w] = "stat2"
  /\ pc' = [pc EXCEPT ![w] = IF ver[at[w]] = before[w] THEN "digest" ELSE "abort"]
  /\ UNCHANGED <<sources, lock, writer, snaps, rest, held>>

(* digest(src) != sha: the output is read once more, in two parts. *)
Digest(w) ==
  /\ pc[w] = "digest"
  /\ half' = [half EXCEPT ![w] = src[at[w]][1]]
  /\ pc' = [pc EXCEPT ![w] = "digest2"]
  /\ UNCHANGED <<sources, lock, save, at, before, target, staging, snaps, rest, held>>

DigestRest(w) ==
  /\ pc[w] = "digest2"
  /\ IF <<half[w], src[at[w]][2]>> = target[w]
     THEN /\ staging' = [staging EXCEPT ![w][at[w]] = target[w]]
          /\ at' = [at EXCEPT ![w] = @ + 1]
          /\ pc' = [pc EXCEPT ![w] = "stat"]
     ELSE /\ pc' = [pc EXCEPT ![w] = "abort"]
          /\ UNCHANGED <<staging, at>>
  /\ UNCHANGED <<sources, lock, save, before, half, target, snaps, rest, held>>

Snapshot(w) == [sha |-> staging[w], disk |-> staging[w], of |-> held[w]]

(* Mutant: the snapshot is published when its last file is still missing. *)
PublishEarly(w) ==
  /\ pc[w] = "stat" /\ at[w] >= NumFiles
  /\ snaps' = [snaps EXCEPT ![save[w]] = Snapshot(w)]
  /\ pc' = [pc EXCEPT ![w] = "unlock"]
  /\ UNCHANGED <<sources, lock, writer, rest, held>>

(* The manifest is written and synced, the staging directory renamed. *)
Publish(w) ==
  /\ pc[w] = "stat" /\ at[w] = NumFiles + 1
  /\ snaps' = [snaps EXCEPT ![save[w]] = Snapshot(w)]
  /\ pc' = [pc EXCEPT ![w] = "unlock"]
  /\ UNCHANGED <<sources, lock, writer, rest, held>>

(* What a call knows goes with it. *)
Forget(w) ==
  /\ pc' = [pc EXCEPT ![w] = "idle"]
  /\ save' = [save EXCEPT ![w] = 0] /\ at' = [at EXCEPT ![w] = 1]
  /\ before' = [before EXCEPT ![w] = 0] /\ half' = [half EXCEPT ![w] = None]
  /\ target' = [target EXCEPT ![w] = None] /\ staging' = [staging EXCEPT ![w] = Empty]
  /\ held' = [held EXCEPT ![w] = NotHeld]

(* An output is missing, the disk is full, ...: anything may raise. *)
Raise(w) ==
  /\ pc[w] \in Phases \ {"idle", "abort", "unlock"}
  /\ pc' = [pc EXCEPT ![w] = "abort"]
  /\ UNCHANGED <<sources, lock, writer, snaps, rest, held>>

(* finally: the staging directory goes, then the lock. *)
Abort(w) ==
  /\ pc[w] = "abort"
  /\ staging' = [staging EXCEPT ![w] = Empty]
  /\ pc' = [pc EXCEPT ![w] = "unlock"]
  /\ UNCHANGED <<sources, lock, save, at, before, half, target, snaps, rest, held>>

Unlock(w) ==
  /\ pc[w] = "unlock"
  /\ lock' = None /\ Forget(w)
  /\ UNCHANGED <<sources, snaps, rest>>

(* A killed writer leaves .saving and its staging directory. *)
KillWriter(w) ==
  /\ pc[w] # "idle" /\ Forget(w)
  /\ UNCHANGED <<sources, lock, snaps, rest>>

-----------------------------------------------------------------------------
(* An artifact of a published snapshot is damaged: its digest is another. *)
Damage(i, f) ==
  /\ damages < MaxDamages /\ snaps[i] # None
  /\ snaps' = [snaps EXCEPT ![i].disk[f] = None]
  /\ damages' = damages + 1
  /\ UNCHANGED <<sources, lock, pc, writer, saves, restore, held>>

(* restore() of one snapshot into a new work directory. *)
BeginRestore(i) ==
  /\ restore.phase \in {"idle", "done"} /\ snaps[i] # None
  /\ restore' = [NoRestore EXCEPT !.phase = "verify", !.snap = i]
  /\ UNCHANGED <<sources, lock, pc, writer, snaps, saves, damages, held>>

Artifact == snaps[restore.snap].disk[restore.at]
Sha      == snaps[restore.snap].sha[restore.at]

Verify ==
  /\ restore.phase = "verify"
  /\ restore' = IF restore.at \notin Files THEN [restore EXCEPT !.phase = "copy", !.at = 1]
                ELSE IF Artifact = Sha THEN [restore EXCEPT !.at = @ + 1]
                ELSE NoRestore
  /\ UNCHANGED <<sources, lock, pc, writer, snaps, saves, damages, held>>

CopyOut ==
  /\ restore.phase = "copy"
  /\ restore' = IF restore.at \notin Files THEN [restore EXCEPT !.phase = "done"]
                ELSE [restore EXCEPT !.work[restore.at] = Artifact, !.phase = "check"]
  /\ UNCHANGED <<sources, lock, pc, writer, snaps, saves, damages, held>>

(* Mutant: what was verified in the snapshot is not verified in the copy. *)
TrustOut ==
  /\ restore.phase = "check"
  /\ restore' = [restore EXCEPT !.at = @ + 1, !.phase = "copy"]
  /\ UNCHANGED <<sources, lock, pc, writer, snaps, saves, damages, held>>

(* The copy has the digest of the manifest, or the work directory goes. *)
CheckOut ==
  /\ restore.phase = "check"
  /\ restore' = IF restore.work[restore.at] = Sha
                THEN [restore EXCEPT !.at = @ + 1, !.phase = "copy"] ELSE NoRestore
  /\ UNCHANGED <<sources, lock, pc, writer, snaps, saves, damages, held>>

WriterStep(w) ==
  \/ Lock(w) \/ Refused(w) \/ Stat(w) \/ Copy(w) \/ CopyRest(w) \/ StatAgain(w)
  \/ Digest(w) \/ DigestRest(w) \/ Publish(w) \/ Raise(w) \/ Abort(w) \/ Unlock(w) \/ KillWriter(w)

CheckpointNext ==
  \/ \E f \in Files, c \in Versions : WriteOutput(f, c)
  \/ \E w \in Writers : WriterStep(w)
  \/ \E i \in SaveIds, f \in Files : Damage(i, f)
  \/ \E i \in SaveIds : BeginRestore(i)
  \/ Verify \/ CopyOut \/ CheckOut

CheckpointSpec == CheckpointInit /\ [][CheckpointNext]_checkpointVars
-----------------------------------------------------------------------------
(* Every variable holds a value of its kind: what is published is complete,  *)
(* and no file is read before the first or after the last.                   *)
TypeOK ==
  /\ src \in [Files -> Versions] /\ ver \in [Files -> 0..MaxWrites] /\ writes \in 0..MaxWrites
  /\ lock \in Writers \union {None} /\ pc \in [Writers -> Phases]
  /\ save \in [Writers -> 0..MaxSaves] /\ at \in [Writers -> 1..NumFiles+1]
  /\ before \in [Writers -> 0..MaxWrites] /\ half \in [Writers -> Part]
  /\ target \in [Writers -> (Part \X Part) \union {None}]
  /\ staging \in [Writers -> Listed]
  /\ held \in [Writers -> [Files -> SUBSET Versions]]
  /\ snaps \in [SaveIds -> Manifest \union {None}]
  /\ saves \in 0..MaxSaves /\ damages \in 0..MaxDamages
  /\ restore \in Restored

(* Every published snapshot is complete, and each of its files is what the   *)
(* output held at one moment while the checkpoint was made, never a mixture, *)
(* although the outputs are written all the time and writers into the same   *)
(* destination come, are refused and are killed (checkpoint: "only after all *)
(* explicit outputs were copied and hashed").                                *)
SnapshotsFaithful ==
  \A i \in SaveIds : snaps[i] # None =>
    \A f \in Files : snaps[i].sha[f] \in snaps[i].of[f]

(* Who is saving has made .saving itself, and it is still there: no two      *)
(* processes save into one destination at once.                              *)
OneWriter == \A w \in Writers : pc[w] # "idle" => lock = w

(* A restore that ends returns all files of the snapshot as they were        *)
(* published, whatever happens to the artifacts before and meanwhile.        *)
RestoreExact ==
  restore.phase = "done" => restore.work = snaps[restore.snap].sha
=============================================================================
