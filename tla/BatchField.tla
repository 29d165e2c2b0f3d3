----------------------------- MODULE BatchField -----------------------------
(***************************************************************************)
(* One field of a batch: class Field of ogfkit/batchrun.py.                *)
(*                                                                         *)
(* A run walks through the plan (detect or catalog, then the plugin        *)
(* steps).  For each step it computes a key from the hash chain of         *)
(* everything before it and the step's argument vector.  With --resume a   *)
(* step whose key is the one recorded as ok in state.json, and whose       *)
(* snapshot exists, is not executed: its catalog is read back from         *)
(* work/snap_<i>.tsv.  Otherwise the step runs, with retries, and on       *)
(* success the catalog is copied to the snapshot and state.json is         *)
(* replaced.                                                               *)
(*                                                                         *)
(* Between two runs the user may edit the recipe or replace the image; in  *)
(* a run the process may be killed (Cancel, SIGTERM, a crash) or leave     *)
(* run() through an exception.                                             *)
(*                                                                         *)
(* Hashes are modelled as injective: a chain is the record of what was     *)
(* hashed into it.  Steps are deterministic functions of the image, their  *)
(* arguments and the input catalog.                                        *)
(***************************************************************************)
EXTENDS Naturals, Sequences, FiniteSets

CONSTANTS
  Images,        \* contents the image file can have
  Digest,        \* sha_file: image contents -> what the key sees of them
  Labels,        \* 'plugin.step' names, 'detect' and 'catalog'
  Args,          \* argument vectors a step can expand to
  Recipes,       \* recipes the user runs: sequences of steps
  MaxSteps,      \* length of the longest recipe
  Retries,       \* --retries
  ResumeChoices, \* values of --resume the user gives, a subset of BOOLEAN
  Removable,     \* positions whose snapshots the user may clear away
  KillPoints,    \* phases in which a run can be cut short
  MaxRuns,       \* bound on the number of runs
  Torn,          \* contents of a snapshot that is only partly written
  Nothing        \* absent: no file, no entry, nothing delivered

Step == [label : Labels, args : Args]

(***************************************************************************)
(* Phases of a run.  "copy": the step has succeeded; "fill": its snapshot  *)
(* is open for writing; "recordOk": the snapshot is complete and           *)
(* state.json is not yet replaced; "recordFailed": the step has failed and *)
(* state.json is not yet replaced.                                         *)
(***************************************************************************)
Phases == {"idle", "step", "exec", "copy", "fill", "recordOk", "recordFailed"}

ASSUME InputsAssumption ==
  /\ MaxSteps \in Nat
  /\ \A r \in Recipes : r \in Seq(Step) /\ Len(r) \in 1..MaxSteps
  /\ DOMAIN Digest = Images

ASSUME BoundsAssumption ==
  /\ Retries \in Nat
  /\ MaxRuns \in Nat
  /\ ResumeChoices \subseteq BOOLEAN
  /\ KillPoints \subseteq Phases \ {"idle"}
  /\ Removable \subseteq 1..MaxSteps

(***************************************************************************)
(* sha_file reads the first MB and the size.  A replaced image is one that *)
(* differs there: a documented limit of the resume keys.                   *)
(***************************************************************************)
ASSUME DigestAssumption ==
  \A im1, im2 \in Images : Digest[im1] = Digest[im2] => im1 = im2

VARIABLES
  image,      \* contents of the image file
  recipe,     \* recipe given to the runs
  stateFile,  \* steps of state.json, by label
  snap,       \* work/snap_<i>.tsv, by position
  catFile,    \* catalog.tsv
  pc,         \* phase of the run
  resume,     \* the run's --resume
  ptr,        \* position in the plan
  chain,      \* hash chain of what was done so far
  cat,        \* cols, rows: the catalog in memory
  old,        \* state.json as it was when the run started
  new,        \* state: what the run will write to state.json
  broken,     \* a step has failed in this run
  tries,      \* retries used for the current step
  outcome,    \* how the last run on the current inputs ended
  runs,       \* number of runs started (bounded by MaxRuns)
  durable     \* history: leading steps of the current inputs that state.json records as ok

inputs == <<image, recipe>>
files  == <<stateFile, snap, catFile>>
memory == <<resume, ptr, chain, cat, old, new, broken, tries>>
vars   == <<inputs, files, pc, memory, outcome, runs, durable>>

-----------------------------------------------------------------------------
(* Catalogs, chains, keys and entries *)

P == INSTANCE FieldPromise WITH running <- pc # "idle",
       delivered <- IF pc = "idle" /\ outcome = "ok" THEN catFile ELSE Nothing

Fresh(im, r, n) == P!Fresh(im, r, n)

Catalog == Seq((Images \X Step) \union {Torn})

ASSUME NothingAssumption == Nothing \notin Catalog

ChainStart(im) == [img |-> Digest[im], hist |-> <<>>]

KeyFor(c, s) == [chain |-> c, step |-> s]

ChainAfter(c, s, t) ==
  [c EXCEPT !.hist = Append(@, [step |-> s, cat |-> t])]

OkEntry(k, c)  == [status |-> "ok", key |-> k, chain |-> c]
PlainEntry(st) == [status |-> st, key |-> Nothing, chain |-> Nothing]
NoEntries      == [l \in Labels |-> PlainEntry("absent")]

OutputOf(t, s) == Append(t, <<image, s>>)

Current == recipe[ptr]
Key     == KeyFor(chain, Current)

(* Mutant: the key of the recorded step is not compared. *)
SnapshotUsableAnyKey ==
  resume /\ old[Current.label].status = "ok" /\ snap[ptr] # Nothing

(* Mutant: the snapshot is not looked for. *)
SnapshotUsableUnseen ==
  resume /\ old[Current.label].status = "ok" /\ old[Current.label].key = Key

SnapshotUsable ==
  /\ resume
  /\ old[Current.label].status = "ok"
  /\ old[Current.label].key = Key
  /\ snap[ptr] # Nothing

-----------------------------------------------------------------------------
Init ==
  /\ image \in Images
  /\ recipe \in Recipes
  /\ stateFile = NoEntries
  /\ snap = [i \in 1..MaxSteps |-> Nothing]
  /\ catFile = Nothing
  /\ pc = "idle"
  /\ resume = FALSE
  /\ ptr = 1
  /\ chain = ChainStart(image)
  /\ cat = <<>>
  /\ old = NoEntries
  /\ new = NoEntries
  /\ broken = FALSE
  /\ tries = 0
  /\ outcome = "none"
  /\ runs = 0
  /\ durable = 0

(* Recipe r begins with the same n steps as the current one. *)
SamePrefix(r, n) == n <= Len(r) /\ \A j \in 1..n : r[j] = recipe[j]

(* The user edits the recipe: steps after the first edited one are no longer done. *)
EditRecipe(r) ==
  /\ pc = "idle"
  /\ recipe' = r
  /\ outcome' = "none"
  /\ durable' = Cardinality({n \in 1..durable : SamePrefix(r, n)})
  /\ UNCHANGED <<image, files, pc, memory, runs>>

ReplaceImage(im) ==
  /\ pc = "idle"
  /\ im # image
  /\ image' = im
  /\ outcome' = "none"
  /\ durable' = 0
  /\ UNCHANGED <<recipe, files, pc, memory, runs>>

(* The user clears a snapshot out of the work directory. *)
RemoveSnapshot(i) ==
  /\ pc = "idle" /\ snap[i] # Nothing
  /\ snap' = [snap EXCEPT ![i] = Nothing]
  /\ durable' = IF durable < i THEN durable ELSE i - 1
  /\ UNCHANGED <<inputs, stateFile, catFile, pc, memory, outcome, runs>>

(* The part of run() before the loop. *)
Start(res) ==
  /\ pc = "idle" /\ runs < MaxRuns
  /\ pc' = "step"
  /\ runs' = runs + 1
  /\ resume' = res
  /\ old' = IF res THEN stateFile ELSE NoEntries
  /\ new' = NoEntries
  /\ chain' = ChainStart(image)
  /\ cat' = <<>>
  /\ ptr' = 1
  /\ broken' = FALSE
  /\ tries' = 0
  /\ outcome' = "none"
  /\ UNCHANGED <<inputs, files, durable>>

AtStep == pc = "step" /\ ptr <= Len(recipe)

(* A step after a failed one: noted in memory as skipped. *)
SkipStep ==
  /\ AtStep /\ broken
  /\ new' = [new EXCEPT ![Current.label] = PlainEntry("skipped")]
  /\ ptr' = ptr + 1
  /\ UNCHANGED <<inputs, files, pc, resume, chain, cat, old, broken, tries, outcome, runs, durable>>

(* _key_and_argv raises: the failure is noted, state.json is not written now. *)
CannotBuild ==
  /\ AtStep /\ ~broken
  /\ new' = [new EXCEPT ![Current.label] = PlainEntry("failed")]
  /\ broken' = TRUE
  /\ ptr' = ptr + 1
  /\ UNCHANGED <<inputs, files, pc, resume, chain, cat, old, tries, outcome, runs, durable>>

(* Mutant: steps after a failed one are executed. *)
BeginExecAfterFailure ==
  /\ AtStep /\ ~SnapshotUsable
  /\ pc' = "exec"
  /\ tries' = 0
  /\ UNCHANGED <<inputs, files, resume, ptr, chain, cat, old, new, broken, outcome, runs, durable>>

(* The recorded result is taken over: snapshot -> memory -> catalog.tsv. *)
UseSnapshot ==
  /\ AtStep /\ ~broken /\ SnapshotUsable
  /\ cat' = snap[ptr]
  /\ catFile' = snap[ptr]
  /\ new' = [new EXCEPT ![Current.label] = old[Current.label]]
  /\ chain' = old[Current.label].chain
  /\ ptr' = ptr + 1
  /\ UNCHANGED <<inputs, stateFile, snap, pc, resume, old, broken, tries, outcome, runs, durable>>

BeginExec ==
  /\ AtStep /\ ~broken /\ ~SnapshotUsable
  /\ pc' = "exec"
  /\ tries' = 0
  /\ UNCHANGED <<inputs, files, resume, ptr, chain, cat, old, new, broken, outcome, runs, durable>>

(* Mutant: state.json is replaced before the snapshot is copied. *)
ExecOkRecordsFirst ==
  /\ pc = "exec"
  /\ cat' = OutputOf(cat, Current)
  /\ catFile' = OutputOf(cat, Current)
  /\ chain' = ChainAfter(chain, Current, OutputOf(cat, Current))
  /\ new' = [new EXCEPT ![Current.label] = OkEntry(Key, chain')]
  /\ stateFile' = new'
  /\ pc' = "copy"
  /\ UNCHANGED <<inputs, snap, resume, ptr, old, broken, tries, outcome, runs, durable>>

(* _exec succeeds: catalog.tsv is replaced, the chain takes its hash in. *)
ExecOk ==
  /\ pc = "exec"
  /\ cat' = OutputOf(cat, Current)
  /\ catFile' = OutputOf(cat, Current)
  /\ chain' = ChainAfter(chain, Current, OutputOf(cat, Current))
  /\ new' = [new EXCEPT ![Current.label] = OkEntry(Key, chain')]
  /\ pc' = "copy"
  /\ UNCHANGED <<inputs, stateFile, snap, resume, ptr, old, broken, tries, outcome, runs, durable>>

(* Mutant: the step is tried again whatever the number of retries. *)
ExecRetryForever ==
  /\ pc = "exec"
  /\ tries' = IF tries < Retries THEN tries + 1 ELSE 0
  /\ UNCHANGED <<inputs, files, pc, resume, ptr, chain, cat, old, new, broken, outcome, runs, durable>>

ExecRetry ==
  /\ pc = "exec" /\ tries < Retries
  /\ tries' = tries + 1
  /\ UNCHANGED <<inputs, files, pc, resume, ptr, chain, cat, old, new, broken, outcome, runs, durable>>

ExecFails ==
  /\ pc = "exec" /\ tries = Retries
  /\ new' = [new EXCEPT ![Current.label] = PlainEntry("failed")]
  /\ broken' = TRUE
  /\ pc' = "recordFailed"
  /\ UNCHANGED <<inputs, files, resume, ptr, chain, cat, old, tries, outcome, runs, durable>>

(* Mutant: an existing snapshot is kept. *)
OpenSnapshotOnce ==
  /\ pc = "copy"
  /\ snap' = IF snap[ptr] = Nothing THEN [snap EXCEPT ![ptr] = <<Torn>>] ELSE snap
  /\ pc' = IF snap[ptr] = Nothing THEN "fill" ELSE "recordOk"
  /\ UNCHANGED <<inputs, stateFile, catFile, memory, outcome, runs, durable>>

(* shutil.copyfile: the old snapshot is truncated, then filled. *)
OpenSnapshot ==
  /\ pc = "copy"
  /\ snap' = [snap EXCEPT ![ptr] = <<Torn>>]
  /\ pc' = "fill"
  /\ UNCHANGED <<inputs, stateFile, catFile, memory, outcome, runs, durable>>

FillSnapshot ==
  /\ pc = "fill"
  /\ snap' = [snap EXCEPT ![ptr] = cat]
  /\ pc' = "recordOk"
  /\ UNCHANGED <<inputs, stateFile, catFile, memory, outcome, runs, durable>>

(* Mutant: state.json is only written at the end of the run. *)
WriteStateAtEnd ==
  /\ pc \in {"recordOk", "recordFailed"}
  /\ durable' = Len(cat)
  /\ ptr' = ptr + 1
  /\ pc' = "step"
  /\ UNCHANGED <<inputs, files, resume, chain, cat, old, new, broken, tries, outcome, runs>>

(* atomic_json after an executed step. *)
WriteState ==
  /\ pc \in {"recordOk", "recordFailed"}
  /\ stateFile' = new
  /\ durable' = Len(cat)
  /\ ptr' = ptr + 1
  /\ pc' = "step"
  /\ UNCHANGED <<inputs, snap, catFile, resume, chain, cat, old, new, broken, tries, outcome, runs>>

(* Mutant: a failed step does not make the field fail. *)
FinishAlwaysOk ==
  /\ pc = "step" /\ ptr > Len(recipe)
  /\ stateFile' = new
  /\ durable' = Len(cat)
  /\ outcome' = "ok"
  /\ pc' = "idle"
  /\ UNCHANGED <<inputs, snap, catFile, memory, runs>>

(* The part of run() after the loop. *)
Finish ==
  /\ pc = "step" /\ ptr > Len(recipe)
  /\ stateFile' = new
  /\ durable' = Len(cat)
  /\ outcome' = IF broken THEN "failed" ELSE "ok"
  /\ pc' = "idle"
  /\ UNCHANGED <<inputs, snap, catFile, memory, runs>>

(***************************************************************************)
(* The run is cut short: "killed" takes the process away, "raised" is an   *)
(* exception that leaves run() and that _worker turns into a failed        *)
(* result.  The files stay as they are.                                    *)
(***************************************************************************)
CutShort(how) ==
  /\ pc \in KillPoints
  /\ pc' = "idle"
  /\ outcome' = how
  /\ UNCHANGED <<inputs, files, memory, runs, durable>>

RunnerStep ==
  \/ SkipStep \/ CannotBuild \/ UseSnapshot \/ BeginExec
  \/ ExecOk \/ ExecRetry \/ ExecFails
  \/ OpenSnapshot \/ FillSnapshot \/ WriteState \/ Finish

Next ==
  \/ \E r \in Recipes : EditRecipe(r)
  \/ \E im \in Images : ReplaceImage(im)
  \/ \E i \in Removable : RemoveSnapshot(i)
  \/ \E res \in ResumeChoices : Start(res)
  \/ RunnerStep
  \/ \E how \in {"killed", "raised"} : CutShort(how)

Spec == Init /\ [][Next]_vars

(* The runner is one thread that never waits on anyone; a step's process   *)
(* ends by itself or at --timeout.                                         *)
FairSpec == Spec /\ WF_vars(RunnerStep)

-----------------------------------------------------------------------------
(* Properties *)

Hist == Seq([step : Step, cat : Catalog])
Chain == [img : {Digest[im] : im \in Images}, hist : Hist]
KeyType == [chain : Chain, step : Step]
Entry == [status : {"ok"}, key : KeyType, chain : Chain]
           \union {PlainEntry(st) : st \in {"absent", "skipped", "failed"}}

(* Every variable holds a value of its kind. *)
TypeOK ==
  /\ image \in Images
  /\ recipe \in Recipes
  /\ stateFile \in [Labels -> Entry]
  /\ snap \in [1..MaxSteps -> Catalog \union {Nothing}]
  /\ catFile \in Catalog \union {Nothing}
  /\ pc \in Phases
  /\ resume \in BOOLEAN
  /\ ptr \in 1..(MaxSteps + 1)
  /\ chain \in Chain
  /\ cat \in Catalog
  /\ old \in [Labels -> Entry]
  /\ new \in [Labels -> Entry]
  /\ broken \in BOOLEAN
  /\ tries \in 0..Retries
  /\ outcome \in {"none", "ok", "failed", "killed", "raised"}
  /\ runs \in 0..MaxRuns
  /\ durable \in 0..MaxSteps

AtEnd == pc = "step" /\ ptr > Len(recipe)

(* A run that gets through the plan without a failure leaves in catalog.tsv *)
(* the catalog that executing the whole recipe on the image now on disk     *)
(* gives, whatever mixture of snapshots and executed steps it used and      *)
(* whatever runs, edits and interruptions came before it.                   *)
ResultFresh == AtEnd /\ ~broken => catFile = Fresh(image, recipe, Len(recipe))

(* Between runs, the snapshot of a step state.json records as ok holds the  *)
(* very catalog whose hash went into the recorded chain, or was removed:    *)
(* the two files a later --resume trusts together belong together.          *)
StateBacked ==
  pc = "idle" => \A l \in Labels :
    stateFile[l].status = "ok" =>
      LET h == stateFile[l].chain.hist IN snap[Len(h)] \in {h[Len(h)].cat, Nothing}

(* A failed run that got past its first step leaves the catalog of exactly  *)
(* the steps before the failed one: nothing a later step would have done    *)
(* is in it.                                                                *)
FailedRunKeepsPrefix ==
  AtEnd /\ broken /\ cat # <<>> => catFile = Fresh(image, recipe, Len(cat))

(* A resumed run never executes a step that the current inputs already have *)
(* recorded in state.json: an interrupted run continues where it stopped,   *)
(* and an edited recipe is executed from its first edited step on.          *)
ResumeContinues == pc = "exec" /\ resume => ptr > durable

(* Refinement: seen from outside the field keeps the promise of             *)
(* FieldPromise: "ok" is only ever reported with the recipe's own catalog.  *)
Promise == P!PSpec

(* Every run ends, by a result or by being cut short. *)
RunsEnd == (pc # "idle") ~> (pc = "idle")
=============================================================================
