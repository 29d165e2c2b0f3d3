# OGFinder: TLA+ models and proofs

OGFinder is an astronomical source finder built into the SAOImage DS9 viewer: a
Tcl/Tk program (`ds9/library/ogf_*.tcl`, `plugins/`) that starts Python tools
for detection and measurement, keeps the resulting catalogs per image frame,
records the session so that it can be replayed from an exported Python script,
and runs recipes over many images in batch (`ogfkit/batchrun.py`).

The science in the tools is floating-point numerics in one process. What is hard
to test is around it: what survives an interrupted run, which results a resumed
run may take over, what several processes do to one file, and what happens when
the user presses another button between the start of a background job and its
end. That is what most of these modules are about; one group is about the
combinatorial core of source detection, the one-pass extraction and the
deblending of the C program.

Everything below is checked by TLC on small instances; what is also proved by
TLAPS for every value of the constants is said under *Proofs*.

## 1. Inventory

The parts of the program, the state each keeps, its operations, and what makes
it correct. "M" means there is a module for it, "L" that one is left in the plan, "-"
that none is.

| Part | Source | State | Operations | |
|---|---|---|---|---|
| Batch runner, one field | `ogfkit/batchrun.py` 116-190 | `state.json`, `work/snap_<i>.tsv`, `catalog.tsv`; in memory the hash chain and the catalog | run the plan with retries, take over snapshots with `--resume`, be cut short | M |
| Batch runner, pool and panel | `ogfkit/batchrun.py` 256-318, `plugins/batch/` | `status.json` and its lock file, `summary.tsv`, `summary.json`, the panel's `running` | Run, Resume, Cancel; report progress from several workers; summarise | M |
| Background job slot, step runner | `ds9/library/ogf_core.tcl` 470-580, 960-1130 | `::ogf::job::cur`, the catalog on display | start, cancel, deliver at end of file, apply a step's output | M |
| Session recorder | `ds9/library/ogf_session.tcl` | `ogfsess(steps)`, the open record | log, fill in, finalize, reset, export | M |
| Frames and their catalogs | `ds9/library/frame.tcl`, `plugins/catalog/catalog_io.tcl`, `plugins/bands/bands.tcl` | `ds9(frames)`, `ds9(seq)`, `current(frame)`, `catpanel(alldata)`, `catpanel_fdata`, band registry | create, visit, delete frames; analyse, clear; register bands | M |
| Source detection in C | `ds9/library/ds9_sextract.c`, `sep_src/extract.c`, `sep_src/deblend.c` | line-wide arrays of growing regions, a pixel stack with a free list, the tree of sub-objects | visit a pixel, hand over a region, split it, retry with a higher threshold | M |
| Exported session script | `ds9/library/ogf_session_template.py` | `.steps/<seq>.json` stamps, catalog copies, masks, registry | replay, `--resume` with restart, `--jobs` threads | M |
| AI service bridge | `ai_bridge/` | response cache, output table, sidecar | requests with retries, cache, resume, atomic output | M |
| Research checkpoints | `ogfkit/science_workflow.py` | `.saving` lock, `.pending-*` staging, `snapshot-*` | checkpoint, restore | M |
| Catalog editing, in Tcl and in Python | `catalog_io.tcl`, `ds9_catalog_edit.py`, `plugins/objects/` | none (pure functions on tables) | add columns, merge, separate, trim | L |
| Time-domain table | `ds9/library/ogf_td.tcl` | rows per kind, review decisions keyed by row | load rows, review, prune, import | L |
| Image-table link, picking | `ogf_link.tcl`, `ogf_pick.tcl` | parsed copy of the catalog with a dirty flag, delayed hover | hit test, select, hover | L |
| Masks | `plugins/mask/mask.tcl`, `ds9_mask.py` | mask file, undo and redo stack on disk | edit, undo, redo, combine | L |
| AI-assisted merging | `plugins/objects/ai_merge.tcl`, `ai_merge/` | groups of overlapping detections | group, decide, merge | L (grouping only) |
| Repro report, recipe expansion | `ogfkit/repro.py`, `ogfkit/cliexpand.py` | none | compare digests, expand templates | - |
| Catalog service, parameter store, plugin registry, dialogs, table, markers, plots, tiles | rest of `ds9/library/ogf_*.tcl`, `plugins/catalog/` | widgets and tables filled at start | accessors, drawing | - |
| Measuring and fitting engines | `ogfmeas/`, `sersic_fit/`, `photo_z/`, `sed_fit/`, `icl/`, `lsbg/`, ... | one process, no shared state | catalog in, catalog out | - |
| DS9 itself, vendored libraries | `ds9/`, `tksao/`, `ast/`, `tcl8.6/`, ... | third-party | | - |

How they interact:

* A GUI step is either **synchronous** (its proc execs the tool and applies the
  result) or goes through the **job slot** (one background process; the panel
  stays usable). Both log a record in the **session recorder** before they start
  and fill it in when they end, and both change the **catalog on display**.
* `frame.tcl` calls `CatalogPanelFrameChanged` whenever the current frame
  changes; the catalog on display is put aside under the old frame and the new
  frame's is put in its place, unless both are registered bands.
* The **exported script** replays the recorder's steps in order and compares the
  catalog after each with the recorded fingerprint.
* The **batch panel** starts `batch.py` as a process, polls `status.json` while
  it runs, and learns of its end from the end of its output. `batch.py` runs
  `run_batch`, whose pool workers run one **field** each, which runs steps as
  processes.
* The **AI bridge** is such a process too, started through the job slot; its
  output is a table added to the catalog on display. **Checkpoints** copy the
  files that all these programs write, while they may be writing them.
* A detection step runs an extractor as a process, image in, catalog out. The
  **C extractor** is the one `docs/batch.md` and `docs/completeness.md` name;
  `build_sextract.sh` no longer links it into a product binary (see
  *Not modelled*).

Which behaviours are hard, per part: *crash and resume* (field, exported script,
checkpoints, AI bridge), *several writers* (status.json, checkpoints), *reading
what is being written* (checkpoints), *retries and partial answers* (AI bridge),
*handlers between a start and its end-of-file event* (job slot, recorder,
frames), *long legal sequences of user actions* (frames, recorder, review
decisions), *a pool at its limit and lists that are spliced* (extraction), *two
implementations that must agree* (catalog editing, replay). The list with lines
is in `PROJECT.json` under `hazards`.

## 2. Plan

In order of importance; the first eight are done.

1. `BatchField` with the abstract `FieldPromise`: what a resumed run delivers. Proved.
2. `FrameState` / `FrameCatalogs`: which catalog is whose. Proved, without "delete all", which is a fold.
3. `JobSession`: job slot, recorder, step outputs, frames together; replay of the records in order. Proved.
4. `BatchPool`: pool, status file, summaries, panel. Safety proved.
5. `SessionResume`: the exported script's `--resume`: stamps, copies, cached steps, the restart, files edited in place. Proved.
6. `AIBridge`: batches, retries, response cache, `--resume`, interruption. Proved.
7. `Checkpoint`: what a snapshot holds while its outputs are being written, crashes of the writer, restore. Proved.
8. `PixelGrid`, `LutzScan`, `Deblend`, `Extraction`: the one-pass extraction against the definition of a connected region, the pixel stack, deblending, retries. Proved: what the scan finds, what it holds, array bounds, cell lists, deblending, termination.
9. `CatalogEdit`, left: `AddColumns` as the Tcl panel, the Python replay and the batch runner compute it, compared with one reference definition over small tables.
10. `Review`, left: the decisions on time-domain rows across reloads and imports.
11. Masks with undo and redo, the link's cache with its dirty flag, the grouping of overlapping detections: left.

Composition: `JobSession` uses `FrameState`'s operators; `Extraction` composes
`LutzScan` and `Deblend` over `PixelGrid`; `BatchPool` treats a field's step as
succeeding or failing, which `BatchField` details. `SessionResume` has its own
short list of steps: what a record holds is `JobSession`'s subject, what becomes
of it over several runs in one directory is `SessionResume`'s.

Every property that a passing run checks is stated by a theorem, but for the four
about liveness. The proofs still worth doing belong to the modules that are left.

## 3. The modules

### BatchField: one field of a batch

`Field.run` of `batchrun.py`. State: the image file, the recipe, the files
`state.json` (`stateFile`), `work/snap_<i>.tsv` (`snap`) and `catalog.tsv`
(`catFile`), and the locals of the running `run()`. One action per step of the
loop that another action can fall between: `UseSnapshot` (the recorded result is
taken over), `BeginExec`/`ExecOk`/`ExecRetry`/`ExecFails`, `OpenSnapshot`/
`FillSnapshot` (`shutil.copyfile` truncates, then fills), `WriteState`,
`SkipStep`, `CannotBuild`, `Finish`; `CutShort` ends the run in any phase of
`KillPoints`, as a kill or as an exception that leaves `run()`. Between runs the
user edits the recipe, replaces the image or clears away snapshots.

A catalog is the sequence of (image, step) pairs that made it, a chain the record
of what was hashed into it, so two keys are equal exactly when everything they
depend on is. `DigestAssumption` says that images the user swaps differ in their
first megabyte or their size (the limit `docs/batch.md` documents).

`FieldPromise` is the field as its user sees it: started, running, and at the end
either nothing or the catalog of the whole recipe on the image. `Promise` is the
refinement: `delivered` is `catalog.tsv` when the last run ended "ok".

### BatchPool: the batch runner and its panel

`run_batch`, `_worker`, `_status_update`, `batch.py`'s SIGTERM handler and
`batch.tcl`'s Run, Resume, Cancel and end of output. State: the panel's belief
(`running`), the phase of the process (`runner`), its arguments (`listed`,
`only`), what every worker is doing (`worker`, with the copy of `status.json` it
has read), the lock, and the files. `ReadStatus` and `WriteStatus` are the two
halves of `_status_update`; `StatusFails` is its swallowed exception, `Raise` the
exception that `_worker` turns into a failed result; `Terminate` is the pool's
termination of a worker wherever it is, which releases a `flock`.

Left out: the order of the fields file (the queue is a set), a worker that dies
by itself (`Pool.map` then waits for ever; Python's pool is not in this source),
step processes that outlive a cancelled worker (`docs/batch.md`, Limits), and a
`status.json` that cannot be parsed. `--jobs 1` is one worker.

### FrameState, FrameCatalogs: frames and the catalog panel

`FrameState` has the operators of `catalog_io.tcl`: `Save`, `Restore`,
`FrameChanged` (what `CatalogPanelFrameChanged` does to the catalog on display and
to `catpanel_fdata`) and `Forget`. `FrameCatalogs` adds the frame lists of
`frame.tcl` (`CreateFrame` under the next number, `CreateGotoFrame` under one that
is asked for, which may be a deleted frame's, visiting, `DeleteFrame` with its
choice of the next frame, "delete all" as a fold over the frames, the restart of the
numbering) and the band registry. Catalogs are version numbers; `latest`, the
numbers `used` and `plain` are the history the properties compare with. Hidden
frames and moving frames are left out: every frame is in the active list.

### JobSession: job slot, recorder, steps and frames together

One Tcl event loop: an action is one handler, run to its end; only the process of
a job runs beside it (`ProcessEnds`). `StartJob` logs a record and takes the
slot, `Deliver` is the end-of-file event (free the slot, fill in the record,
apply the output), `Cancel` may come before or after the process ended, and
`SyncStep`, `Clear`, `SwitchFrame`, `Reset` and `Export` are what else the user
can press, while idle (`WhileIdle`) or while a job runs (`WhileBusy`).

A catalog is the rows it lists (which detector, which image) and, for each added
column, the rows it was measured for. A record keeps what the replay uses. `Replay`
is the exported script in `--mode replay`, which starts from an emptied directory:
`ReplayStep` for each record in turn (`ReplayFrom`, a recursive function, which the
provers can reason about) from no catalog at all. A step that adds columns ends the
replay where there is no catalog (`ok`). A log that is begun with a catalog on
display (`origin`, after a reset) can be replayed only if it is `SelfContained`: a
step that makes a catalog comes before any that adds columns. Steps with other
output modes (files, plots) change no catalog and are left out, as are dialogs.

### SessionResume: an exported script, run again and again

`run_field` of `ogf_session_template.py` over one directory. `Start` is the command
line with its inputs and `--resume`; `CleanWork` and `CleanSteps` empty the
directory when the field starts over; a step is `Skip`ped (left out by the command
line or for want of what it requires, before its key is looked at), `Cached` (its
key is the stamped one: the catalog comes back from the copy, the mask stays as it
is), or run: `Begin`, then `Decline`, or `Work` or `Fail`, `CopyCat`, `WriteStamp`.
`Decline` is the skip that a step done in the script itself returns when its file is
not there: that is found out after the key comparison and the restart, no stamp is
written, and the chain of keys goes on without the step. A choice says of each step
what it hashes, that it is left out (`Off`) or that it finds nothing to do (`Void`).
`Rewind` is the restart when a changed step has later stamps. A file is the list of
the edits that made it, so "the mask was grown twice" can be said. What is compared
with is `Replayed(Plan(choice))`: what a first run in an empty directory leaves.

Kills fall anywhere but while a copy and its stamp are exchanged, which are two
writes without a rename, and, with `KillsSpareMasks`, not between an edit of a
mask and its stamp: the step would be run again over its own edit. Beside
`resume_changed` these are the places where the property stops holding.

### AIBridge: the runs of the service bridge over one output

`run()`, `send_with_retry()` and the response cache. A run reads profile,
parameters and rows (`Start`), goes through the objects left in batches
(`CannotPrepare`, `Hit`, `Miss`, then `Answer`, `Again` or `Refuse`, `Store`,
`Map`) and writes the output at the end (`Write`, or `WriteFails`); `Kill` falls
anywhere. An answer is the set of objects of its batch it maps for, which is what both
the cache ("only if it mapped for at least one") and the rows depend on.
Rows that `--resume` keeps are the texts of the earlier output (`Read`), and
`write_tsv` formats texts by the types of their columns like fresh values
(`Formatted`). Of a row's values the model has what that changes (`cell`): a bool that
is false, a bool or a number that was not given. `Retyped` says what becomes of a text,
`Writable` which texts are no number.
`asked`, `unmade`, `served` and `steady` are history.

### Checkpoint: saving outputs that are being written

`checkpoint()` and `restore()`. A file is read in two parts, and another program
may write it in between: that is how a copy is torn. `Stat`, `Copy`/`CopyRest`,
`StatAgain`, `Digest`/`DigestRest` are the steps for one output, `Publish` the
rename, `Lock`, `Refused`, `Raise`, `Abort`, `Unlock` and `Kill` what `.saving`
goes through. `Damage` is what may happen to a published artifact; a restore
verifies, copies and verifies again. `stat()` is taken to be honest: size,
`mtime_ns` and inode change with each write. The mutant `NoStatAgain` shows that
the digests alone would not do.

### PixelGrid, LutzScan, Deblend, Extraction: source detection

`LutzScan` is the loop body of `sep_extract()`, cut where its comments cut it:
`TakeCell`, `StartSegment`, `NewMarker` with its four markers, `Update`,
`EndSegment`, `Complete`, `Advance`. The arrays and the linked lists of cells are
the code's. An index taken from an earlier visit (`start`, `end`) that is no column
would set `wild`, which `TypeOK` excludes. `Deblend` is `deblend()` with its sons, cuts and
gathering; pixel values are powers of two, so that levels that are equidistant in
the exponent and fluxes are integers. `Extraction` puts them together with the
pixel stack (`PIXSTACK_FULL`) and the retries of `main()`. `PixelGrid` has the
definition they are compared with: the 8-connected components.

## 4. What the runs show

Passing runs (states are distinct states TLC finds):

| Run | Instance | States | Shows |
|---|---|---|---|
| `field_safe` | two images, four recipes of one or two steps, three runs with or without `--resume`, one retry, snapshots removed, kills anywhere but during the overwrite of a snapshot | 761,200 | `ResultFresh`: a run that gets through leaves the catalog of the whole current recipe on the current image, whatever it took over. `StateBacked`: every entry of `state.json` belongs to its snapshot. `FailedRunKeepsPrefix`: a failed run leaves exactly the steps before the failed one. `ResumeContinues`: nothing that is recorded is executed again. `Promise`: refinement of `FieldPromise`. `RunsEnd`: every run ends. |
| `pool_run` | two fields, two workers, two runs with any fields file and selection, fields that fail or raise, reports that cannot be made, Cancel at any point | 228,020 | `StatusKept`: no report into the shared file is lost. `OneWorkerPerField`. `FilesAgree`: status and both summaries tell one story. `OthersKept`: rows survive `--only`. `EveryFieldReported`: failures are isolated. `PanelFrees`: the panel always becomes usable again. |
| `frames_all` | three frame numbers, two catalogs, all operations | 319,664 | `PlainShownIsLatest`: without bands, without "delete all" and as long as no number is given twice, the panel shows the current frame's own latest catalog, and none without a frame. `NothingLostOnTheWay`: going anywhere loses nothing. |
| `job_quiet` | two frames, two detectors, one column; nothing else is pressed while a job runs | 118,072 | `AccountsForCatalog`: the recorded steps, replayed in an empty directory, lead to the catalog on display, if they do not build on one made before the recording. `CatAfterFaithful`: so does each prefix. `ColumnsFit`, `FrameOwnsCatalog`: columns beside their own rows, catalogs in their own frames. |
| `job_busy` | steps, clear, frame changes and exports while a job runs; processes that fail to start | 165,412 | `RecordTellsOutcome`: a record tells how its run ended, for whichever run. `CancelledIsDiscarded`, `CancelFrees`. |
| `resume_run` | four steps (detect, grow the mask, measure, grow again), four runs, five choices, one of which leaves a step out and two have a step that finds nothing to do (the mask of the second, the last), failures, kills | 9,492 | `ResumeLikeFresh`: a run that ends ok leaves the catalog and the mask of a first run. `CopiesMatchStamps`: what `--resume` would restore is what the key stands for. `NothingRunTwice`: nothing is run when nothing changed and no step without a stamp comes before one with a stamp. |
| `ai_run` | three runs over three objects, batches of two, one retry, two states of profile and catalog, every partial answer, a bool that is never given (read again it is false, then true), a number that may be missing, refusals, kills | 3,570,381 | `OutputIsAnswers`: every finished row is an earlier one that was kept, written once more by type, or an answer to this run's request for its object; a row that cannot be written leaves the output of the run before. `NotAskedTwice`: retries are bounded, and what was stored is not asked for again. `AskedAgain`: failures are asked for again. |
| `checkpoint_run` | two writers, two outputs of two parts, two versions, three writes, one damaged artifact, exceptions and kills anywhere | 1,398,409 | `SnapshotsFaithful`: nothing torn is published. `OneWriter`. `RestoreExact`: a finished restore is the snapshot. |
| `extract_run` | every 4 x 3 image of two classes, every row of five columns and four classes (two pixels high), five shapes that wind round each other; a stack of 4 or 26 cells; two retries | 264,650 | `CatalogIsComponents`: the regions are exactly the 8-connected components, truncation flag included, and nothing else is handed over before the end either. `DeblendPartitions`: objects share out the pixels and none is part of another. `CellsAccounted`: no cell of the stack is lost or in two lists. `HeldAsNeeded`: cells are held exactly as long as a region can grow, and the stack is full only then. `EndsNearer`: every step brings the end nearer. |

Runs that find a disagreement between the code and what the code or its
documentation says (each is a finding in `PROJECT.json`, with the quoted line):

| Run | Violated | What happens |
|---|---|---|
| `field_torn` | `ResultFresh` | A run without `--resume` after one that succeeded overwrites the snapshot in place and is killed before `state.json` is replaced. The old entry now stands beside a torn snapshot, and the next resumed run takes it over and ends "ok". |
| `frames_reuse` | `ShownIsLatest` | `DeleteFrame` keeps the deleted frame's catalog again when it moves on, after it was dropped. A new frame with that number shows it: `frame N` (`CreateGotoFrame`) makes one after a single deletion, and "delete all" restarts the numbering. |
| `resume_changed` | `ResumeLikeFresh` | Only the last step, a mask step, changed: no later step has a stamp, so the field does not start over, and the step edits the mask its earlier run already edited. |

Seen while modelling, at the edge of what the properties claim; each is kept out by
a constant or a hypothesis, named here:

* An exception that leaves `Field.run` is reported as a failed field, but
  `state.json` names no failed step (`batchrun.py:268`).
* Even a kill during the overwrite of a snapshot is harmless while one recipe on
  one image is only ever resumed.
* A step logged while a job runs closes the job's record with the catalog from
  before the job's output (`ogf_session.tcl:188`), and a job that ends after the
  user went to another frame puts its catalog there (`ogf_core.tcl:1117`):
  `job_quiet` has `WhileBusy = {}`, and `job_busy` checks what still holds.
* A session reset during a job lets its result be written into a record of the
  new session with the same number (`ogf_session.tcl:241`, 575): `ResetsWhenIdle`.
* A job whose pipe cannot be opened leaves a record that is neither filled in nor
  failed, and is replayed.
* A recipe that uses one plugin step twice has one `state.json` entry for both
  (`LabelsDiffer`); a cancelled run's results never reach `summary.json`.
* `--resume` of the AI bridge keeps rows by the service's name alone, so a row may
  stem from an older profile (`docs/ai_services.md:202` says so). A column whose type
  the profile does not say and the task has none for is written by its first value, so
  kept texts stay texts there. Rows of objects
  that are not selected leave the output. Without `--resume` a cached batch that
  mapped for some of its objects repeats its failures until `--no-cache`; a kill
  between an answer and its storing loses the answer.
* A checkpoint writer that is killed leaves `.saving`, and the destination is
  blocked until somebody removes it. The files of one snapshot may come from
  different moments; each by itself is whole.
* A group of bands shares one catalog, but when the user leaves one of them for a
  frame that is no band, it is kept under that one's name only
  (`catalog_io.tcl:692`). Coming back to another band shows what that one had
  before the group, and going on from it to the first keeps that on display.
  `PlainShownIsLatest` therefore speaks of users without bands.
* A log that is reset while a catalog is on display (`ogf_session.tcl:575`) and then
  records a step that adds columns cannot be replayed: the script starts from an
  empty directory and has no catalog to add them to
  (`ogf_session_template.py:442`, 977-984). `docs/session_python_script.md:6-7` says that
  replay "reproduces the GUI result". The properties about the replay speak of logs that
  are `SelfContained`.
* A step that the exported script does itself and that finds nothing to do
  (`ogf_session_template.py:532-533`, 559, 594-598) leaves no stamp. While later steps
  are stamped, every `--resume` takes it for a changed step and runs the field from
  the beginning (1011, 1035-1040), where `docs/session_python_script.md:80-82` says that
  unchanged steps are skipped. The result is right (`ResumeLikeFresh` covers such
  choices), the work is done again: `DeclinesLast`.
* Rows that `--resume` of the AI bridge keeps are read as texts and formatted by the
  types of their columns once more (`runner.py:219`, `records.py:94-104`), where
  `docs/ai_services.md:202` says that they are kept. In a bool column `False` becomes
  `True`, and a value that was not given becomes `False` and one run later `True`. A
  number that was not given is an empty text, which is no number: the run ends with
  the old output after it asked for everything else (`cli.py:389-391`), and so does
  every later `--resume`. `OutputIsAnswers` says what comes out (`Retyped`), and
  `WriteFails` is that end.
* A step of an exported script that is left out on the first run leaves an older
  catalog on disk; the copy of a step whose catalog does not exist keeps the copy
  of an earlier run.

### Bounds

Two of each kind of actor or value is where interference starts: two workers, two
writers, two fields, two images, two outputs of two parts, two recipe steps, two
detectors, two frames (three frame numbers, so that a deleted frame has neighbours
on both sides; `seq`, which a number asked for may raise, stops at two more). Three
runs of a field are the fewest in which a recipe can be edited and reverted or a
kill can fall between two others; two runs of the pool the fewest in which rows of
an earlier run meet a selection; two or three records the fewest in which a step can
fall between the start and the end of another. `MaxRuns`, `MaxSteps`, `MaxFrames`,
`MaxWork`, `MaxSaves`, `MaxWrites` and `MaxDamages` appear only as guards of the
actions that count. Three runs of the AI bridge are an answer that is stored, one
that meets it and one after the input changed; three objects in batches of two give
a full and a shorter batch, and the other selection cuts them elsewhere. Three runs
are also what a kept row goes through: written, kept, kept again. Four runs of a
script are a change, its resumption after a kill, and the way back. The images are
the smallest on which markers of all four kinds nest (4 x 3), on which deblending
has three levels inside each other (five columns, four classes), and shapes that
close and open regions on the way; a stack of 4 cells overflows, one of 26 never
does. `CHECK_DEADLOCK FALSE` is in the configurations where the model stops because
such a bound is reached; the field's runs check deadlock, since the user can always
edit the recipe.

Every module also carries the mutants of its definitions named in
`PROJECT.json` (marked "Mutant" or "The mistake of"): plausible bugs of the code,
one for each property, under which the property fails on the same instance.

### Fairness

* `BatchField` (`FairSpec`): weak fairness of the runner's own steps. The runner is
  one thread and a step's process ends by itself or at `--timeout`. Nothing forces a
  kill, a retry or a user action.
* `BatchPool`: weak fairness of the runner, of each worker's own progress, of the
  termination of each worker once the runner exits, and of the panel's
  end-of-output event. `flock` needs no strong fairness here: a worker counts as
  progressing in `WriteStatus`, and the reports of a run are finitely many, so a
  waiting worker finds the lock free for good in the end. No error and no Cancel
  has to happen.
* `JobSession`: weak fairness of the end-of-file event, and of the end of a
  process that was sent a kill. A job nobody cancels may run for ever, and no
  property says otherwise.
* `Extraction` is one deterministic loop: instead of fairness, `EndsNearer` says
  that every step lowers a measure, and deadlock is checked, so it ends.
* `SessionResume`, `AIBridge`, `Checkpoint`: no liveness is claimed. A script, a
  service or a copy may take for ever or be killed, and a killed writer does block
  its destination.

## 5. Proofs

Eight modules hold the proofs, for every value of the constants. Each proves that
a strengthened invariant is inductive, one lemma per action, and draws the
properties from it. `Session_proofs` and `Research_proofs` are about two components
each, one after the other; the extraction has three, each resting on the one
before. (So that one module can extend two specifications, `SessionResume` and
`Checkpoint` call theirs `ResumeSpec` and `CheckpointSpec`.)

`BatchField_proofs`, for all images, recipes, retries, bounds and kill points:

* `TypeCorrect`: `Spec => []TypeOK`.
* `ResumeInvariant`, and from it `ResultAlwaysFresh` (`ResultFresh`),
  `SnapshotsBackState` (`StateBacked`), `FailureKeepsPrefix`
  (`FailedRunKeepsPrefix`) and `PromiseKept` (the refinement of
  `FieldPromise`), under the hypothesis
  `KillsSpareSnapshots`: a kill does not fall between opening a snapshot and
  replacing `state.json`. Without that hypothesis the property is false, as
  `field_torn` shows, so the theorem says exactly how far the code goes.
* `NothingExecutedAgain` (`ResumeContinues`), under the further hypothesis
  `LabelsDiffer` (no recipe names a step twice): `ContinueInv` says that the
  entries a run relies on are still the recorded ones when it gets to them.

`ResultFresh` speaks of the end of a run only, so it is not inductive. The
invariant adds where trust comes from. `Backed`: whichever table of entries is
consulted (the file, the copy read at the start, the one being built), an entry
that says ok carries a chain that is a closed form of some image and some
sequence of steps, and the snapshot at that position, unless it is gone or about
to be replaced, is the catalog of that same sequence. `Progress`: the chain and
the catalog in memory are the closed forms for the first `ptr - 1` steps of the
current recipe. `KeyInjective` then does the work: if the recorded key equals the
current one, the recorded sequence *is* the current prefix, so taking the
snapshot over keeps `Progress`. `DigestAssumption` is used in that lemma only;
`NothingAssumption` says that a snapshot that is not there is no catalog.

`BatchPool_proofs`, for any names, workers, plan length, selections, faults and
number of runs:

* `PoolInvariant`: the strengthened invariant `PoolInv`.
* `PoolTypeCorrect` (`TypeOK`), `NoReportLost` (`StatusKept`), `FieldsNotShared`
  (`OneWorkerPerField`), `SummaryAgrees` (`FilesAgree`), `RowsOfOthersKept`
  (`OthersKept`).

What the properties do not say and the invariant has to: `Locked` (a worker in its
write half holds the lock, and what it has read is what the file still holds),
`Quiet` (workers are busy only while the pool is open or being terminated),
`Shared` (a field that is queued or with a worker is a selected one and has no
result yet), `Truthful` (a finished field without a missed report was
reported with the outcome it returned) and `Tabled` (which rows are already
written), besides `Counted`, which bounds where in its plan a worker can be. The
assumptions on the constants are their ranges, and that the value of a free lock
is no worker.

Proofs about tables go through four lemmas (`TableElim`, `TableIntro`,
`EmptyTable`, `WithFacts`).

`FrameCatalogs_proofs`, for any number of frames and catalogs:
`OwnCatalogShown` (`PlainShownIsLatest`) from `PlainInv`, which says of every
frame, shown or kept, whose catalog it has, and that nothing is kept under a number
never given; `NothingLost` (`NothingLostOnTheWay`) under `DeletesSingly`: "delete all"
is a fold of deletions, and what a fold does is out of reach.

`Session_proofs` on `JobSession`, for any frames, detectors, columns and numbers of steps:
`RecordsTell` (`RecordTellsOutcome`) from `RecordInv`, which ties the number the job
slot holds to the log, under `ResetsWhenIdle`; `CancelledLeavesNoTrace`
(`CancelledIsDiscarded`) with no hypothesis; `FramesOwnTheirs` (`FrameOwnsCatalog`)
under `FrameStays`, and `ColumnsStay` (`ColumnsFit`) under `FrameStays` and
`StepsWait`. `LogAccountsForCatalog` (`AccountsForCatalog`) holds under
`ResetsWhenIdle`, `StepsWait`, `ClearsWait` and `JobsStart`, `FingerprintsFaithful`
(`CatAfterFaithful`) under `ExportsWait` besides. The first is not inductive: while a
job runs, the log already has its record and the catalog not yet its output, so
`ReplayInv` says of that time that the records *before* the job's replay to the
catalog, and that the job is one of the catalog's rows. That the replay of a log
depends on nothing but what its records say (`Alike`), and that one more record is
one more `ReplayStep`, are `ReplayAlike` and `ReplayEquations`. The invariants are about
the replay from the catalog the recording began with, which no script has; that the
one from an empty directory leads to the same, if the log is `SelfContained`, is
`ReplayFromEither`: up to the first record that replaces the catalog neither replay
fails, from there on they agree. The hypotheses are the
user actions excluded while a job runs: under each of them left out, TLC finds the
property violated, so they are the exact limits of the code.

`Session_proofs` on `SessionResume`, for any script, choices and number of runs:
`ResumeTypes`, `CopiesAreOfTheirStamps` (`CopiesMatchStamps`), `ResumedIsLikeFresh`
(`ResumeLikeFresh`) and `NothingIsRunTwice` (`NothingRunTwice`). The invariant
behind them, `FilesInv` (theorem `FilesFollowStamps`), finds, whatever was run in
the directory before, one choice `g` and a number `n` such that the stamps are those
of `g`'s first `n` steps with the copies that go with them (`StampsOf`; only steps
that are `Taken`, neither left out nor without anything to do, have one), and the
mask is what these steps leave (`MaskOf`), or the directory is empty. A run that is
about to take step `i` agrees with `g` before `i` (`Follows`), and no stamp follows
a step while it is taken (`Taking`): that is what the restart is for. The hypotheses
say which command lines and inputs the field is run with: `SetsFirst`, the first
step taken sets the catalog (a script begins with a detection); `ChangesRedone`, of
two choices the first step they differ in is taken by both and edits the catalog.
Without it the code does not keep the promise, as `resume_changed` shows; it holds
of an option that every step hashes. `NothingRunTwice` speaks of choices in which no
step that finds nothing to do comes before one that is run (`DeclinesLast`); for the
others it is false (section 4). `KillsSpareStamps` is the restriction on kills
described in section 3. The choices of `resume_run` satisfy all three.

`Research_proofs` on `Checkpoint`, for any writers, outputs, contents, calls and damage:
`SavingInvariant`, `SavingTypeCorrect` (`TypeOK`), `NothingTornPublished`
(`SnapshotsFaithful`), `WritersExclude` (`OneWriter`), `RestoreGivesBack`
(`RestoreExact`). `SaveInv` says that a copy whose output has not been written since
the first `stat()` is what the output holds, that what a staging directory lists
its output held during the save, and that a restore has copied what is verified.

`Research_proofs` on `AIBridge`, for any selections, batch size, retries and number of runs:
`BridgeInvariant`, `RowsAreAnswers` (`OutputIsAnswers`), `NeverAskedTwice`
(`NotAskedTwice`), `FailuresAskedAgain` (`AskedAgain`). `BridgeInv` says that every
cached answer was given to the request it is kept under (`CacheInv`), that a run's
batch is of its objects left and its request of that batch (`BatchInv`), and that
its table holds kept rows, read as texts, and its own answers (`RowsInv`); that what the
output has was written and not read (`OutputInv`) makes a row that is kept again the
text of what was written (`ReadAndWritten`). `AskedAgain` needs more:
`SteadyInv` says that of every cached answer to a steady run's batches some object is
finished, in the output or in the table. It follows that a steady run finds
nothing in the cache, whose hits alone could repeat a failure.
`AbsentAssumption` says that an absent row is no answer.

`Extraction_proofs`, for any images, stack sizes and number of retries:

* `ComponentsAreRegions`: the recursive `Components` returns the 8-connected
  regions of a set and nothing else. A region is defined without recursion, as a
  set closed under touching no proper part of which is. The reference the scan
  and deblending are compared with thus is the mathematical one.
* `DeblendedShares`: whatever `deblend()` returns for a connected detection of at
  least `minarea` pixels shares its pixels out (`SharedOut`). Every member of the
  tree is a region of its level inside the one it is a son of; a region above
  which nothing was cut stays uncut (`Cut` goes down the levels), so two regions
  that are cut out share no pixel. `gatherup()` may give the other pixels to any
  object.
* `OnlyFullFails`: `deblend()` fails exactly if a level has more sub-objects than
  there is room for.
* `DeblendingShares`: `[](CatalogIsComponents => DeblendPartitions)`, which
  `ObjectsShareOut` frees of its hypothesis.
* `ExtractionEnds` (`EndsNearer`). `PlaceInv` says where the scan can be; the
  lemmas say of each part of the loop body that it leaves the scan where it is
  (`Stays`), of `Visited` that it moves it by one position, and `RemainingParts`
  does the arithmetic of the measure.
* `ScanStaysInBounds`: `Spec => []TypeOK`, that no visit goes outside the arrays and
  every line ends with nothing open. The indices come from earlier visits, on this
  line and the one above, so the invariant `LineInv` says what the arrays mean
  between two visits: `Framed`, `psstack` and `ps` are one word with a `COMPLETE`
  for each open region followed by the regions of the line above that it has met;
  `Past`, the markers written so far nest like brackets, an open region's `start`
  is a column where a region began at its level, its `end` the column where it was
  left, with nothing of its level in between; `Rest`, the markers left of the line
  above nest down to nothing at its end, and a segment takes two columns, so that
  `2 * open - inside` never exceeds the columns left nor the columns done. The
  regions begun above are the entries of `psstack` beyond `co` (`Depth`): what may
  still be pushed and opened is bounded on both sides. The lemmas `...Does` say
  what each part of the loop body does to these fields, the lemmas `...Keeps` that
  it keeps the invariant. Two need care: a region joined to one begun earlier on
  the line, and one suspended behind later segments, write again a marker to
  their left, which lowers every level after it (`PastJoin`, `PastSuspend`).
* `CellsNeverLost`: `Spec => []CellsAccounted`, that every cell is on the free list or
  in the list of exactly one region that can still grow, and every record has the
  number of its cells and its last one right. `CellInv` adds to the invariant
  above that the lists of cells are sound (`Cellular`): there is a function from
  each cell to the set of the cells behind it, itself included (`Chains`, which
  rules out cycles without recursion), and the lists of the places that may grow
  and the free list partition the cells (`Sound`). A list has one name at a time:
  `info` of an open region, or `store` at the column where the region began, as
  long as no open region's `start` points there (`Waits`). Within a visit lists move
  between the two (`E`: the list taken from the visited column, the new pixel's
  cell) and a region may have none yet (`B`), so the lemmas `Cells...` state
  `Cellular` for each part of the loop body with these two. The changes of the
  lists are four (`AccountsMove`, `...Join`, `...Free`, `...Take`), each proved once on
  the chains (`ListsMoved`, `ListsJoined`, `ListFreed`, `CellTaken`). The sum over
  the places in `CellsAccounted` is a fold whose order is a `CHOOSE`; `SumOfSizes`
  says that it is the number of cells.

`ExtractionLines_proofs`: what the scan knows of the picture. It never looks back:
of the line above it has the markers, of its own line the markers written so far.
No theorem of its own, but the lemmas the next module rests on, each for any
line and any set of pixels above the threshold.

* A row of markers is read as levels of nesting and runs (`Reads`). Two readings of
  the same markers differ by a constant (`TurnsAgree`), so what a line says does not
  depend on which of them an invariant names.
* `Sees`: the runs of this line are its lit pixels, and each is held by the region
  whose bracket it is in, open or waiting for the next line. `Recalls`: the same of
  the line above from the present column on, where the brackets that are open
  belong to the regions that `psstack` and `ps` frame (`Frame`, `Owns`). `Tells` is
  both. The lemmas `Tells...` say that "start segment", each of the four markers,
  the new pixel, "end segment" and the step to the next position keep it. The hard
  ones are the two that write a marker to the left again (`SeesJoin`,
  `SeesSuspend`): levels to the right of it are lowered, and the brackets of other
  regions must be found unchanged.
* `Shapes`: what is held is connected, and nothing seen touches it from outside, but
  for one pair of neighbours that the next marker may prove to be of one region.
  `Depicts`: the lists of cells stand for the pixels held. Both through every
  change of the lists: copied, opened, joined by `update()`, freed, a cell taken.
* From `Tells`: what is to the left, above and above-left of a lit pixel is in the
  region of its run once the marker is followed (`LastInRun`, `LastAbove`), and
  every lit pixel of both lines that is not past is held (`TellsHeld`).

`ExtractionRegions_proofs`, for any images, stack sizes and number of retries:

* `CatalogIsRight`: `Spec => []CatalogIsComponents`. The invariant `RegionInv` says of a
  call that there are sets of pixels, one for each open region and each column
  where one waits, which the two lines tell (`Tells`), the lists depict and the
  shapes fit (`Pictured`); and that the pixels reached and not held any more are
  whole regions of the picture, each of them in the catalog exactly once if it has
  enough pixels (`Collected`). One visit is followed part by part (`VisitTakes` to
  `VisitArrives`); every part moves, joins or opens sets (`Redraws`) but the
  marker that completes a region. That one is then whole (`CompletedRegion`): it is
  connected and closed among the pixels reached, and no pixel from which a
  position to come can be touched belongs to it (`FrontierOf`).
* `ObjectsShareOut`: `Spec => []DeblendPartitions`, with no hypothesis left.
* `HeldIsNeeded`: `Spec => []HeldAsNeeded`. One inclusion says that a region is not
  kept too long: every region held has a pixel on the frontier, the pixels a
  position to come may touch (`GrowingReaches`). For a region begun on this line
  that is clear; for the others the line above must still have a run of it, which
  follows from the way its markers are nested (`OpenGoesOn`). The other one, that no
  region is given up early, is `TellsHeld`. The number of cells in use when the
  stack is full is then a count (`AllButTwoHeld`).

The recursive functions (`Components`, `RegionOf`, `TwoTo`, `Tree`, `Cut`, `CellsFrom`, `ReplayFrom`,
`Replayed`, `PlanTo`) are reasoned about by their equations, and the equations are
proved in the same modules by induction in the form of sets: a set of naturals with 0
in it that is closed under successor contains `Nat`, since the least number outside
would have a predecessor inside (`NatSetInduction`, from the well-foundedness of
`<`). The induction theorems that take a predicate cannot be instantiated by the
provers at hand; this one takes a set.

Only model-checked:

* Liveness (`RunsEnd`, `EveryFieldReported`, `PanelFrees`, `CancelFrees`): TLAPS does
  not reason about fairness.
* What "delete all" does (`DeletesSingly` excludes it): a fold over the frames.

## 6. Not modelled

Numerics, drawing, dialogs, text formats, vendored code and upstream DS9: no
state another component relies on, or nothing a model checker can say about it.
The vendored libraries are the bulk of the C code in the tree (millions of
lines), and the map covers none of it.

Within the modelled parts:

* Extraction: the extractor the product runs is Python (`ogfmeas/extract.py`,
  `ogfmeas/sextract.py`); the C program and `sep_src/` are kept beside it, and
  Python's `sep` is used with `OGF_USE_SEP=1` and by the ICL, LSBG and
  moving-object steps. Not modelled: extraction from a segmentation map, cleaning,
  forced mode, the measurements, thresholds that vary over the image, and the
  regions `lutz()` finds inside a detection, which are taken by their definition.
  An object that was split has its truncation flag from its core alone; the
  property is about whole regions.
* `SessionResume`: `--trim` and `allow_network` (not part of a key), registry steps,
  the threads of `--jobs`, the failure of replay mode on a missing requirement.
* `AIBridge`: dry runs, rate limiting, adapters and agent processes, provenance,
  `--rename`, and values other than a bool or a number that is not given.
  That the cache cannot be written is part of `Store`.
* `Checkpoint`: input references, which are only checked by size and time, and the
  recipe catalogue.
* `BatchPool`, `JobSession`, `FrameCatalogs`: see their sections.

The parts marked L in the inventory are left in the plan. `PROJECT.json` lists
every part with its reason, and the hazards without a property with a note on why.
