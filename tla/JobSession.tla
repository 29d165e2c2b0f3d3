----------------------------- MODULE JobSession -----------------------------
(***************************************************************************)
(* The background job slot of the GUI (::ogf::job, ogf_core.tcl), the      *)
(* session recorder behind it (ogf_session.tcl), the step outputs that a   *)
(* finished job applies (::ogf::step::done) and the catalogs of the image  *)
(* frames (FrameState).                                                    *)
(*                                                                         *)
(* Everything here runs in one Tcl event loop: an action is one event      *)
(* handler, run to its end.  Only the job's process runs beside the loop.  *)
(* So the interleavings are those of handlers: between the start of a job  *)
(* and the end-of-file event that delivers its output, the user can press  *)
(* any other button.                                                       *)
(*                                                                         *)
(* A catalog is the rows it lists (which detector on which image) and, for *)
(* every column added later, the rows the column was measured for.         *)
(***************************************************************************)
EXTENDS FrameState, Integers, Sequences

CONSTANTS
  Detectors,       \* steps that replace the catalog (output mode "set")
  Columns,         \* steps that add a column (output mode "add_columns")
  WhileIdle,       \* what the user does when no job runs ...
  WhileBusy,       \* ... and while one runs: subsets of UserActs
  StartMayFail,    \* the pipe of a job may fail to open
  Pending,         \* a field of a record that is not filled in yet
  MaxSteps         \* bound: records in one session log

UserActs == {"step", "clear", "frame", "reset", "export"}

ASSUME ActsAssumption ==
  WhileIdle \subseteq UserActs /\ WhileBusy \subseteq UserActs
ASSUME StartAssumption == StartMayFail \in BOOLEAN
ASSUME MaxStepsAssumption == MaxSteps \in Nat
ASSUME EmptyCatalogAssumption ==
  Empty \notin [det : Detectors, image : Frames]
ASSUME PendingAssumption == Pending \notin {"table", "nothing"}

VARIABLES
  frame,     \* the current frame
  alldata,   \* the catalog on display (catpanel(alldata))
  saved,     \* the catalogs kept for the other frames (catpanel_fdata)
  steps,     \* the recorder's steps (ogfsess(steps))
  open,      \* the record whose catalog fingerprint is still to be taken
  cur,       \* the job slot (::ogf::job::cur)
  truth,     \* history: how the work behind each record ended
  orphan,    \* history: the running job's record was discarded by a reset
  moved,     \* history: the frame was changed since the recording began
  origin     \* history: the catalog when the recording began

catalogs == <<frame, alldata, saved>>
log      == <<steps, open>>
history  == <<truth, orphan, moved, origin>>
vars     == <<frame, alldata, saved, steps, open, cur, truth, orphan, moved, origin>>

-----------------------------------------------------------------------------
(* Catalogs and what a step does to one. *)

Rows    == [det : Detectors, image : Frames]
Catalog == [rows : Rows, cols : [Columns -> Rows \cup {Empty}]] \cup {Empty}
RowsOf(cat) == IF cat = Empty THEN Empty ELSE cat.rows

SetSteps  == [op : {"set"}, arg : Detectors]
AddSteps  == [op : {"add"}, arg : Columns]
ClearStep == [op |-> "clear", arg |-> Empty]

\* What the tool of a step printed: a table, or fewer than two lines.
Outputs == {"table", "nothing"}

\* Mutant: the added columns stay beside the new rows.
LoadTSVKeepsColumns(cat, rows, out) ==
  IF out = "nothing" THEN cat
  ELSE [rows |-> rows,
        cols |-> IF cat = Empty THEN [c \in Columns |-> Empty] ELSE cat.cols]

\* CatalogPanelLoadTSV: a result without a data row leaves the catalog alone.
LoadTSV(cat, rows, out) ==
  IF out = "nothing" THEN cat
  ELSE [rows |-> rows, cols |-> [c \in Columns |-> Empty]]

\* CatalogPanelAddColumnsFromTSV: the values, joined on NUMBER, measured for
\* the rows of base; without a NUMBER column on either side nothing happens.
AddColumns(cat, col, base, out) ==
  IF out = "nothing" \/ cat = Empty THEN cat
  ELSE [cat EXCEPT !.cols = [@ EXCEPT ![col] = base]]

\* Apply to cat the output of a step that was started on the image of frame f
\* with the catalog rows base (::ogf::step::done; CatalogPanelClear).
Apply(s, cat, f, base, out) ==
  CASE s.op = "set"   -> LoadTSV(cat, [det |-> s.arg, image |-> f], out)
    [] s.op = "add"   -> AddColumns(cat, s.arg, base, out)
    [] s.op = "clear" -> Empty

-----------------------------------------------------------------------------
(* The recorder. *)

\* run: "tool" for a record with an argv, "native" for one without
Record(s, run) ==
  [step |-> s, run |-> run, image |-> frame, cat_in |-> alldata,
   cat_after |-> Pending, ms |-> FALSE, failed |-> FALSE, out |-> Pending]

\* Mutant: the fingerprint is that of the catalog the step started from.
FinalizedFromStart ==
  IF open = 0 \/ Len(steps) < open THEN steps
  ELSE [steps EXCEPT ![open].cat_after = steps[open].cat_in]

\* OGFSessFinalize: the fingerprint of the open step, taken from the catalog
\* as it is now.
Finalized ==
  IF open = 0 \/ Len(steps) < open THEN steps
  ELSE [steps EXCEPT ![open].cat_after = alldata]

\* OGFSessLog: close the open record and append one, which becomes the open.
Logged(s, run) == Append(Finalized, Record(s, run))
Opens == Len(steps) < MaxSteps /\ open' = Len(steps) + 1

\* Mutants: a failed run keeps what it printed; a failed run is not marked; the
\* last record is filled in, whichever job it belongs to.
FilledWithAnyOutput(recs, seq, ok, out) ==
  IF seq \notin DOMAIN recs THEN recs
  ELSE [recs EXCEPT ![seq].ms = TRUE, ![seq].failed = ~ ok, ![seq].out = out]
FilledUnmarked(recs, seq, ok, out) ==
  IF seq \notin DOMAIN recs THEN recs
  ELSE [recs EXCEPT ![seq].ms = TRUE, ![seq].out = IF ok THEN out ELSE Pending]
FilledLast(recs, seq, ok, out) ==
  [recs EXCEPT ![Len(recs)].ms = TRUE, ![Len(recs)].failed = ~ ok,
               ![Len(recs)].out = IF ok THEN out ELSE Pending]

\* OGFSessSet on the fields that tell how a run ended; a seq outside the log
\* is ignored.
Filled(recs, seq, ok, out) ==
  IF seq \notin DOMAIN recs THEN recs
  ELSE [recs EXCEPT ![seq].ms = TRUE, ![seq].failed = ~ ok,
                    ![seq].out = IF ok THEN out ELSE Pending]

-----------------------------------------------------------------------------
(* Jobs. *)

Job(s) ==
  [busy |-> TRUE, seq |-> Len(steps) + 1, step |-> s, image |-> frame,
   base |-> RowsOf(alldata), cancelled |-> FALSE, process |-> "running"]

\* The free slot.  The code leaves the fields of the last job in it; nothing
\* reads them before the next job sets them.
NoJob ==
  [busy |-> FALSE, seq |-> 0, step |-> ClearStep, image |-> NoFrame,
   base |-> Empty, cancelled |-> FALSE, process |-> "none"]

Init ==
  /\ frame \in Frames
  /\ alldata = Empty /\ saved = [f \in Frames |-> NotSaved]
  /\ steps = <<>> /\ open = 0
  /\ cur = NoJob
  /\ truth = <<>> /\ orphan = FALSE /\ moved = FALSE /\ origin = Empty

\* ::ogf::step::check_needs: a step that adds columns needs a catalog.
Needed(s) == s \in AddSteps => alldata # Empty

\* Mutant: a second job is started into the slot of a running one.
StartJobAnyway(s) ==
  /\ Needed(s)
  /\ Opens /\ steps' = Logged(s, "tool")
  /\ cur' = Job(s)
  /\ truth' = Append(truth, "running")
  /\ orphan' = FALSE
  /\ UNCHANGED <<catalogs, moved, origin>>

\* step::run -> job::run: the record is written, the process starts.  While a
\* job is running the call returns before either.
StartJob(s) ==
  /\ ~ cur.busy /\ Needed(s)
  /\ Opens /\ steps' = Logged(s, "tool")
  /\ cur' = Job(s)
  /\ truth' = Append(truth, "running")
  /\ orphan' = FALSE
  /\ UNCHANGED <<catalogs, moved, origin>>

\* job::run when the pipe cannot be opened: the record stays as it was logged.
StartFails(s) ==
  /\ StartMayFail
  /\ ~ cur.busy /\ Needed(s)
  /\ Opens /\ steps' = Logged(s, "tool")
  /\ cur' = NoJob
  /\ truth' = Append(truth, "unstarted")
  /\ orphan' = FALSE
  /\ UNCHANGED <<catalogs, moved, origin>>

\* job::cancel: also possible after the process has ended, before its
\* end-of-file has been handled; the kill then finds nothing and is caught.
Cancel ==
  /\ cur.busy
  /\ cur' = [cur EXCEPT !.cancelled = TRUE]
  /\ UNCHANGED <<catalogs, log, history>>

\* The process ends: with a result, without one, or with an error.
ProcessEnds ==
  /\ cur.process = "running"
  /\ \E how \in Outputs \cup {"error"} : cur' = [cur EXCEPT !.process = how]
  /\ UNCHANGED <<catalogs, log, history>>

\* Mutant: the end of a killed process goes unnoticed.
AtEofOfSuccess == cur.process \in Outputs
AtEof == cur.process # "running"

\* Mutant: a cancelled job whose process had already ended is a success.
SucceededAnyway == cur.process \in Outputs
Succeeded == cur.process \in Outputs /\ ~ cur.cancelled

\* job::_readable at end of file: free the slot, fill in the record, call the
\* step's done handler, which applies the output to the catalog on display.
Deliver ==
  /\ cur.busy /\ AtEof
  /\ cur' = NoJob
  /\ steps' = Filled(steps, cur.seq, Succeeded, cur.process)
  /\ alldata' = IF Succeeded
                THEN Apply(cur.step, alldata, cur.image, cur.base, cur.process)
                ELSE alldata
  /\ truth' = IF orphan THEN truth
              ELSE [truth EXCEPT ![cur.seq] = IF Succeeded THEN "ok" ELSE "failed"]
  /\ UNCHANGED <<frame, saved, open, orphan, moved, origin>>

-----------------------------------------------------------------------------
(* What the user does meanwhile. *)

May(act) == act \in IF cur.busy THEN WhileBusy ELSE WhileIdle

\* A step whose proc runs its tool with exec: recorded, run to its end and
\* applied in one handler (OGFSessLog, exec, OGFSessExecDone, the loaders).
SyncStep(s) ==
  /\ May("step") /\ Needed(s)
  /\ \E how \in Outputs \cup {"error"} :
       LET ok == how # "error"
       IN  /\ Opens
           /\ steps' = Filled(Logged(s, "tool"), Len(steps) + 1, ok, how)
           /\ alldata' = IF ok THEN Apply(s, alldata, frame, RowsOf(alldata), how)
                         ELSE alldata
           /\ truth' = Append(truth, IF ok THEN "ok" ELSE "failed")
  /\ UNCHANGED <<frame, saved, cur, orphan, moved, origin>>

\* CatalogPanelClear
Clear ==
  /\ May("clear")
  /\ Opens /\ steps' = Logged(ClearStep, "native")
  /\ alldata' = Empty
  /\ truth' = Append(truth, "ok")
  /\ UNCHANGED <<frame, saved, cur, orphan, moved, origin>>

\* Another frame becomes the current one; no bands are registered.
SwitchFrame(f) ==
  /\ May("frame") /\ f # frame
  /\ LET s == FrameChanged(alldata, saved, frame, f, FALSE)
     IN  alldata' = s.alldata /\ saved' = s.saved
  /\ frame' = f /\ moved' = TRUE
  /\ UNCHANGED <<log, cur, truth, orphan, origin>>

\* CatalogPanelSessionReset: a running job is not asked.
Reset ==
  /\ May("reset")
  /\ steps' = <<>> /\ open' = 0
  /\ truth' = <<>> /\ orphan' = cur.busy
  /\ moved' = FALSE /\ origin' = alldata
  /\ UNCHANGED <<catalogs, cur>>

\* OGFSessExport
Export ==
  /\ May("export") /\ steps # <<>>
  /\ steps' = Finalized /\ open' = 0
  /\ UNCHANGED <<catalogs, cur, history>>

Next ==
  \/ \E s \in SetSteps \cup AddSteps : StartJob(s) \/ StartFails(s) \/ SyncStep(s)
  \/ Cancel \/ ProcessEnds \/ Deliver
  \/ Clear \/ Reset \/ Export
  \/ \E f \in Frames : SwitchFrame(f)

Spec == Init /\ [][Next]_vars

\* The event loop gets to the end-of-file event, and a process that was sent
\* the kill signal ends.  A process left alone may run for ever.
FairSpec ==
  /\ Spec
  /\ WF_vars(Deliver)
  /\ WF_vars(cur.cancelled /\ ProcessEnds)

-----------------------------------------------------------------------------
(* The exported script in --mode replay (ogf_session_template.py): the      *)
(* steps in their recorded order, each on the catalog the ones before it    *)
(* left; records that failed in the GUI are skipped.  The field's directory *)
(* is emptied first, so a replay starts without a catalog, whatever was on  *)
(* display when the recording began; a step that adds columns to no catalog *)
(* ends it.                                                                 *)

\* A replay that has come to cat and goes on.
Going(cat) == [cat |-> cat, ok |-> TRUE]

ReplayStep(st, rec) ==
  IF rec.failed \/ ~ st.ok THEN st
  ELSE IF rec.step.op = "add" /\ st.cat = Empty THEN [st EXCEPT !.ok = FALSE]
  ELSE Going(Apply(rec.step, st.cat, rec.image, RowsOf(st.cat),
                   IF rec.out = Pending THEN "table" ELSE rec.out))

ReplayFrom(st, recs) ==
  LET After[k \in 0..Len(recs)] == IF k = 0 THEN st ELSE ReplayStep(After[k - 1], recs[k])
  IN  After[Len(recs)]

Replay(recs) == ReplayFrom(Going(Empty), recs)

\* What rec does to a catalog does not depend on the catalog.
Replaces(rec) ==
  ~ rec.failed /\ (rec.step.op = "clear" \/ (rec.step.op = "set" /\ rec.out = "table"))

\* No record needs the catalog that was on display when the recording began.
SelfContained(recs) ==
  \/ origin = Empty
  \/ \E j \in 1..Len(recs) :
       /\ Replaces(recs[j])
       /\ \A i \in 1..(j - 1) : recs[i].step.op = "add" => recs[i].failed

-----------------------------------------------------------------------------
(* Properties. *)

\* Once the slot is free, every record of a run tells how that run ended, and
\* until then the only record not filled in is the running job's own
\* ("ms / failed / stdout_crc are filled in at the end", ogf_core.tcl:481).
\* A checksum of the output is recorded for a success only.  Jobs that never
\* started are the exception: nothing is filled in for them.
RecordTellsOutcome ==
  \A i \in DOMAIN steps :
    LET rec == steps[i]
    IN  rec.run = "tool" =>
          CASE truth[i] = "running" ->
                 ~ rec.ms /\ ~ rec.failed /\ cur.busy /\ cur.seq = i /\ ~ orphan
            [] truth[i] = "ok"     -> rec.ms /\ ~ rec.failed /\ rec.out \in Outputs
            [] truth[i] = "failed" -> rec.ms /\ rec.failed /\ rec.out = Pending
            [] truth[i] = "unstarted" -> ~ rec.ms /\ ~ rec.failed

\* The output of a cancelled job is thrown away, also when the process had
\* ended before the user pressed Stop (ogf_core.tcl:516-549).
CancelledIsDiscarded ==
  [][cur.busy /\ cur.cancelled /\ ~ cur'.busy => alldata' = alldata]_vars

\* A cancelled job gives the slot back (ogf_core.tcl:516-531).
CancelFrees == cur.busy /\ cur.cancelled ~> ~ cur.busy

\* When no job runs, replaying the recorded steps leads to the catalog on
\* display, as long as the frame was not changed (one catalog state is recorded
\* per session) and the log does not build on a catalog made before it
\* (session_python_script.md:6-7 and 110-111).
AccountsForCatalog ==
  ~ cur.busy /\ ~ moved /\ SelfContained(steps) => Replay(steps) = Going(alldata)

\* The catalog recorded as the result of a step is the one its replay leaves
\* ("every catalog-changing action is logged explicitly, so nothing changes
\* in between", ogf_session.tcl:289-291).
CatAfterFaithful ==
  \A i \in DOMAIN steps :
    LET first == SubSeq(steps, 1, i)
    IN  truth[i] = "ok" /\ steps[i].cat_after # Pending /\ ~ moved /\ SelfContained(first)
          => Replay(first) = Going(steps[i].cat_after)

\* A column is shown beside the rows it was measured for (values are joined
\* on NUMBER alone, catalog_io.tcl:300-429).
ColumnsFit ==
  \A cat \in {alldata} \cup {saved[f] : f \in Frames} :
    cat \notin {Empty, NotSaved} =>
      \A c \in Columns : cat.cols[c] \in {Empty, cat.rows}

\* A frame shows and keeps a catalog of its own image only (catalogs are per
\* frame in the GUI, session_python_script.md:110).
FrameOwnsCatalog ==
  /\ alldata # Empty => alldata.rows.image = frame
  /\ \A f \in Frames :
       saved[f] \notin {Empty, NotSaved} => saved[f].rows.image = f
=============================================================================
