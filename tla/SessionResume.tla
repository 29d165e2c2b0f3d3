--------------------------- MODULE SessionResume ---------------------------
(***************************************************************************)
(* One field of an exported session script that is run and run again:      *)
(* run_field() of src/ds9/library/ogf_session_template.py.                 *)
(*                                                                         *)
(* Steps edit the field's files in place: the catalog and the mask.  After *)
(* a step its catalog is copied and a stamp with the step's key is         *)
(* written.  With --resume a step whose key is the stamped one is not run, *)
(* its catalog is restored from the copy - the mask is not -, and a step   *)
(* that changed although later steps are stamped makes the field start     *)
(* over from an empty directory.                                           *)
(*                                                                         *)
(* What a file holds is the list of the edits that made it, and a key is   *)
(* the list of the steps it hashes with their parameters and inputs.       *)
(***************************************************************************)
EXTENDS Integers, Sequences, FiniteSets

CONSTANTS
  Kinds,       \* STEPS: what each step does - "set", "add" a catalog; "grow" a mask
  Choices,     \* command lines and inputs: what each step hashes, or Off
  Off,         \* a step that the command line or the inputs leave out
  Void,        \* a step done in the script itself that finds nothing to do: its
               \* catalog file or the mask to copy is not there
  None,        \* a file that does not exist
  KillPoints,  \* the phases in which a run may be killed
  KillsSpareMasks, \* no run is killed between the edit of a mask and its stamp
  MaxRuns      \* bound: number of runs

N     == Len(Kinds)
Steps == 1..N
Phases == {"idle", "clean", "emptied", "step", "run", "copy", "stamp"}

(* What the files can hold: of a mask the steps that grew it, of a catalog the *)
(* steps that made it with the mask each saw, of a stamp its key and files.    *)
Values   == {c[i] : c \in Choices, i \in Steps}
Listed   == Steps \X Values
Masks    == Seq(Listed)
Catalogs == Seq((Steps \X Values \X Masks) \cup (Steps \X {"part"}))
Stamps   == [key : Seq(Listed), outs : {{"cat"}, {"mask"}}]

ASSUME SessionResumeAssumption ==
  /\ Kinds \in Seq({"set", "add", "grow"})
  /\ \A c \in Choices : DOMAIN c = Steps
  /\ None \notin Catalogs /\ None \notin Masks /\ None \notin Stamps /\ None \notin Choices
  /\ Void # Off
  /\ KillPoints \subseteq Phases \ {"idle"} /\ KillsSpareMasks \in BOOLEAN
  /\ MaxRuns \in Nat

VARIABLES
  cat,     \* work/catalog_state.tsv
  mask,    \* the mask files under work/
  copy,    \* .steps/NNNN.catalog.tsv of each step
  stamp,   \* .steps/NNNN.json of each step: its key and the files it changed
  run,     \* the run: phase, step, chain of keys, choice, resume_ok, whether --resume
           \* was asked for, the steps it ran, status
  runs,    \* number of runs so far
  last     \* the choice of the run before if it ended ok, else None

files      == <<cat, mask, copy, stamp>>
resumeVars == <<files, run, runs, last>>

-----------------------------------------------------------------------------
(* What a step makes of the files; None counts as nothing. *)
Edits(f) == IF f = None THEN <<>> ELSE f

(* Mutant: a step that replaces the catalog keeps what was there. *)
CatAfterKept(i, v, c, m) ==
  IF Kinds[i] = "grow" THEN c ELSE Append(Edits(c), <<i, v, Edits(m)>>)

CatAfter(i, v, c, m) ==
  CASE Kinds[i] = "set"  -> << <<i, v, Edits(m)>> >>
    [] Kinds[i] = "add"  -> Append(Edits(c), <<i, v, Edits(m)>>)
    [] Kinds[i] = "grow" -> c

MaskAfter(i, v, m) == IF Kinds[i] = "grow" THEN Append(Edits(m), <<i, v>>) ELSE m

Changed(i) == IF Kinds[i] = "grow" THEN {"mask"} ELSE {"cat"}
Exists(o)  == IF o = "cat" THEN cat # None ELSE mask # None

(* An added column needs a catalog: check_requirements() leaves the step out. *)
Runs(i, v, c) == v # Off /\ ~(Kinds[i] = "add" /\ c = None)

(* step_key() *)
Key(chain, i, v) == Append(chain, <<i, v>>)

Later(i) == \E j \in Steps : j > i /\ stamp[j] # None

(* Mutant: it is not looked whether the step's files are still there. *)
TakenOverAnyFiles(i, key) ==
  run.resume /\ stamp[i] # None /\ stamp[i].key = key

(* The step's result is there and is what the step would give. *)
TakenOver(i, key) ==
  /\ run.resume /\ stamp[i] # None
  /\ stamp[i].key = key
  /\ \A o \in stamp[i].outs : Exists(o)

Idle(status) == [phase |-> "idle", i |-> 0, chain |-> <<>>, choice |-> run.choice,
                 resume |-> FALSE, asked |-> run.asked, ran |-> run.ran, status |-> status]

ResumeInit ==
  /\ cat = None /\ mask = None
  /\ copy = [i \in Steps |-> None] /\ stamp = [i \in Steps |-> None]
  /\ runs = 0 /\ last = None
  /\ \E c \in Choices :
       run = [phase |-> "idle", i |-> 0, chain |-> <<>>, choice |-> c,
              resume |-> FALSE, asked |-> FALSE, ran |-> {}, status |-> "none"]

(* run_field(): without --resume, or without stamps, the directory is emptied. *)
Start(c, resume) ==
  /\ run.phase = "idle" /\ runs < MaxRuns
  /\ runs' = runs + 1
  /\ run' = [phase |-> IF resume /\ runs > 0 THEN "step" ELSE "clean", i |-> 1, chain |-> <<>>,
             choice |-> c, resume |-> resume /\ runs > 0, asked |-> resume,
             ran |-> {}, status |-> "running"]
  /\ UNCHANGED <<files, last>>

(* clean_field_dir(): the work files go first, then the stamps. *)
CleanWork ==
  /\ run.phase = "clean"
  /\ cat' = None /\ mask' = None
  /\ run' = [run EXCEPT !.phase = "emptied"]
  /\ UNCHANGED <<copy, stamp, runs, last>>

CleanSteps ==
  /\ run.phase = "emptied"
  /\ copy' = [i \in Steps |-> None] /\ stamp' = [i \in Steps |-> None]
  /\ run' = [run EXCEPT !.phase = "step"]
  /\ UNCHANGED <<cat, mask, runs, last>>

AtStep == run.phase = "step" /\ run.i \in Steps
Value  == run.choice[run.i]
KeyNow == Key(run.chain, run.i, Value)

(* The step is left out by the command line or for want of what it requires, *)
(* before its key is looked at.                                              *)
Skip ==
  /\ AtStep /\ ~Runs(run.i, Value, cat)
  /\ run' = [run EXCEPT !.i = @ + 1]
  /\ UNCHANGED <<files, runs, last>>

(* Mutant: the catalog is left as the last run ended with it. *)
CachedWithoutCopy ==
  /\ AtStep /\ Runs(run.i, Value, cat) /\ TakenOver(run.i, KeyNow)
  /\ run' = [run EXCEPT !.i = @ + 1, !.chain = KeyNow]
  /\ UNCHANGED <<files, runs, last>>

(* The step is taken over: the catalog it left is put back. *)
Cached ==
  /\ AtStep /\ Runs(run.i, Value, cat) /\ TakenOver(run.i, KeyNow)
  /\ cat' = copy[run.i]
  /\ run' = [run EXCEPT !.i = @ + 1, !.chain = KeyNow]
  /\ UNCHANGED <<mask, copy, stamp, runs, last>>

(* A step changed that later steps followed: run_field_restart(). *)
Rewind ==
  /\ AtStep /\ Runs(run.i, Value, cat) /\ ~TakenOver(run.i, KeyNow)
  /\ run.resume /\ Later(run.i)
  /\ run' = [run EXCEPT !.phase = "clean", !.i = 1, !.chain = <<>>, !.resume = FALSE]
  /\ UNCHANGED <<files, runs, last>>

(* Mutant: a changed step is run where it is, later stamps or not. *)
BeginOverLater ==
  /\ AtStep /\ Runs(run.i, Value, cat) /\ ~TakenOver(run.i, KeyNow)
  /\ run' = [run EXCEPT !.phase = "run"]
  /\ UNCHANGED <<files, runs, last>>

Begin ==
  /\ AtStep /\ Runs(run.i, Value, cat) /\ ~TakenOver(run.i, KeyNow)
  /\ ~(run.resume /\ Later(run.i))
  /\ run' = [run EXCEPT !.phase = "run"]
  /\ UNCHANGED <<files, runs, last>>

(* run_native_or_tool() finds nothing to do: the step is skipped after its key *)
(* was compared, leaves no stamp, and the chain goes on without it.           *)
Decline ==
  /\ run.phase = "run" /\ Value = Void
  /\ run' = [run EXCEPT !.phase = "step", !.i = @ + 1]
  /\ UNCHANGED <<files, runs, last>>

(* run_native_or_tool() ends well: the files are edited. *)
Work ==
  /\ run.phase = "run" /\ Value # Void
  /\ cat' = CatAfter(run.i, Value, cat, mask)
  /\ mask' = MaskAfter(run.i, Value, mask)
  /\ run' = [run EXCEPT !.phase = "copy", !.ran = @ \union {run.i}]
  /\ UNCHANGED <<copy, stamp, runs, last>>

(* The step fails, a step that adds columns perhaps after some of them: the *)
(* run ends.                                                                *)
Fail ==
  /\ run.phase = "run" /\ Value # Void
  /\ \/ cat' = cat
     \/ Kinds[run.i] = "add" /\ cat' = Append(Edits(cat), <<run.i, "part">>)
  /\ run' = Idle("failed") /\ last' = None
  /\ UNCHANGED <<mask, copy, stamp, runs>>

(* The catalog is copied for --resume, if there is one ... *)
CopyCat ==
  /\ run.phase = "copy"
  /\ copy' = IF cat = None THEN copy ELSE [copy EXCEPT ![run.i] = cat]
  /\ run' = [run EXCEPT !.phase = "stamp"]
  /\ UNCHANGED <<cat, mask, stamp, runs, last>>

(* Mutant: the stamp has the key of the step before. *)
WriteStampOfBefore ==
  /\ run.phase = "stamp"
  /\ stamp' = [stamp EXCEPT ![run.i] = [key |-> run.chain, outs |-> Changed(run.i)]]
  /\ run' = [run EXCEPT !.phase = "step", !.i = @ + 1, !.chain = KeyNow]
  /\ UNCHANGED <<cat, mask, copy, runs, last>>

(* ... and the stamp is written. *)
WriteStamp ==
  /\ run.phase = "stamp"
  /\ stamp' = [stamp EXCEPT ![run.i] = [key |-> KeyNow, outs |-> Changed(run.i)]]
  /\ run' = [run EXCEPT !.phase = "step", !.i = @ + 1, !.chain = KeyNow]
  /\ UNCHANGED <<cat, mask, copy, runs, last>>

(* finish_field() *)
Finish ==
  /\ run.phase = "step" /\ run.i > N
  /\ run' = Idle("ok")
  /\ last' = run.choice
  /\ UNCHANGED <<files, runs>>

(* The script is killed; what it is writing may be half there. *)
Kill ==
  /\ run.phase \in KillPoints
  /\ KillsSpareMasks /\ run.phase \in {"copy", "stamp"} => Kinds[run.i] # "grow"
  /\ IF run.phase = "stamp" THEN stamp' \in {stamp, [stamp EXCEPT ![run.i] = None]}
                            ELSE stamp' = stamp
  /\ run' = Idle("killed") /\ last' = None
  /\ UNCHANGED <<cat, mask, copy, runs>>

ResumeNext ==
  \/ \E c \in Choices, resume \in BOOLEAN : Start(c, resume)
  \/ CleanWork \/ CleanSteps \/ Skip \/ Cached \/ Rewind \/ Begin
  \/ Decline \/ Work \/ Fail \/ CopyCat \/ WriteStamp \/ Finish \/ Kill

ResumeSpec == ResumeInit /\ [][ResumeNext]_resumeVars
-----------------------------------------------------------------------------
(* What one listed step makes of the files. *)
Redone(e, f) == [cat  |-> CatAfter(e[1], e[2], f.cat, f.mask),
                 mask |-> MaskAfter(e[1], e[2], f.mask)]

(* What the listed steps leave in an empty directory. *)
Replayed(key) ==
  LET After[k \in 0..Len(key)] == IF k = 0 THEN [cat |-> None, mask |-> None]
                                           ELSE Redone(key[k], After[k - 1])
  IN  After[Len(key)]

(* The steps that a run of choice c in an empty directory takes up to step k. *)
PlanTo(c) ==
  LET To[k \in 0..N] ==
        IF k = 0 THEN <<>>
        ELSE LET before == To[k - 1]
             IN  IF c[k] # Void /\ Runs(k, c[k], Replayed(before).cat)
                 THEN Append(before, <<k, c[k]>>) ELSE before
  IN  To

Plan(c) == PlanTo(c)[N]

(* A run that ends ok leaves what a first run with the same command line and *)
(* inputs would leave, catalog and mask, whatever was run, killed or failed  *)
(* in the directory before (--resume in run_field).                          *)
ResumeLikeFresh ==
  run.status = "ok" => LET fresh == Replayed(Plan(run.choice))
                       IN  cat = fresh.cat /\ mask = fresh.mask

(* The copies of the catalog belong to their stamps: what --resume restores  *)
(* with a stamp is what the steps its key lists leave.                       *)
CopiesMatchStamps ==
  \A i \in Steps :
    stamp[i] # None /\ ~(run.phase = "stamp" /\ run.i = i)
      => copy[i] = Replayed(stamp[i].key).cat

(* No step that finds nothing to do comes before one that is run.            *)
DeclinesLast(c) ==
  \A i, j \in Steps : i < j /\ c[i] = Void => c[j] \in {Off, Void}

(* A run resumed with the choice of the run before, which ended ok, runs     *)
(* nothing ("steps whose hash is unchanged are skipped",                     *)
(* session_python_script.md:80-81), as long as no step without a stamp comes *)
(* before one with a stamp.                                                  *)
NothingRunTwice ==
  [][Finish /\ run.asked /\ last = run.choice /\ DeclinesLast(run.choice)
       => run.ran = {}]_resumeVars
=============================================================================
