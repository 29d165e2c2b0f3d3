--------------------------- MODULE Session_proofs ---------------------------
(***************************************************************************)
(* Proofs about a session from its first job to the replay of its script:  *)
(* what is recorded (JobSession) and what the exported script does when it *)
(* is run and resumed (SessionResume).                                     *)
(*                                                                         *)
(* JobSession: what a record tells of its run, that a cancelled job leaves *)
(* no trace in the catalog, and, for a user who leaves the frames and the  *)
(* catalog alone while a job runs, that catalogs stay with their frames    *)
(* and columns with their rows.  For a user who leaves the recording alone *)
(* meanwhile, the log accounts for the catalog: what a replay of it        *)
(* computes, a recursive function, is followed record by record.           *)
(*                                                                         *)
(* SessionResume: what --resume restores belongs to the key of its stamp,  *)
(* a run that ends ok leaves what a first run would leave, and a run       *)
(* resumed unchanged runs nothing.                                         *)
(*                                                                         *)
(* Replay, Replayed and PlanTo are recursive functions.  Their equations   *)
(* are proved by induction over the naturals in the form of sets: a set    *)
(* with 0 in it that is closed under successor contains Nat, because a     *)
(* least number outside it has a predecessor inside.                       *)
(***************************************************************************)
EXTENDS JobSession, SessionResume, NaturalsInduction, WellFoundedInduction, SequenceTheorems, TLAPS

(* Induction over the naturals, of sets. *)
LEMMA NatSetInduction ==
  ASSUME NEW S, 0 \in S, \A n \in Nat : n \in S => n + 1 \in S
  PROVE  Nat \subseteq S
<1>1. SUFFICES ASSUME ~(Nat \subseteq S) PROVE FALSE
  OBVIOUS
<1> DEFINE T == Nat \ S
<1>2. T \subseteq Nat /\ T # {}
  BY <1>1
<1>3. PICK x \in T : \A y \in T : ~(<<y, x>> \in OpToRel(<, Nat))
  BY <1>2, WFMin, NatLessThanWellFounded
<1>4. x \in Nat /\ x # 0 /\ x \notin S
  OBVIOUS
<1>5. x - 1 \in Nat /\ x - 1 \notin S
  BY <1>4
<1>6. <<x - 1, x>> \in OpToRel(<, Nat)
  BY <1>4, <1>5 DEF OpToRel
<1> QED
  BY <1>3, <1>5, <1>6

-----------------------------------------------------------------------------
(* What a session records (JobSession) *)

AnyStep == SetSteps \cup AddSteps \cup {ClearStep}

Records ==
  [step : AnyStep, run : {"tool", "native"}, image : Frames, cat_in : Catalog,
   cat_after : Catalog \cup {Pending}, ms : BOOLEAN, failed : BOOLEAN, out : Outputs \cup {Pending}]

Ends == Outputs \cup {"error"}

Jobs ==
  [busy : BOOLEAN, seq : Nat, step : AnyStep, image : Frames \cup {NoFrame}, base : Rows \cup {Empty},
   cancelled : BOOLEAN, process : Ends \cup {"none", "running"}]

Kept == [Frames -> Catalog \cup {NotSaved}]

CatalogsOK == frame \in Frames /\ alldata \in Catalog /\ saved \in Kept
LogOK      == /\ steps \in Seq(Records) /\ open \in Nat
              /\ truth \in Seq({"running", "ok", "failed", "unstarted"})
SlotOK     == cur \in Jobs /\ (cur.busy => cur.step \in SetSteps \cup AddSteps /\ cur.image \in Frames)

(* Every variable the proofs speak of holds a value of its kind. *)
TypeInv == CatalogsOK /\ LogOK /\ SlotOK

-----------------------------------------------------------------------------
(* Catalogs *)

(* The rows of a catalog. *)
LEMMA RowsOfType ==
  ASSUME NEW table \in Catalog
  PROVE  RowsOf(table) \in Rows \cup {Empty} /\ (table # Empty => RowsOf(table) = table.rows)
BY DEF RowsOf, Catalog

(* Adding a column changes that column and nothing else. *)
LEMMA AddColumnsFacts ==
  ASSUME NEW table \in Catalog, NEW col \in Columns, NEW base \in Rows \cup {Empty}, NEW out
  PROVE  LET new == AddColumns(table, col, base, out)
         IN  /\ new \in Catalog
             /\ table = Empty => new = Empty
             /\ new # Empty => /\ table # Empty /\ new.rows = table.rows
                               /\ \A c \in Columns : new.cols[c] \in {table.cols[c], base}
<1>1. CASE out = "nothing" \/ table = Empty
  BY <1>1 DEF AddColumns
<1>2. CASE ~(out = "nothing" \/ table = Empty)
  <2>1. table \in [rows : Rows, cols : [Columns -> Rows \cup {Empty}]]
    BY <1>2 DEF Catalog
  <2> DEFINE cols == [table.cols EXCEPT ![col] = base]
  <2>2. cols \in [Columns -> Rows \cup {Empty}] /\ \A c \in Columns : cols[c] \in {table.cols[c], base}
    BY <2>1
  <2>3. AddColumns(table, col, base, out) = [table EXCEPT !.cols = cols]
    BY <1>2 DEF AddColumns
  <2> HIDE DEF cols
  <2>4. [table EXCEPT !.cols = cols] = [rows |-> table.rows, cols |-> cols]
    BY <2>1
  <2> QED BY <1>2, <2>1, <2>2, <2>3, <2>4 DEF Catalog
<1> QED BY <1>1, <1>2

(* A table of its own rows comes without added columns. *)
LEMMA LoadFacts ==
  ASSUME NEW table \in Catalog, NEW rows \in Rows, NEW out
  PROVE  LoadTSV(table, rows, out) \in {table, [rows |-> rows, cols |-> [c \in Columns |-> Empty]]}
         /\ LoadTSV(table, rows, out) \in Catalog
<1>1. [rows |-> rows, cols |-> [c \in Columns |-> Empty]] \in Catalog
  BY DEF Catalog
<1> QED BY <1>1 DEF LoadTSV

(* A step leaves a catalog. *)
LEMMA ApplyType ==
  ASSUME NEW s \in AnyStep, NEW table \in Catalog, NEW f \in Frames, NEW base \in Rows \cup {Empty}, NEW out
  PROVE  Apply(s, table, f, base, out) \in Catalog
<1>1. CASE s \in SetSteps
  <2>1. s.op = "set" /\ [det |-> s.arg, image |-> f] \in Rows
    BY <1>1 DEF SetSteps, Rows
  <2> QED BY <2>1, LoadFacts DEF Apply
<1>2. CASE s \in AddSteps
  <2>1. s.op = "add" /\ s.arg \in Columns
    BY <1>2 DEF AddSteps
  <2> QED BY <2>1, AddColumnsFacts DEF Apply
<1>3. CASE s = ClearStep
  BY <1>3 DEF ClearStep, Apply, Catalog
<1> QED BY <1>1, <1>2, <1>3 DEF AnyStep

-----------------------------------------------------------------------------
(* The recorder *)

(* Taking the fingerprint changes no other field of any record. *)
LEMMA FinalizedFacts ==
  ASSUME TypeInv
  PROVE  /\ Finalized \in Seq(Records) /\ Len(Finalized) = Len(steps)
         /\ \A i \in 1..Len(steps) :
              /\ Finalized[i].run = steps[i].run /\ Finalized[i].ms = steps[i].ms
              /\ Finalized[i].failed = steps[i].failed /\ Finalized[i].out = steps[i].out
<1>1. steps \in Seq(Records) /\ open \in Nat /\ alldata \in Catalog
  BY DEF TypeInv, LogOK, CatalogsOK
<1>2. CASE open = 0 \/ Len(steps) < open
  BY <1>1, <1>2 DEF Finalized
<1>3. CASE ~(open = 0 \/ Len(steps) < open)
  <2> DEFINE r == [steps[open] EXCEPT !.cat_after = alldata]
  <2>1. open \in 1..Len(steps) /\ steps[open] \in Records
    BY <1>1, <1>3
  <2>2. r \in Records /\ r.run = steps[open].run /\ r.ms = steps[open].ms /\ r.failed = steps[open].failed
        /\ r.out = steps[open].out
    BY <2>1, <1>1 DEF Records
  <2>3. Finalized = [steps EXCEPT ![open] = r]
    BY <1>3 DEF Finalized
  <2> HIDE DEF r
  <2> QED BY <1>1, <2>1, <2>2, <2>3
<1> QED BY <1>2, <1>3

(* Logging a step appends its record to those. *)
LEMMA LoggedFacts ==
  ASSUME TypeInv, NEW s \in AnyStep, NEW by \in {"tool", "native"}
  PROVE  LET recs == Logged(s, by)
             n    == Len(steps) + 1
         IN  /\ recs \in Seq(Records) /\ Len(recs) = n /\ n \in Nat
             /\ recs[n].run = by /\ ~ recs[n].ms /\ ~ recs[n].failed /\ recs[n].out = Pending
             /\ \A i \in 1..Len(steps) :
                  /\ recs[i].run = steps[i].run /\ recs[i].ms = steps[i].ms
                  /\ recs[i].failed = steps[i].failed /\ recs[i].out = steps[i].out
<1> DEFINE r == Record(s, by)
<1>1. r \in Records /\ r.run = by /\ ~ r.ms /\ ~ r.failed /\ r.out = Pending
  BY DEF Record, Records, TypeInv, CatalogsOK
<1>2. steps \in Seq(Records) /\ Len(steps) \in Nat
  BY DEF TypeInv, LogOK
<1>3. Logged(s, by) = Append(Finalized, r)
  BY DEF Logged
<1> HIDE DEF r
<1> QED BY <1>1, <1>2, <1>3, FinalizedFacts

(* Filling in a record changes that record, and in it what tells of the end. *)
LEMMA FilledFacts ==
  ASSUME NEW recs \in Seq(Records), NEW n \in Nat, NEW ok \in BOOLEAN, NEW how, ok => how \in Outputs
  PROVE  LET new == Filled(recs, n, ok, how)
         IN  /\ new \in Seq(Records) /\ Len(new) = Len(recs)
             /\ \A i \in 1..Len(recs) : i # n => new[i] = recs[i]
             /\ n \in 1..Len(recs) =>
                  /\ new[n].run = recs[n].run /\ new[n].ms /\ (new[n].failed <=> ~ ok)
                  /\ new[n].out = IF ok THEN how ELSE Pending
<1>1. CASE n \notin DOMAIN recs
  BY <1>1 DEF Filled
<1>2. CASE n \in DOMAIN recs
  <2> DEFINE r  == recs[n]
             r1 == [r EXCEPT !.ms = TRUE, !.failed = ~ ok, !.out = IF ok THEN how ELSE Pending]
  <2>1. r \in Records
    BY <1>2
  <2>2. r1 \in Records /\ r1.run = r.run /\ r1.ms /\ (r1.failed <=> ~ ok) /\ r1.out = IF ok THEN how ELSE Pending
    <3> HIDE DEF r
    <3> QED BY <2>1 DEF Records
  <2>3. Filled(recs, n, ok, how) = [recs EXCEPT ![n] = r1]
    BY <1>2 DEF Filled
  <2> HIDE DEF r1
  <2> QED BY <1>2, <2>2, <2>3
<1> QED BY <1>1, <1>2

(* A log that grows by one record, however it is filled in, keeps its type.  *)
LEMMA LogGrows ==
  ASSUME TypeInv, Opens, NEW recs \in Seq(Records), steps' = recs, NEW t \in {"running", "ok", "failed", "unstarted"},
         truth' = Append(truth, t)
  PROVE  LogOK'
BY DEF TypeInv, LogOK, Opens

-----------------------------------------------------------------------------
(* Types *)

LEMMA TypeInit == Init => TypeInv
<1> SUFFICES ASSUME Init PROVE TypeInv
  OBVIOUS
<1>1. CatalogsOK
  BY DEF Init, CatalogsOK, Catalog, Kept
<1>2. LogOK
  BY DEF Init, LogOK
<1>3. SlotOK
  BY DEF Init, SlotOK, NoJob, Jobs, AnyStep
<1> QED BY <1>1, <1>2, <1>3 DEF TypeInv

LEMMA NoJobType == NoJob \in Jobs /\ ~ NoJob.busy
BY DEF NoJob, Jobs, AnyStep

LEMMA TypeNext == TypeInv /\ [Next]_vars => TypeInv'
<1> SUFFICES ASSUME TypeInv, [Next]_vars PROVE TypeInv'
  OBVIOUS
<1>I. CatalogsOK /\ LogOK /\ SlotOK
  BY DEF TypeInv
<1>S. \A st \in SetSteps \cup AddSteps : st \in AnyStep
  BY DEF AnyStep
<1>1. ASSUME NEW st \in SetSteps \cup AddSteps, StartJob(st) \/ StartFails(st) PROVE TypeInv'
  <2>1. CatalogsOK'
    BY <1>1, <1>I DEF StartJob, StartFails, catalogs, CatalogsOK
  <2>2. Opens /\ steps' = Logged(st, "tool") /\ \E t \in {"running", "unstarted"} : truth' = Append(truth, t)
    BY <1>1 DEF StartJob, StartFails
  <2>3. LogOK'
    BY <2>2, <1>S, LoggedFacts, LogGrows
  <2>4. Job(st) \in Jobs /\ Job(st).step = st /\ Job(st).image = frame
    BY <1>I, <1>S, RowsOfType DEF Job, Jobs, CatalogsOK, LogOK
  <2>5. cur' = Job(st) \/ cur' = NoJob
    BY <1>1 DEF StartJob, StartFails
  <2>6. SlotOK'
    BY <2>4, <2>5, NoJobType, <1>I DEF SlotOK, CatalogsOK
  <2> QED BY <2>1, <2>3, <2>6 DEF TypeInv
<1>2. ASSUME NEW st \in SetSteps \cup AddSteps, SyncStep(st) PROVE TypeInv'
  <2>1. PICK how \in Outputs \cup {"error"} :
          /\ steps' = Filled(Logged(st, "tool"), Len(steps) + 1, how # "error", how)
          /\ alldata' = IF how # "error" THEN Apply(st, alldata, frame, RowsOf(alldata), how) ELSE alldata
          /\ truth' = Append(truth, IF how # "error" THEN "ok" ELSE "failed")
          /\ Opens
    BY <1>2 DEF SyncStep
  <2>2. alldata' \in Catalog
    BY <2>1, <1>S, <1>I, RowsOfType, ApplyType DEF CatalogsOK
  <2>3. steps' \in Seq(Records)
    <3>1. Logged(st, "tool") \in Seq(Records) /\ Len(steps) + 1 \in Nat
      BY <1>S, LoggedFacts
    <3>2. how # "error" => how \in Outputs
      OBVIOUS
    <3> QED BY <2>1, <3>1, <3>2, FilledFacts
  <2>4. LogOK'
    BY <2>1, <2>3, LogGrows
  <2>5. UNCHANGED <<frame, saved, cur>>
    BY <1>2 DEF SyncStep
  <2> QED BY <2>2, <2>4, <2>5, <1>I DEF TypeInv, CatalogsOK, SlotOK
<1>3. CASE Cancel \/ ProcessEnds
  <2>1. UNCHANGED <<catalogs, log, history>>
    BY <1>3 DEF Cancel, ProcessEnds
  <2>2. cur' \in Jobs /\ cur'.busy = cur.busy /\ cur'.step = cur.step /\ cur'.image = cur.image
    BY <1>3, <1>I DEF Cancel, ProcessEnds, SlotOK, Jobs, Ends
  <2> QED BY <2>1, <2>2, <1>I DEF TypeInv, CatalogsOK, LogOK, SlotOK, catalogs, log, history
<1>4. CASE Deliver
  <2>1. /\ cur' = NoJob /\ UNCHANGED <<frame, saved, open>>
        /\ steps' = Filled(steps, cur.seq, Succeeded, cur.process)
        /\ alldata' = IF Succeeded THEN Apply(cur.step, alldata, cur.image, cur.base, cur.process) ELSE alldata
        /\ truth' = IF orphan THEN truth ELSE [truth EXCEPT ![cur.seq] = IF Succeeded THEN "ok" ELSE "failed"]
        /\ cur.busy
    BY <1>4 DEF Deliver
  <2>2. cur.seq \in Nat /\ Succeeded \in BOOLEAN /\ (Succeeded => cur.process \in Outputs)
    BY <1>I DEF SlotOK, Jobs, Succeeded
  <2>3. steps' \in Seq(Records)
    BY <2>1, <2>2, <1>I, FilledFacts DEF LogOK
  <2>4. alldata' \in Catalog
    <3>1. cur.step \in AnyStep /\ cur.image \in Frames /\ cur.base \in Rows \cup {Empty}
      BY <2>1, <1>I DEF SlotOK, Jobs
    <3>2. alldata \in Catalog
      BY <1>I DEF CatalogsOK
    <3>3. Apply(cur.step, alldata, cur.image, cur.base, cur.process) \in Catalog
      BY <3>1, <3>2, ApplyType
    <3> QED BY <2>1, <3>2, <3>3
  <2>5. truth' \in Seq({"running", "ok", "failed", "unstarted"})
    <3>1. truth' = truth \/ \E how \in {"ok", "failed"} : truth' = [truth EXCEPT ![cur.seq] = how]
      BY <2>1
    <3> QED BY <3>1, <1>I DEF LogOK
  <2> QED BY <2>1, <2>3, <2>4, <2>5, <1>I, NoJobType DEF TypeInv, CatalogsOK, LogOK, SlotOK
<1>5. CASE Clear
  <2>1. Opens /\ steps' = Logged(ClearStep, "native") /\ truth' = Append(truth, "ok") /\ alldata' = Empty
        /\ UNCHANGED <<frame, saved, cur>>
    BY <1>5 DEF Clear
  <2>2. LogOK'
    BY <2>1, LoggedFacts, LogGrows DEF AnyStep
  <2> QED BY <2>1, <2>2, <1>I DEF TypeInv, CatalogsOK, SlotOK, Catalog
<1>6. ASSUME NEW f \in Frames, SwitchFrame(f) PROVE TypeInv'
  <2> DEFINE kept == IF frame \notin {NoFrame, f} THEN [saved EXCEPT ![frame] = alldata] ELSE saved
  <2>1. alldata' = Restore(kept, f) /\ saved' = kept /\ frame' = f /\ UNCHANGED <<log, cur, truth>>
    BY <1>6 DEF SwitchFrame, FrameChanged, Save
  <2>2. kept \in Kept
    BY <1>I DEF CatalogsOK, Kept
  <2> HIDE DEF kept
  <2>3. Restore(kept, f) \in Catalog
    BY <2>2 DEF Restore, Kept, Catalog
  <2> QED BY <2>1, <2>2, <2>3, <1>I DEF TypeInv, CatalogsOK, LogOK, SlotOK, log
<1>7. CASE Reset
  BY <1>7, <1>I DEF Reset, catalogs, TypeInv, CatalogsOK, LogOK, SlotOK
<1>8. CASE Export
  BY <1>8, <1>I, FinalizedFacts DEF Export, catalogs, history, TypeInv, CatalogsOK, LogOK, SlotOK
<1>9. CASE UNCHANGED vars
  BY <1>9, <1>I DEF vars, TypeInv, CatalogsOK, LogOK, SlotOK
<1> QED BY <1>1, <1>2, <1>3, <1>4, <1>5, <1>6, <1>7, <1>8, <1>9 DEF Next

-----------------------------------------------------------------------------
(* What the records tell *)

(* The user does not start a new recording while a job runs. *)
ResetsWhenIdle == "reset" \notin WhileBusy

Tells(rec, t, itsjob) ==
  rec.run = "tool" =>
    /\ t = "running"   => ~ rec.ms /\ ~ rec.failed /\ itsjob
    /\ t = "ok"        => rec.ms /\ ~ rec.failed /\ rec.out \in Outputs
    /\ t = "failed"    => rec.ms /\ rec.failed /\ rec.out = Pending
    /\ t = "unstarted" => ~ rec.ms /\ ~ rec.failed

(* The running job's record is in the log, the only one still running.       *)
JobLogged ==
  cur.busy => /\ cur.seq \in 1..Len(steps)
              /\ truth[cur.seq] = "running" /\ steps[cur.seq].run = "tool"

AllTell == \A i \in 1..Len(steps) : Tells(steps[i], truth[i], cur.busy /\ cur.seq = i)

RecordInv == Len(truth) = Len(steps) /\ orphan = FALSE /\ JobLogged /\ AllTell

LEMMA RecordInit == Init => RecordInv
BY DEF Init, RecordInv, JobLogged, AllTell, NoJob

(* A record is added to the log, and the older ones keep what tells.         *)
LEMMA OneMoreTells ==
  ASSUME TypeInv, RecordInv, orphan' = FALSE, NEW n \in Nat, n = Len(steps) + 1, Len(steps') = n,
         NEW t, truth' = Append(truth, t),
         \A i \in 1..Len(steps) : /\ steps'[i].run = steps[i].run /\ steps'[i].ms = steps[i].ms
                                  /\ steps'[i].failed = steps[i].failed /\ steps'[i].out = steps[i].out,
         Tells(steps'[n], t, cur'.busy /\ cur'.seq = n),
         cur' = cur \/ (~ cur.busy /\ (cur'.busy => cur'.seq = n /\ t = "running" /\ steps'[n].run = "tool"))
  PROVE  RecordInv'
<1>1. Len(truth) = Len(steps) /\ Len(steps) \in Nat /\ truth \in Seq({"running", "ok", "failed", "unstarted"})
  BY DEF TypeInv, LogOK, RecordInv
<1>2. Len(truth') = n /\ truth'[n] = t /\ \A i \in 1..Len(steps) : truth'[i] = truth[i]
  BY <1>1
<1>3. \A i \in 1..n : i = n \/ i \in 1..Len(steps)
  BY <1>1
<1>4. ASSUME NEW i \in 1..Len(steps) PROVE Tells(steps'[i], truth'[i], cur'.busy /\ cur'.seq = i)
  <2>1. Tells(steps[i], truth[i], cur.busy /\ cur.seq = i)
    BY DEF RecordInv, AllTell
  <2> QED BY <2>1, <1>2 DEF Tells
<1>5. AllTell'
  BY <1>2, <1>3, <1>4 DEF AllTell
<1>6. JobLogged'
  <2>1. CASE cur' = cur
    BY <2>1, <1>1, <1>2 DEF JobLogged, RecordInv
  <2>2. CASE cur' # cur
    <3>1. n \in 1..n
      BY <1>1
    <3> QED BY <2>2, <3>1, <1>2 DEF JobLogged
  <2> QED BY <2>1, <2>2
<1> QED BY <1>2, <1>5, <1>6 DEF RecordInv

LEMMA RecordNext ==
  ASSUME ResetsWhenIdle, TypeInv, RecordInv, [Next]_vars
  PROVE  RecordInv'
<1>I. /\ SlotOK /\ Len(truth) = Len(steps) /\ orphan = FALSE /\ Len(steps) \in Nat
      /\ steps \in Seq(Records) /\ truth \in Seq({"running", "ok", "failed", "unstarted"}) /\ JobLogged /\ AllTell
  BY DEF TypeInv, RecordInv, LogOK
<1>S. \A st \in SetSteps \cup AddSteps : st \in AnyStep
  BY DEF AnyStep
<1> DEFINE n == Len(steps) + 1
<1>1. ASSUME NEW st \in SetSteps \cup AddSteps, StartJob(st) \/ StartFails(st) PROVE RecordInv'
  <2>1. ~ cur.busy /\ steps' = Logged(st, "tool") /\ orphan' = FALSE
        /\ \/ truth' = Append(truth, "running") /\ cur' = Job(st)
           \/ truth' = Append(truth, "unstarted") /\ cur' = NoJob
    BY <1>1 DEF StartJob, StartFails
  <2>2. Job(st).busy /\ Job(st).seq = n /\ ~ NoJob.busy
    BY DEF Job, NoJob
  <2>3. PICK t \in {"running", "unstarted"} :
          /\ truth' = Append(truth, t)
          /\ \/ t = "running" /\ cur' = Job(st)
             \/ t = "unstarted" /\ cur' = NoJob
    BY <2>1
  <2>4. /\ n \in Nat /\ Len(steps') = n /\ steps'[n].run = "tool" /\ ~ steps'[n].ms /\ ~ steps'[n].failed
        /\ \A i \in 1..Len(steps) : /\ steps'[i].run = steps[i].run /\ steps'[i].ms = steps[i].ms
                                    /\ steps'[i].failed = steps[i].failed /\ steps'[i].out = steps[i].out
    BY <2>1, <1>S, LoggedFacts
  <2>5. cur'.busy => t = "running" /\ cur'.seq = n
    BY <2>2, <2>3
  <2>6. Tells(steps'[n], t, cur'.busy /\ cur'.seq = n)
    BY <2>2, <2>3, <2>4 DEF Tells
  <2> HIDE DEF n
  <2> QED BY <2>1, <2>3, <2>4, <2>5, <2>6, OneMoreTells DEF n
<1>2. ASSUME NEW st \in SetSteps \cup AddSteps, SyncStep(st) PROVE RecordInv'
  <2>1. PICK how \in Outputs \cup {"error"} :
          /\ steps' = Filled(Logged(st, "tool"), n, how # "error", how)
          /\ truth' = Append(truth, IF how # "error" THEN "ok" ELSE "failed")
    BY <1>2 DEF SyncStep
  <2>2. cur' = cur /\ orphan' = FALSE
    BY <1>2, <1>I DEF SyncStep
  <2> DEFINE recs == Logged(st, "tool")
             ok   == how # "error"
             t    == IF ok THEN "ok" ELSE "failed"
  <2>3. /\ recs \in Seq(Records) /\ Len(recs) = n /\ n \in Nat /\ recs[n].run = "tool"
        /\ \A i \in 1..Len(steps) : /\ recs[i].run = steps[i].run /\ recs[i].ms = steps[i].ms
                                    /\ recs[i].failed = steps[i].failed /\ recs[i].out = steps[i].out
    BY <1>S, LoggedFacts
  <2>4. ok \in BOOLEAN /\ (ok => how \in Outputs) /\ steps' = Filled(recs, n, ok, how) /\ n \in 1..n
    BY <2>1, <1>I
  <2> HIDE DEF n, recs, ok
  <2>5. /\ Len(steps') = n /\ \A i \in 1..n : i # n => steps'[i] = recs[i]
        /\ steps'[n].run = "tool" /\ steps'[n].ms /\ (steps'[n].failed <=> ~ ok)
        /\ steps'[n].out = IF ok THEN how ELSE Pending
    BY <2>3, <2>4, FilledFacts
  <2>6. \A i \in 1..Len(steps) : i \in 1..n /\ i # n
    BY <1>I DEF n
  <2>7. Tells(steps'[n], t, cur'.busy /\ cur'.seq = n)
    BY <2>4, <2>5 DEF Tells
  <2>8. truth' = Append(truth, t)
    BY <2>1 DEF ok
  <2>9. \A i \in 1..Len(steps) : /\ steps'[i].run = steps[i].run /\ steps'[i].ms = steps[i].ms
                                 /\ steps'[i].failed = steps[i].failed /\ steps'[i].out = steps[i].out
    BY <2>3, <2>5, <2>6
  <2> HIDE DEF t
  <2> QED BY <2>2, <2>3, <2>5, <2>7, <2>8, <2>9, OneMoreTells DEF n
<1>3. CASE Cancel \/ ProcessEnds
  <2>1. UNCHANGED <<steps, truth, orphan>>
    BY <1>3 DEF Cancel, ProcessEnds, log, history
  <2>2. cur'.busy = cur.busy /\ cur'.seq = cur.seq
    BY <1>3, <1>I DEF Cancel, ProcessEnds, SlotOK, Jobs
  <2> QED BY <2>1, <2>2, <1>I DEF RecordInv, JobLogged, AllTell
<1>4. CASE Deliver
  <2> DEFINE ok == Succeeded
             k  == cur.seq
  <2>1. /\ cur' = NoJob /\ cur.busy /\ orphan' = FALSE
        /\ steps' = Filled(steps, k, ok, cur.process)
        /\ truth' = [truth EXCEPT ![k] = IF ok THEN "ok" ELSE "failed"]
    BY <1>4, <1>I DEF Deliver
  <2>2. k \in 1..Len(steps) /\ steps[k].run = "tool" /\ k \in Nat
    BY <2>1, <1>I DEF JobLogged
  <2>3. ok \in BOOLEAN /\ (ok => cur.process \in Outputs)
    BY <1>I DEF SlotOK, Jobs, Succeeded
  <2> HIDE DEF ok, k
  <2>4. /\ Len(steps') = Len(steps) /\ \A i \in 1..Len(steps) : i # k => steps'[i] = steps[i]
        /\ steps'[k].run = "tool" /\ steps'[k].ms /\ (steps'[k].failed <=> ~ ok)
        /\ steps'[k].out = IF ok THEN cur.process ELSE Pending
    BY <2>1, <2>2, <2>3, <1>I, FilledFacts
  <2>5. /\ Len(truth') = Len(truth) /\ \A i \in 1..Len(steps) : i # k => truth'[i] = truth[i]
        /\ truth'[k] = IF ok THEN "ok" ELSE "failed"
    BY <2>1, <2>2, <1>I
  <2>6. ASSUME NEW i \in 1..Len(steps) PROVE Tells(steps'[i], truth'[i], cur'.busy /\ cur'.seq = i)
    <3>1. CASE i = k
      BY <3>1, <2>3, <2>4, <2>5 DEF Tells
    <3>2. CASE i # k
      <4>1. Tells(steps[i], truth[i], cur.busy /\ cur.seq = i) /\ cur.seq # i
        BY <3>2, <1>I DEF AllTell, k
      <4> QED BY <3>2, <4>1, <2>4, <2>5 DEF Tells
    <3> QED BY <3>1, <3>2
  <2> QED BY <2>1, <2>4, <2>5, <2>6, <1>I, NoJobType DEF RecordInv, JobLogged, AllTell
<1>5. CASE Clear
  <2>1. steps' = Logged(ClearStep, "native") /\ truth' = Append(truth, "ok") /\ cur' = cur /\ orphan' = FALSE
    BY <1>5, <1>I DEF Clear
  <2>2. /\ n \in Nat /\ Len(steps') = n /\ steps'[n].run = "native"
        /\ \A i \in 1..Len(steps) : /\ steps'[i].run = steps[i].run /\ steps'[i].ms = steps[i].ms
                                    /\ steps'[i].failed = steps[i].failed /\ steps'[i].out = steps[i].out
    BY <2>1, LoggedFacts DEF AnyStep
  <2>3. Tells(steps'[n], "ok", cur'.busy /\ cur'.seq = n)
    BY <2>2 DEF Tells
  <2> HIDE DEF n
  <2> QED BY <2>1, <2>2, <2>3, OneMoreTells DEF n
<1>6. CASE (\E f \in Frames : SwitchFrame(f)) \/ UNCHANGED vars
  <2>1. UNCHANGED <<steps, truth, orphan, cur>>
    BY <1>6 DEF SwitchFrame, log, vars
  <2> QED BY <2>1, <1>I DEF RecordInv, JobLogged, AllTell
<1>7. CASE Reset
  <2>1. ~ cur.busy
    BY <1>7 DEF Reset, May, ResetsWhenIdle
  <2>2. cur.busy = FALSE
    BY <2>1, <1>I DEF SlotOK, Jobs
  <2>3. steps' = <<>> /\ truth' = <<>> /\ orphan' = FALSE /\ cur' = cur
    BY <1>7, <2>2 DEF Reset
  <2> QED BY <2>1, <2>3 DEF RecordInv, JobLogged, AllTell
<1>8. CASE Export
  <2>1. steps' = Finalized /\ UNCHANGED <<truth, orphan, cur>>
    BY <1>8 DEF Export, history
  <2> QED BY <2>1, <1>I, FinalizedFacts DEF RecordInv, JobLogged, AllTell, Tells
<1> QED BY <1>1, <1>2, <1>3, <1>4, <1>5, <1>6, <1>7, <1>8 DEF Next

(* Every record of a run tells how that run ended, and until then is the     *)
(* running job's, for any number of steps, detectors, columns and frames,    *)
(* when no new recording is started while a job runs.                        *)
THEOREM RecordsTell ==
  ASSUME ResetsWhenIdle
  PROVE  Spec => []RecordTellsOutcome
<1>1. ASSUME TypeInv, RecordInv PROVE RecordTellsOutcome
  <2>1. DOMAIN steps = 1..Len(steps)
    BY <1>1 DEF TypeInv, LogOK
  <2>2. ASSUME NEW i \in 1..Len(steps)
        PROVE  /\ truth[i] \in {"running", "ok", "failed", "unstarted"}
               /\ Tells(steps[i], truth[i], cur.busy /\ cur.seq = i) /\ orphan = FALSE
    BY <1>1 DEF TypeInv, LogOK, RecordInv, AllTell
  <2> QED BY <2>1, <2>2 DEF RecordTellsOutcome, Tells
<1>2. TypeInv /\ RecordInv /\ [Next]_vars => TypeInv' /\ RecordInv'
  BY ResetsWhenIdle, TypeNext, RecordNext
<1>3. TypeInv /\ RecordInv => RecordTellsOutcome
  BY <1>1
<1> QED BY <1>2, <1>3, TypeInit, RecordInit, PTL DEF Spec

(* The output of a cancelled job never reaches the catalog.                  *)
THEOREM CancelledLeavesNoTrace == Spec => CancelledIsDiscarded
<1>1. ASSUME [Next]_vars, cur.busy, cur.cancelled, ~ cur'.busy PROVE alldata' = alldata
  <2>1. ~ Succeeded
    BY <1>1 DEF Succeeded
  <2>2. ASSUME NEW st \in SetSteps \cup AddSteps PROVE ~ StartJob(st) /\ ~ StartFails(st)
    BY <1>1 DEF StartJob, StartFails
  <2>3. ASSUME NEW st \in SetSteps \cup AddSteps PROVE ~ SyncStep(st)
    BY <1>1 DEF SyncStep
  <2>4. ~ Clear /\ ~ \E f \in Frames : SwitchFrame(f)
    BY <1>1 DEF Clear, SwitchFrame
  <2> QED BY <1>1, <2>1, <2>2, <2>3, <2>4 DEF Next, Cancel, ProcessEnds, Deliver, Reset, Export, catalogs, vars
<1>2. [Next]_vars => [cur.busy /\ cur.cancelled /\ ~ cur'.busy => alldata' = alldata]_vars
  BY <1>1
<1> QED BY <1>2, PTL DEF Spec, CancelledIsDiscarded

-----------------------------------------------------------------------------
(* Frames and columns *)

(* The user stays on the frame, and runs no other step, while a job runs.    *)
FrameStays == "frame" \notin WhileBusy
StepsWait  == "step" \notin WhileBusy

Own(table, f) == table \notin {Empty, NotSaved} => table.rows.image = f

Fits(table) == table \notin {Empty, NotSaved} => \A c \in Columns : table.cols[c] \in {Empty, table.rows}

(* A step keeps a catalog of frame f one of frame f.                         *)
LEMMA ApplyOwns ==
  ASSUME NEW s \in AnyStep, NEW table \in Catalog, NEW f \in Frames, NEW base \in Rows \cup {Empty}, NEW out,
         table # Empty => table.rows.image = f
  PROVE  Apply(s, table, f, base, out) # Empty => Apply(s, table, f, base, out).rows.image = f
<1>1. CASE s \in SetSteps
  <2> DEFINE rows == [det |-> s.arg, image |-> f]
             new  == [rows |-> rows, cols |-> [c \in Columns |-> Empty]]
  <2>1. s.op = "set" /\ rows \in Rows /\ rows.image = f /\ new.rows = rows
    BY <1>1 DEF SetSteps, Rows
  <2>2. Apply(s, table, f, base, out) = LoadTSV(table, rows, out)
    BY <2>1 DEF Apply
  <2>3. LoadTSV(table, rows, out) \in {table, new}
    BY <2>1, LoadFacts
  <2> HIDE DEF rows, new
  <2> QED BY <2>1, <2>2, <2>3
<1>2. CASE s \in AddSteps
  <2>1. Apply(s, table, f, base, out) = AddColumns(table, s.arg, base, out) /\ s.arg \in Columns
    BY <1>2 DEF AddSteps, Apply
  <2> QED BY <2>1, AddColumnsFacts
<1>3. CASE s = ClearStep
  BY <1>3 DEF ClearStep, Apply
<1> QED BY <1>1, <1>2, <1>3 DEF AnyStep

(* A step whose values were measured for the rows on display keeps every     *)
(* column beside the rows it was measured for.                               *)
LEMMA ApplyFits ==
  ASSUME NEW s \in AnyStep, NEW table \in Catalog, NEW f \in Frames, NEW base \in Rows \cup {Empty}, NEW out,
         Fits(table), table # NotSaved, table = Empty \/ base = RowsOf(table)
  PROVE  Fits(Apply(s, table, f, base, out))
<1>1. CASE s \in SetSteps
  <2> DEFINE rows == [det |-> s.arg, image |-> f]
             none == [c \in Columns |-> Empty]
             new  == [rows |-> rows, cols |-> none]
  <2>1. s.op = "set" /\ rows \in Rows
    BY <1>1 DEF SetSteps, Rows
  <2>2. Apply(s, table, f, base, out) = LoadTSV(table, rows, out)
    BY <2>1 DEF Apply
  <2>3. LoadTSV(table, rows, out) \in {table, new}
    BY <2>1, LoadFacts
  <2>4. new.cols = none /\ \A c \in Columns : none[c] = Empty
    OBVIOUS
  <2>5. Fits(new)
    <3> HIDE DEF none, new
    <3> QED BY <2>4 DEF Fits
  <2> HIDE DEF new
  <2> QED BY <2>2, <2>3, <2>5
<1>2. CASE s \in AddSteps
  <2>1. Apply(s, table, f, base, out) = AddColumns(table, s.arg, base, out) /\ s.arg \in Columns
    BY <1>2 DEF AddSteps, Apply
  <2> DEFINE new == AddColumns(table, s.arg, base, out)
  <2>2. new # Empty => /\ table # Empty /\ new.rows = table.rows
                       /\ \A c \in Columns : new.cols[c] \in {table.cols[c], base}
    BY <2>1, AddColumnsFacts
  <2>3. table # Empty => base = table.rows
    BY RowsOfType
  <2> HIDE DEF new
  <2> QED BY <2>1, <2>2, <2>3 DEF Fits, new
<1>3. CASE s = ClearStep
  BY <1>3 DEF ClearStep, Apply, Fits
<1> QED BY <1>1, <1>2, <1>3 DEF AnyStep

OwnInv ==
  /\ alldata # Empty => alldata.rows.image = frame
  /\ \A f \in Frames : Own(saved[f], f)
  /\ cur.busy => cur.image = frame

LEMMA OwnInit == Init => OwnInv
BY DEF Init, OwnInv, Own, NoJob

LEMMA OwnNext ==
  ASSUME FrameStays, TypeInv, OwnInv, [Next]_vars
  PROVE  OwnInv'
<1>I. CatalogsOK /\ SlotOK
  BY DEF TypeInv
<1>1. ASSUME NEW st \in SetSteps \cup AddSteps, StartJob(st) \/ StartFails(st) PROVE OwnInv'
  <2>1. Job(st).image = frame /\ ~ NoJob.busy
    BY DEF Job, NoJob
  <2> QED BY <1>1, <2>1 DEF StartJob, StartFails, catalogs, OwnInv
<1>2. ASSUME NEW st \in SetSteps \cup AddSteps, SyncStep(st) PROVE OwnInv'
  <2>1. PICK how \in Outputs \cup {"error"} :
          alldata' = IF how # "error" THEN Apply(st, alldata, frame, RowsOf(alldata), how) ELSE alldata
    BY <1>2 DEF SyncStep
  <2>2. UNCHANGED <<frame, saved, cur>>
    BY <1>2 DEF SyncStep
  <2>3. alldata' # Empty => alldata'.rows.image = frame
    BY <2>1, <1>I, RowsOfType, ApplyOwns DEF OwnInv, CatalogsOK, AnyStep
  <2> QED BY <2>2, <2>3 DEF OwnInv
<1>3. CASE Deliver
  <2>1. /\ cur.busy /\ ~ cur'.busy /\ UNCHANGED <<frame, saved>>
        /\ alldata' = IF Succeeded THEN Apply(cur.step, alldata, cur.image, cur.base, cur.process) ELSE alldata
    BY <1>3, NoJobType DEF Deliver
  <2>2. cur.step \in AnyStep /\ cur.image \in Frames /\ cur.base \in Rows \cup {Empty} /\ cur.image = frame
    BY <2>1, <1>I DEF SlotOK, Jobs, OwnInv
  <2>3. alldata' # Empty => alldata'.rows.image = frame
    BY <2>1, <2>2, <1>I, ApplyOwns DEF OwnInv, CatalogsOK
  <2> QED BY <2>1, <2>3 DEF OwnInv
<1>4. ASSUME NEW f \in Frames, SwitchFrame(f) PROVE OwnInv'
  <2>1. ~ cur.busy /\ cur' = cur /\ frame' = f /\ f # frame
    BY <1>4 DEF SwitchFrame, May, FrameStays
  <2> DEFINE kept == [saved EXCEPT ![frame] = alldata]
  <2>2. saved' = kept /\ alldata' = Restore(kept, f)
    BY <1>4, <2>1, <1>I, NoFrameAssumption DEF SwitchFrame, FrameChanged, Save, CatalogsOK
  <2>3. kept[frame] = alldata /\ \A g \in Frames : g # frame => kept[g] = saved[g]
    BY <1>I DEF CatalogsOK, Kept
  <2> HIDE DEF kept
  <2>4. \A g \in Frames : Own(kept[g], g)
    BY <2>3 DEF OwnInv, Own
  <2>5. Restore(kept, f) # Empty => Restore(kept, f).rows.image = f
    BY <2>4 DEF Restore, Own
  <2> QED BY <2>1, <2>2, <2>4, <2>5 DEF OwnInv
<1>5. CASE Clear
  BY <1>5 DEF Clear, OwnInv
<1>6. CASE Cancel \/ ProcessEnds \/ Reset \/ Export \/ UNCHANGED vars
  <2>1. UNCHANGED catalogs
    BY <1>6 DEF Cancel, ProcessEnds, Reset, Export, vars, catalogs
  <2>2. cur'.busy = cur.busy /\ cur'.image = cur.image
    BY <1>6, <1>I DEF Cancel, ProcessEnds, Reset, Export, vars, SlotOK, Jobs
  <2> QED BY <2>1, <2>2 DEF OwnInv, catalogs
<1> QED BY <1>1, <1>2, <1>3, <1>4, <1>5, <1>6 DEF Next

(* A frame shows and keeps a catalog of its own image only, when the user    *)
(* does not leave the frame while a job runs.                                *)
THEOREM FramesOwnTheirs ==
  ASSUME FrameStays
  PROVE  Spec => []FrameOwnsCatalog
<1>1. OwnInv => FrameOwnsCatalog
  BY DEF OwnInv, Own, FrameOwnsCatalog
<1>2. TypeInv /\ OwnInv /\ [Next]_vars => TypeInv' /\ OwnInv'
  BY FrameStays, TypeNext, OwnNext
<1> QED BY <1>1, <1>2, TypeInit, OwnInit, PTL DEF Spec

FitInv ==
  /\ Fits(alldata) /\ \A f \in Frames : Fits(saved[f])
  /\ cur.busy => alldata = Empty \/ cur.base = RowsOf(alldata)

LEMMA FitInit == Init => FitInv
BY DEF Init, FitInv, Fits, NoJob

LEMMA FitNext ==
  ASSUME FrameStays, StepsWait, NotSaved \notin Catalog, TypeInv, FitInv, [Next]_vars
  PROVE  FitInv'
<1>I. CatalogsOK /\ SlotOK /\ alldata # NotSaved
  BY DEF TypeInv, CatalogsOK
<1>1. ASSUME NEW st \in SetSteps \cup AddSteps, StartJob(st) \/ StartFails(st) PROVE FitInv'
  <2>1. Job(st).base = RowsOf(alldata) /\ ~ NoJob.busy
    BY DEF Job, NoJob
  <2> QED BY <1>1, <2>1 DEF StartJob, StartFails, catalogs, FitInv
<1>2. ASSUME NEW st \in SetSteps \cup AddSteps, SyncStep(st) PROVE FitInv'
  <2>1. PICK how \in Outputs \cup {"error"} :
          alldata' = IF how # "error" THEN Apply(st, alldata, frame, RowsOf(alldata), how) ELSE alldata
    BY <1>2 DEF SyncStep
  <2>2. UNCHANGED <<saved, cur>> /\ ~ cur.busy
    BY <1>2 DEF SyncStep, May, StepsWait
  <2>3. Fits(alldata')
    BY <2>1, <1>I, RowsOfType, ApplyFits DEF FitInv, CatalogsOK, AnyStep
  <2> QED BY <2>2, <2>3 DEF FitInv
<1>3. CASE Deliver
  <2>1. /\ cur.busy /\ ~ cur'.busy /\ saved' = saved
        /\ alldata' = IF Succeeded THEN Apply(cur.step, alldata, cur.image, cur.base, cur.process) ELSE alldata
    BY <1>3, NoJobType DEF Deliver
  <2>2. cur.step \in AnyStep /\ cur.image \in Frames /\ cur.base \in Rows \cup {Empty}
    BY <2>1, <1>I DEF SlotOK, Jobs
  <2>3. Fits(alldata')
    BY <2>1, <2>2, <1>I, ApplyFits DEF FitInv, CatalogsOK
  <2> QED BY <2>1, <2>3 DEF FitInv
<1>4. ASSUME NEW f \in Frames, SwitchFrame(f) PROVE FitInv'
  <2>1. ~ cur.busy /\ cur' = cur /\ f # frame
    BY <1>4 DEF SwitchFrame, May, FrameStays
  <2> DEFINE kept == [saved EXCEPT ![frame] = alldata]
  <2>2. saved' = kept /\ alldata' = Restore(kept, f)
    BY <1>4, <2>1, <1>I, NoFrameAssumption DEF SwitchFrame, FrameChanged, Save, CatalogsOK
  <2>3. \A g \in Frames : kept[g] \in {alldata, saved[g]}
    BY <1>I DEF CatalogsOK, Kept
  <2> HIDE DEF kept
  <2>4. \A g \in Frames : Fits(kept[g])
    BY <2>3 DEF FitInv
  <2>5. Fits(Restore(kept, f))
    BY <2>4 DEF Restore, Fits
  <2> QED BY <2>1, <2>2, <2>4, <2>5 DEF FitInv
<1>5. CASE Clear
  BY <1>5 DEF Clear, FitInv, Fits
<1>6. CASE Cancel \/ ProcessEnds \/ Reset \/ Export \/ UNCHANGED vars
  <2>1. UNCHANGED catalogs
    BY <1>6 DEF Cancel, ProcessEnds, Reset, Export, vars, catalogs
  <2>2. cur'.busy = cur.busy /\ cur'.base = cur.base
    BY <1>6, <1>I DEF Cancel, ProcessEnds, Reset, Export, vars, SlotOK, Jobs
  <2> QED BY <2>1, <2>2 DEF FitInv, catalogs
<1> QED BY <1>1, <1>2, <1>3, <1>4, <1>5, <1>6 DEF Next

(* A column is shown beside the rows it was measured for, when the user      *)
(* neither leaves the frame nor runs another step while a job runs.          *)
THEOREM ColumnsStay ==
  ASSUME FrameStays, StepsWait, NotSaved \notin Catalog
  PROVE  Spec => []ColumnsFit
<1>1. ASSUME FitInv PROVE ColumnsFit
  <2> SUFFICES ASSUME NEW table \in {alldata} \cup {saved[f] : f \in Frames} PROVE Fits(table)
    BY DEF ColumnsFit, Fits
  <2> QED BY <1>1 DEF FitInv
<1>2. TypeInv /\ FitInv /\ [Next]_vars => TypeInv' /\ FitInv'
  BY FrameStays, StepsWait, NotSaved \notin Catalog, TypeNext, FitNext
<1>3. FitInv => ColumnsFit
  BY <1>1
<1> QED BY <1>2, <1>3, TypeInit, FitInit, PTL DEF Spec
-----------------------------------------------------------------------------
(* The replay of a log *)

IsReplay(f, table, recs, n) ==
  f = [k \in 0..n |-> IF k = 0 THEN table ELSE ReplayStep(f[k - 1], recs[k])]

LEMMA ReplayExists ==
  ASSUME NEW table, NEW recs
  PROVE  \A n \in Nat : \E f : IsReplay(f, table, recs, n)
<1> DEFINE S == {n \in Nat : \E f : IsReplay(f, table, recs, n)}
<1>1. 0 \in S
  <2> DEFINE f == [k \in 0..0 |-> table]
  <2>1. IsReplay(f, table, recs, 0)
    BY DEF IsReplay
  <2> QED BY <2>1
<1>2. ASSUME NEW n \in Nat, n \in S PROVE n + 1 \in S
  <2>1. PICK f : IsReplay(f, table, recs, n)
    BY <1>2
  <2> DEFINE g == [k \in 0..(n + 1) |-> IF k = n + 1 THEN ReplayStep(f[n], recs[k]) ELSE f[k]]
  <2>2. ASSUME NEW k \in 0..(n + 1)
        PROVE  g[k] = IF k = 0 THEN table ELSE ReplayStep(g[k - 1], recs[k])
    <3>1. CASE k = n + 1
      BY <3>1
    <3>2. CASE k # n + 1
      <4>1. k \in 0..n /\ (k # 0 => k - 1 \in 0..n) /\ g[k] = f[k] /\ (k # 0 => g[k - 1] = f[k - 1])
        BY <3>2
      <4>2. f[k] = IF k = 0 THEN table ELSE ReplayStep(f[k - 1], recs[k])
        BY <2>1, <4>1 DEF IsReplay
      <4> QED BY <4>1, <4>2
    <3> QED BY <3>1, <3>2
  <2>3. IsReplay(g, table, recs, n + 1)
    BY <2>2, Zenon DEF IsReplay
  <2> QED BY <2>3
<1> HIDE DEF S
<1>3. Nat \subseteq S
  BY <1>1, <1>2, NatSetInduction
<1> QED BY <1>3 DEF S

(* The fields of a record that a replay reads. *)
Alike(r, s) == r.step = s.step /\ r.image = s.image /\ r.failed = s.failed /\ r.out = s.out
AlikeUpTo(recs, more, i) == \A j \in 1..i : Alike(recs[j], more[j])

LEMMA ReplayUnique ==
  ASSUME NEW table, NEW recs, NEW more, NEW n \in Nat, NEW m \in Nat, NEW f, NEW g,
         IsReplay(f, table, recs, n), IsReplay(g, table, more, m),
         NEW i \in Nat, i <= n, i <= m, AlikeUpTo(recs, more, i)
  PROVE  f[i] = g[i]
<1> DEFINE S == {k \in Nat : k <= i => f[k] = g[k]}
<1>1. 0 \in S
  BY DEF IsReplay
<1>2. ASSUME NEW k \in Nat, k \in S PROVE k + 1 \in S
  <2>1. CASE k + 1 <= i
    <3>1. k + 1 \in 0..n /\ k + 1 \in 0..m /\ k + 1 # 0 /\ (k + 1) - 1 = k /\ k + 1 \in 1..i
      BY <2>1
    <3>2. f[k + 1] = ReplayStep(f[k], recs[k + 1])
      BY <3>1 DEF IsReplay
    <3>3. g[k + 1] = ReplayStep(g[k], more[k + 1])
      BY <3>1 DEF IsReplay
    <3>4. f[k] = g[k] /\ Alike(recs[k + 1], more[k + 1])
      BY <1>2, <2>1, <3>1 DEF AlikeUpTo
    <3>5. ReplayStep(f[k], recs[k + 1]) = ReplayStep(f[k], more[k + 1])
      BY <3>4 DEF ReplayStep, Alike
    <3> QED BY <3>1, <3>2, <3>3, <3>4, <3>5
  <2> QED BY <2>1
<1> HIDE DEF S
<1>3. i \in S
  BY <1>1, <1>2, NatSetInduction
<1> QED BY <1>3 DEF S

LEMMA ReplayIs ==
  ASSUME NEW table, NEW recs, Len(recs) \in Nat
  PROVE  \E f : IsReplay(f, table, recs, Len(recs)) /\ ReplayFrom(table, recs) = f[Len(recs)]
<1> DEFINE A == CHOOSE f : IsReplay(f, table, recs, Len(recs))
<1>1. IsReplay(A, table, recs, Len(recs))
  BY ReplayExists
<1>2. ReplayFrom(table, recs) = A[Len(recs)]
  BY DEF ReplayFrom, IsReplay
<1> QED BY <1>1, <1>2

(* The replay of the first i records. *)
ReplayTo(table, recs, i) == ReplayFrom(table, SubSeq(recs, 1, i))

LEMMA ReplayToIs ==
  ASSUME NEW table, NEW recs \in Seq(Records), NEW i \in 0..Len(recs),
         NEW f, IsReplay(f, table, recs, Len(recs))
  PROVE  ReplayTo(table, recs, i) = f[i]
<1> DEFINE first == SubSeq(recs, 1, i)
<1>1. Len(recs) \in Nat /\ i \in Nat /\ i <= Len(recs)
  OBVIOUS
<1>2. Len(first) = i /\ \A j \in 1..i : first[j] = recs[j]
  BY <1>1
<1> HIDE DEF first
<1>3. Len(first) \in Nat
  BY <1>1, <1>2
<1>4. PICK g : IsReplay(g, table, first, Len(first)) /\ ReplayFrom(table, first) = g[Len(first)]
  BY <1>3, ReplayIs
<1>5. AlikeUpTo(first, recs, i)
  BY <1>2 DEF Alike, AlikeUpTo
<1>6. i <= i
  BY <1>1
<1>7. g[i] = f[i]
  BY <1>1, <1>2, <1>4, <1>5, <1>6, ReplayUnique
<1> QED BY <1>2, <1>4, <1>7 DEF ReplayTo, first

(* The equations of a replay: nothing is replayed to the catalog it starts from, *)
(* and a record after the ones before it.                                        *)
LEMMA ReplayEquations ==
  ASSUME NEW table, NEW recs \in Seq(Records)
  PROVE  /\ ReplayTo(table, recs, 0) = table
         /\ ReplayFrom(table, recs) = ReplayTo(table, recs, Len(recs))
         /\ \A i \in 1..Len(recs) :
              ReplayTo(table, recs, i) = ReplayStep(ReplayTo(table, recs, i - 1), recs[i])
<1>1. Len(recs) \in Nat
  OBVIOUS
<1>2. PICK f : IsReplay(f, table, recs, Len(recs)) /\ ReplayFrom(table, recs) = f[Len(recs)]
  BY <1>1, ReplayIs
<1>3. \A i \in 0..Len(recs) : ReplayTo(table, recs, i) = f[i]
  BY <1>2, ReplayToIs
<1>4. f[0] = table
  BY <1>1, <1>2 DEF IsReplay
<1>5. ASSUME NEW i \in 1..Len(recs) PROVE f[i] = ReplayStep(f[i - 1], recs[i])
  <2>1. i \in 0..Len(recs) /\ i # 0
    BY <1>1
  <2> QED BY <1>2, <2>1 DEF IsReplay
<1>6. 0 \in 0..Len(recs) /\ Len(recs) \in 0..Len(recs) /\ \A i \in 1..Len(recs) : i \in 0..Len(recs) /\ i - 1 \in 0..Len(recs)
  BY <1>1
<1> QED BY <1>2, <1>3, <1>4, <1>5, <1>6

(* Logs that are alike up to a record replay alike up to it. *)
LEMMA ReplayAlike ==
  ASSUME NEW table, NEW recs \in Seq(Records), NEW more \in Seq(Records),
         NEW i \in Nat, i <= Len(recs), i <= Len(more), AlikeUpTo(recs, more, i)
  PROVE  ReplayTo(table, recs, i) = ReplayTo(table, more, i)
<1>1. Len(recs) \in Nat /\ Len(more) \in Nat /\ i \in 0..Len(recs) /\ i \in 0..Len(more)
  OBVIOUS
<1>2. PICK f : IsReplay(f, table, recs, Len(recs))
  BY <1>1, ReplayExists
<1>3. PICK g : IsReplay(g, table, more, Len(more))
  BY <1>1, ReplayExists
<1>4. f[i] = g[i]
  <2>1. PICK n \in Nat, m \in Nat : n = Len(recs) /\ m = Len(more)
    BY <1>1
  <2>2. IsReplay(f, table, recs, n) /\ IsReplay(g, table, more, m) /\ i <= n /\ i <= m
    BY <1>2, <1>3, <2>1
  <2> QED BY <2>2, ReplayUnique
<1>5. ReplayTo(table, recs, i) = f[i]
  BY <1>1, <1>2, ReplayToIs
<1>6. ReplayTo(table, more, i) = g[i]
  BY <1>1, <1>3, ReplayToIs
<1> QED BY <1>4, <1>5, <1>6
-----------------------------------------------------------------------------
(* The log accounts for the catalog *)

(* The user does not clear the catalog, nor export the session, while a job   *)
(* runs, and a job whose pipe is opened starts.                               *)
ClearsWait  == "clear" \notin WhileBusy
ExportsWait == "export" \notin WhileBusy
JobsStart   == ~ StartMayFail

(* What the replay has to be: of the whole log when the slot is free, of the  *)
(* records before the job's while one runs.                                   *)
JobsRecord(rec) ==
  rec.step = cur.step /\ rec.image = cur.image /\ ~ rec.failed /\ rec.out = Pending

ReplayInv ==
  /\ open \in {0, Len(steps)}
  /\ ~ moved /\ ~ cur.busy => ReplayTo(Going(origin), steps, Len(steps)) = Going(alldata)
  /\ ~ moved /\ cur.busy =>
       /\ cur.seq = Len(steps) /\ cur.base = RowsOf(alldata)
       /\ JobsRecord(steps[cur.seq])
       /\ ReplayTo(Going(origin), steps, cur.seq - 1) = Going(alldata)
       /\ cur.step.op = "add" => alldata # Empty

(* The fingerprints taken so far. *)
Faithful(recs, t, table) ==
  \A i \in 1..Len(recs) :
    t[i] = "ok" /\ recs[i].cat_after # Pending => Going(recs[i].cat_after) = ReplayTo(table, recs, i)

FaithInv ==
  /\ ~ moved => Faithful(steps, truth, Going(origin))
  /\ cur.busy => steps[cur.seq].cat_after = Pending

(* Closing the open record changes only its fingerprint, to the catalog. *)
LEMMA FinalizedRecords ==
  ASSUME TypeInv
  PROVE  /\ Finalized \in Seq(Records) /\ Len(Finalized) = Len(steps) /\ Len(steps) \in Nat
         /\ \A i \in 1..Len(steps) :
              /\ Alike(Finalized[i], steps[i])
              /\ IF i = open THEN Finalized[i].cat_after = alldata
                              ELSE Finalized[i].cat_after = steps[i].cat_after
<1>1. steps \in Seq(Records) /\ open \in Nat /\ alldata \in Catalog
  BY DEF TypeInv, LogOK, CatalogsOK
<1>2. CASE open = 0 \/ Len(steps) < open
  BY <1>1, <1>2 DEF Finalized, Alike
<1>3. CASE ~(open = 0 \/ Len(steps) < open)
  <2> DEFINE r == [steps[open] EXCEPT !.cat_after = alldata]
  <2>1. open \in 1..Len(steps) /\ steps[open] \in Records
    BY <1>1, <1>3
  <2>2. r \in Records /\ Alike(r, steps[open]) /\ r.cat_after = alldata
    BY <2>1, <1>1 DEF Records, Alike
  <2>3. Finalized = [steps EXCEPT ![open] = r]
    BY <1>3 DEF Finalized
  <2> HIDE DEF r
  <2>4. \A i \in 1..Len(steps) : Alike(steps[i], steps[i])
    BY DEF Alike
  <2> QED BY <1>1, <2>1, <2>2, <2>3, <2>4
<1> QED BY <1>2, <1>3

(* A step is logged: the older records replay as before, the open one has its *)
(* fingerprint, and the new one has none.                                     *)
LEMMA LoggedRecords ==
  ASSUME TypeInv, NEW s \in AnyStep, NEW kind \in {"tool", "native"}, NEW n, n = Len(steps) + 1
  PROVE  LET recs == Logged(s, kind)
         IN  /\ recs \in Seq(Records) /\ Len(recs) = n /\ n \in Nat /\ n - 1 = Len(steps) /\ n \in 1..n
             /\ recs[n].step = s /\ recs[n].image = frame /\ ~ recs[n].failed
             /\ recs[n].out = Pending /\ recs[n].cat_after = Pending
             /\ \A i \in 1..(n - 1) :
                  /\ Alike(recs[i], steps[i])
                  /\ IF i = open THEN recs[i].cat_after = alldata
                                  ELSE recs[i].cat_after = steps[i].cat_after
<1> DEFINE r == Record(s, kind)
<1>1. r \in Records /\ r.step = s /\ r.image = frame /\ ~ r.failed /\ r.out = Pending /\ r.cat_after = Pending
  BY DEF Record, Records, TypeInv, CatalogsOK
<1>2. Logged(s, kind) = Append(Finalized, r)
  BY DEF Logged
<1> HIDE DEF r
<1>3. /\ Finalized \in Seq(Records) /\ Len(Finalized) = n - 1 /\ Len(steps) = n - 1 /\ n - 1 \in Nat /\ n \in Nat
      /\ n \in 1..n /\ (n - 1) + 1 = n
  BY FinalizedRecords
<1>4. /\ Append(Finalized, r) \in Seq(Records) /\ Len(Append(Finalized, r)) = n
      /\ Append(Finalized, r)[n] = r
      /\ \A i \in 1..(n - 1) : Append(Finalized, r)[i] = Finalized[i]
  BY <1>1, <1>3
<1> QED BY <1>1, <1>2, <1>3, <1>4, FinalizedRecords

(* Filling in a record leaves the others, and of it what was done and to what. *)
LEMMA FilledRecords ==
  ASSUME NEW recs \in Seq(Records), NEW n \in 1..Len(recs), NEW ok \in BOOLEAN, NEW how, ok => how \in Outputs
  PROVE  LET new == Filled(recs, n, ok, how)
         IN  /\ new \in Seq(Records) /\ Len(new) = Len(recs)
             /\ \A i \in 1..Len(recs) : i # n => new[i] = recs[i]
             /\ new[n].step = recs[n].step /\ new[n].image = recs[n].image
             /\ new[n].cat_after = recs[n].cat_after
             /\ (new[n].failed <=> ~ ok) /\ new[n].out = IF ok THEN how ELSE Pending
<1> DEFINE r  == recs[n]
           r1 == [r EXCEPT !.ms = TRUE, !.failed = ~ ok, !.out = IF ok THEN how ELSE Pending]
<1>1. r \in Records
  OBVIOUS
<1>2. /\ r1 \in Records /\ r1.step = r.step /\ r1.image = r.image /\ r1.cat_after = r.cat_after
      /\ (r1.failed <=> ~ ok) /\ r1.out = IF ok THEN how ELSE Pending
  <2> HIDE DEF r
  <2> QED BY <1>1 DEF Records
<1>3. n \in DOMAIN recs
  OBVIOUS
<1>4. Filled(recs, n, ok, how) = [recs EXCEPT ![n] = r1]
  BY <1>3 DEF Filled
<1> HIDE DEF r1
<1> QED BY <1>2, <1>4

(* What the replay makes of a record is what its run made of the catalog. *)
LEMMA ReplayOfRun ==
  ASSUME NEW rec, NEW table, NEW ok \in BOOLEAN, NEW how, ok => how \in Outputs,
         rec.failed <=> ~ ok, rec.out = IF ok THEN how ELSE Pending,
         rec.step.op = "add" => table # Empty
  PROVE  ReplayStep(Going(table), rec) =
           Going(IF ok THEN Apply(rec.step, table, rec.image, RowsOf(table), how) ELSE table)
<1>1. Going(table).ok /\ Going(table).cat = table
  BY DEF Going
<1>2. CASE ok
  BY <1>1, <1>2, PendingAssumption DEF ReplayStep, Outputs
<1>3. CASE ~ ok
  BY <1>1, <1>3 DEF ReplayStep
<1> QED BY <1>2, <1>3

(* A log that begins like another replays like it up to there, and then its   *)
(* last record.                                                               *)
LEMMA ReplayOfMore ==
  ASSUME NEW table, NEW recs \in Seq(Records), NEW more \in Seq(Records), NEW n \in Nat, n # 0,
         Len(more) = n, n - 1 <= Len(recs), \A j \in 1..(n - 1) : Alike(more[j], recs[j])
  PROVE  /\ \A i \in 0..(n - 1) : ReplayTo(table, more, i) = ReplayTo(table, recs, i)
         /\ ReplayTo(table, more, n) = ReplayStep(ReplayTo(table, recs, n - 1), more[n])
<1>1. ASSUME NEW i \in 0..(n - 1) PROVE ReplayTo(table, more, i) = ReplayTo(table, recs, i)
  <2>1. /\ Len(recs) \in Nat /\ i \in Nat /\ i <= Len(more) /\ i <= Len(recs)
        /\ \A j \in 1..i : j \in 1..(n - 1)
    OBVIOUS
  <2>2. AlikeUpTo(more, recs, i)
    BY <2>1 DEF AlikeUpTo
  <2> QED BY <2>1, <2>2, ReplayAlike
<1>2. n \in 1..Len(more) /\ n - 1 \in 0..(n - 1)
  OBVIOUS
<1>3. ReplayTo(table, more, n) = ReplayStep(ReplayTo(table, more, n - 1), more[n])
  BY <1>2, ReplayEquations
<1> QED BY <1>1, <1>2, <1>3

LEMMA ReplayInit == Init => ReplayInv /\ FaithInv
<1> SUFFICES ASSUME Init PROVE ReplayInv /\ FaithInv
  OBVIOUS
<1>1. steps = <<>> /\ open = 0 /\ ~ cur.busy /\ origin = Empty /\ alldata = Empty
  BY DEF Init, NoJob
<1>2. steps \in Seq(Records) /\ Len(steps) = 0
  BY <1>1
<1>3. ReplayTo(Going(origin), steps, 0) = Going(origin)
  BY <1>2, ReplayEquations
<1> QED BY <1>1, <1>2, <1>3 DEF ReplayInv, FaithInv, Faithful

(* A step is logged while the slot is free. *)
LEMMA LoggedReplay ==
  ASSUME TypeInv, ReplayInv, ~ cur.busy, ~ moved, NEW s \in AnyStep, NEW kind \in {"tool", "native"},
         NEW n, n = Len(steps) + 1, NEW more \in Seq(Records), Len(more) = n,
         \A i \in 1..(n - 1) : Alike(more[i], Logged(s, kind)[i])
  PROVE  /\ \A i \in 0..(n - 1) : ReplayTo(Going(origin), more, i) = ReplayTo(Going(origin), steps, i)
         /\ ReplayTo(Going(origin), more, n - 1) = Going(alldata)
         /\ ReplayTo(Going(origin), more, n) = ReplayStep(Going(alldata), more[n])
<1> DEFINE recs == Logged(s, kind)
<1>1. /\ n \in Nat /\ n # 0 /\ n - 1 = Len(steps) /\ n - 1 <= Len(steps) /\ n - 1 \in 0..(n - 1)
      /\ steps \in Seq(Records)
  BY DEF TypeInv, LogOK
<1>2. \A i \in 1..(n - 1) : Alike(recs[i], steps[i])
  BY LoggedRecords
<1>3. \A i \in 1..(n - 1) : Alike(more[i], steps[i])
  BY <1>2 DEF Alike
<1>4. PICK from, now : from = Going(origin) /\ now = Going(alldata)
  OBVIOUS
<1>5. ReplayTo(from, steps, n - 1) = now
  BY <1>1, <1>4 DEF ReplayInv
<1>6. /\ \A i \in 0..(n - 1) : ReplayTo(from, more, i) = ReplayTo(from, steps, i)
      /\ ReplayTo(from, more, n) = ReplayStep(ReplayTo(from, steps, n - 1), more[n])
  BY <1>1, <1>3, ReplayOfMore
<1> QED BY <1>1, <1>4, <1>5, <1>6

LEMMA ReplayNext ==
  ASSUME ResetsWhenIdle, StepsWait, ClearsWait, JobsStart, TypeInv, RecordInv, ReplayInv, [Next]_vars
  PROVE  ReplayInv'
<1>I. /\ steps \in Seq(Records) /\ Len(steps) \in Nat /\ open \in {0, Len(steps)}
      /\ CatalogsOK /\ SlotOK /\ JobLogged
  BY DEF TypeInv, LogOK, RecordInv, ReplayInv
<1>S. \A st \in SetSteps \cup AddSteps : st \in AnyStep
  BY DEF AnyStep
<1>1. ASSUME NEW st \in SetSteps \cup AddSteps, StartJob(st) \/ StartFails(st) PROVE ReplayInv'
  <2>1. /\ ~ cur.busy /\ steps' = Logged(st, "tool") /\ cur' = Job(st) /\ open' = Len(steps) + 1
        /\ UNCHANGED <<alldata, origin, moved>>
    BY <1>1 DEF StartJob, StartFails, JobsStart, Opens, catalogs
  <2>2. PICK n, recs : n = Len(steps) + 1 /\ recs = Logged(st, "tool")
    OBVIOUS
  <2>3. /\ recs \in Seq(Records) /\ Len(recs) = n /\ n \in Nat
        /\ recs[n].step = st /\ recs[n].image = frame /\ ~ recs[n].failed /\ recs[n].out = Pending
    BY <2>2, <1>S, LoggedRecords
  <2>4. \A i \in 1..(n - 1) : Alike(recs[i], Logged(st, "tool")[i])
    BY <2>2 DEF Alike
  <2>5. ~ moved => ReplayTo(Going(origin), recs, n - 1) = Going(alldata)
    BY <2>1, <2>2, <2>3, <2>4, <1>S, LoggedReplay
  <2>6. /\ Job(st).busy /\ Job(st).seq = n /\ Job(st).step = st /\ Job(st).image = frame
        /\ Job(st).base = RowsOf(alldata)
    BY <2>2 DEF Job
  <2>7. steps' = recs /\ open' = n
    BY <2>1, <2>2
  <2>8. st.op = "add" => alldata # Empty
    BY <1>1 DEF StartJob, StartFails, Needed, SetSteps
  <2> QED BY <2>1, <2>3, <2>5, <2>6, <2>7, <2>8 DEF ReplayInv, JobsRecord
<1>2. ASSUME NEW st \in SetSteps \cup AddSteps, SyncStep(st) PROVE ReplayInv'
  <2>1. PICK how \in Outputs \cup {"error"} :
          /\ steps' = Filled(Logged(st, "tool"), Len(steps) + 1, how # "error", how)
          /\ alldata' = IF how # "error" THEN Apply(st, alldata, frame, RowsOf(alldata), how) ELSE alldata
          /\ open' = Len(steps) + 1
    BY <1>2 DEF SyncStep, Opens
  <2>2. ~ cur.busy /\ UNCHANGED <<cur, origin, moved>>
    BY <1>2 DEF SyncStep, May, StepsWait
  <2> DEFINE ok == how # "error"
  <2>3. PICK n, recs : n = Len(steps) + 1 /\ recs = Logged(st, "tool")
    OBVIOUS
  <2>4. ok \in BOOLEAN /\ (ok => how \in Outputs) /\ steps' = Filled(recs, n, ok, how)
        /\ alldata' = IF ok THEN Apply(st, alldata, frame, RowsOf(alldata), how) ELSE alldata
    BY <2>1, <2>3
  <2> HIDE DEF ok
  <2>5. /\ recs \in Seq(Records) /\ Len(recs) = n /\ n \in Nat /\ n \in 1..n
        /\ recs[n].step = st /\ recs[n].image = frame
    BY <2>3, <1>S, LoggedRecords
  <2>6. PICK more : more = Filled(recs, n, ok, how)
    OBVIOUS
  <2>7. /\ more \in Seq(Records) /\ Len(more) = n /\ \A i \in 1..n : i # n => more[i] = recs[i]
        /\ more[n].step = st /\ more[n].image = frame
        /\ (more[n].failed <=> ~ ok) /\ more[n].out = IF ok THEN how ELSE Pending
    BY <2>4, <2>5, <2>6, FilledRecords
  <2>8. \A i \in 1..(n - 1) : i \in 1..n /\ i # n
    BY <2>5
  <2>9. \A i \in 1..(n - 1) : Alike(more[i], Logged(st, "tool")[i])
    BY <2>3, <2>7, <2>8 DEF Alike
  <2>10. ~ moved => ReplayTo(Going(origin), more, n) = ReplayStep(Going(alldata), more[n])
    BY <2>2, <2>3, <2>7, <2>9, <1>S, LoggedReplay
  <2>14. st.op = "add" => alldata # Empty
    BY <1>2 DEF SyncStep, Needed, SetSteps
  <2>11. ReplayStep(Going(alldata), more[n]) =
           Going(IF ok THEN Apply(more[n].step, alldata, more[n].image, RowsOf(alldata), how) ELSE alldata)
    BY <2>4, <2>7, <2>14, ReplayOfRun
  <2>12. ReplayStep(Going(alldata), more[n]) = Going(alldata')
    BY <2>4, <2>7, <2>11
  <2>13. steps' = more /\ open' = n
    BY <2>1, <2>3, <2>4, <2>6
  <2> QED BY <2>2, <2>7, <2>10, <2>12, <2>13 DEF ReplayInv
<1>3. CASE Cancel \/ ProcessEnds
  <2>1. UNCHANGED <<alldata, steps, open, moved, origin>>
    BY <1>3 DEF Cancel, ProcessEnds, catalogs, log, history
  <2>2. /\ cur'.busy = cur.busy /\ cur'.seq = cur.seq /\ cur'.step = cur.step /\ cur'.image = cur.image
        /\ cur'.base = cur.base
    BY <1>3, <1>I DEF Cancel, ProcessEnds, SlotOK, Jobs
  <2> QED BY <2>1, <2>2 DEF ReplayInv, JobsRecord
<1>4. CASE Deliver
  <2>1. /\ cur.busy /\ ~ cur'.busy /\ UNCHANGED <<open, moved, origin>>
        /\ steps' = Filled(steps, cur.seq, Succeeded, cur.process)
        /\ alldata' = IF Succeeded THEN Apply(cur.step, alldata, cur.image, cur.base, cur.process) ELSE alldata
    BY <1>4, NoJobType DEF Deliver
  <2> DEFINE ok == Succeeded
  <2>2. PICK n, how : n = cur.seq /\ how = cur.process
    OBVIOUS
  <2>3. /\ n \in 1..Len(steps) /\ n \in Nat /\ n # 0 /\ n - 1 <= Len(steps)
        /\ ok \in BOOLEAN /\ (ok => how \in Outputs)
    <3>1. n \in 1..Len(steps)
      BY <2>1, <2>2, <1>I DEF JobLogged
    <3>2. ok \in BOOLEAN /\ (ok => how \in Outputs)
      BY <2>2, <1>I DEF SlotOK, Jobs, Succeeded
    <3> QED BY <3>1, <3>2, <1>I
  <2> HIDE DEF ok
  <2>4. PICK more : more = Filled(steps, n, ok, how)
    OBVIOUS
  <2>5. /\ more \in Seq(Records) /\ Len(more) = Len(steps)
        /\ \A i \in 1..Len(steps) : i # n => more[i] = steps[i]
        /\ more[n].step = steps[n].step /\ more[n].image = steps[n].image
        /\ (more[n].failed <=> ~ ok) /\ more[n].out = IF ok THEN how ELSE Pending
    BY <2>3, <2>4, <1>I, FilledRecords
  <2>6. ASSUME ~ moved PROVE ReplayTo(Going(origin), more, Len(more)) = Going(alldata')
    <3>1. /\ n = Len(steps) /\ cur.base = RowsOf(alldata) /\ JobsRecord(steps[n])
          /\ ReplayTo(Going(origin), steps, n - 1) = Going(alldata)
          /\ cur.step.op = "add" => alldata # Empty
      BY <2>1, <2>2, <2>6 DEF ReplayInv
    <3>2. \A i \in 1..(n - 1) : i \in 1..Len(steps) /\ i # n
      BY <2>3, <3>1
    <3>3. \A i \in 1..(n - 1) : Alike(more[i], steps[i])
      BY <2>5, <3>2 DEF Alike
    <3>4. ReplayTo(Going(origin), more, n) = ReplayStep(Going(alldata), more[n])
      <4>1. PICK from, now : from = Going(origin) /\ now = Going(alldata)
        OBVIOUS
      <4>2. ReplayTo(from, more, n) = ReplayStep(ReplayTo(from, steps, n - 1), more[n])
        BY <2>3, <2>5, <3>1, <3>3, <1>I, ReplayOfMore
      <4> QED BY <4>1, <4>2, <3>1
    <3>6. more[n].step = cur.step /\ more[n].image = cur.image
      BY <2>5, <3>1 DEF JobsRecord
    <3>5. ReplayStep(Going(alldata), more[n]) =
            Going(IF ok THEN Apply(more[n].step, alldata, more[n].image, RowsOf(alldata), how) ELSE alldata)
      BY <2>3, <2>5, <3>1, <3>6, ReplayOfRun
    <3> QED BY <2>1, <2>2, <2>5, <3>1, <3>4, <3>5, <3>6 DEF ok
  <2>7. steps' = more
    BY <2>1, <2>2, <2>4 DEF ok
  <2> QED BY <2>1, <2>5, <2>6, <2>7, <1>I DEF ReplayInv
<1>5. CASE Clear
  <2>1. /\ ~ cur.busy /\ steps' = Logged(ClearStep, "native") /\ open' = Len(steps) + 1 /\ alldata' = Empty
        /\ UNCHANGED <<cur, moved, origin>>
    BY <1>5 DEF Clear, May, ClearsWait, Opens
  <2>2. PICK n, recs : n = Len(steps) + 1 /\ recs = Logged(ClearStep, "native")
    OBVIOUS
  <2>3. ClearStep \in AnyStep /\ ClearStep.op = "clear"
    BY DEF AnyStep, ClearStep
  <2>4. /\ recs \in Seq(Records) /\ Len(recs) = n /\ n \in Nat
        /\ recs[n].step = ClearStep /\ ~ recs[n].failed
    BY <2>2, <2>3, LoggedRecords
  <2>5. \A i \in 1..(n - 1) : Alike(recs[i], Logged(ClearStep, "native")[i])
    BY <2>2 DEF Alike
  <2>6. ~ moved => ReplayTo(Going(origin), recs, n) = ReplayStep(Going(alldata), recs[n])
    BY <2>1, <2>2, <2>3, <2>4, <2>5, LoggedReplay
  <2>7. ReplayStep(Going(alldata), recs[n]) = Going(Empty)
    BY <2>3, <2>4 DEF ReplayStep, Apply, Going
  <2>8. steps' = recs /\ open' = n
    BY <2>1, <2>2
  <2> QED BY <2>1, <2>4, <2>6, <2>7, <2>8 DEF ReplayInv
<1>6. CASE \E f \in Frames : SwitchFrame(f)
  BY <1>6 DEF SwitchFrame, log, ReplayInv
<1>7. CASE Reset
  <2>1. ~ cur.busy /\ cur' = cur /\ steps' = <<>> /\ open' = 0 /\ origin' = alldata /\ alldata' = alldata
    BY <1>7 DEF Reset, May, ResetsWhenIdle, catalogs
  <2>2. PICK none : none = <<>>
    OBVIOUS
  <2>3. none \in Seq(Records) /\ Len(none) = 0
    BY <2>2
  <2>4. ReplayTo(Going(alldata), none, 0) = Going(alldata)
    BY <2>3, ReplayEquations
  <2> QED BY <2>1, <2>2, <2>3, <2>4 DEF ReplayInv
<1>8. CASE Export
  <2>1. steps' = Finalized /\ open' = 0 /\ UNCHANGED <<cur, alldata, origin, moved>>
    BY <1>8 DEF Export, catalogs, history
  <2>2. PICK recs : recs = Finalized
    OBVIOUS
  <2>3. recs \in Seq(Records) /\ Len(recs) = Len(steps) /\ \A i \in 1..Len(steps) : Alike(recs[i], steps[i])
    BY <2>2, FinalizedRecords
  <2>4. ASSUME NEW i \in 0..Len(steps) PROVE ReplayTo(Going(origin), recs, i) = ReplayTo(Going(origin), steps, i)
    <3>1. i \in Nat /\ i <= Len(recs) /\ i <= Len(steps) /\ AlikeUpTo(recs, steps, i)
      BY <2>3, <1>I DEF AlikeUpTo
    <3> QED BY <2>3, <3>1, <1>I, ReplayAlike
  <2>5. Len(steps) \in 0..Len(steps) /\ (cur.busy => cur.seq - 1 \in 0..Len(steps) /\ cur.seq \in 1..Len(steps))
    BY <1>I DEF JobLogged
  <2>6. cur.busy /\ JobsRecord(steps[cur.seq]) => JobsRecord(recs[cur.seq])
    BY <2>3, <2>5 DEF JobsRecord, Alike
  <2>7. steps' = recs
    BY <2>1, <2>2
  <2> QED BY <2>1, <2>3, <2>4, <2>5, <2>6, <2>7 DEF ReplayInv, JobsRecord
<1>9. CASE UNCHANGED vars
  BY <1>9 DEF vars, ReplayInv, JobsRecord
<1> QED BY <1>1, <1>2, <1>3, <1>4, <1>5, <1>6, <1>7, <1>8, <1>9 DEF Next

(* Logging a step takes the fingerprint of the one before it, and replays to  *)
(* it what it did.                                                            *)
LEMMA LoggedFaithful ==
  ASSUME TypeInv, RecordInv, ReplayInv, FaithInv, ~ cur.busy, ~ moved,
         NEW s \in AnyStep, NEW kind \in {"tool", "native"},
         NEW n, n = Len(steps) + 1, NEW more \in Seq(Records), Len(more) = n, more[n].cat_after = Pending,
         \A i \in 1..(n - 1) : Alike(more[i], Logged(s, kind)[i])
                              /\ more[i].cat_after = Logged(s, kind)[i].cat_after,
         NEW ends, \A i \in 1..(n - 1) : ends[i] = truth[i]
  PROVE  Faithful(more, ends, Going(origin))
<1>0. /\ n \in Nat /\ n - 1 = Len(steps) /\ n - 1 \in 0..(n - 1) /\ open \in {0, n - 1}
  BY DEF TypeInv, LogOK, ReplayInv
<1>1. /\ n \in Nat /\ n - 1 = Len(steps) /\ n - 1 \in 0..(n - 1) /\ open \in {0, n - 1}
      /\ ReplayTo(Going(origin), steps, n - 1) = Going(alldata)
  BY <1>0 DEF ReplayInv
<1>2. \A i \in 0..(n - 1) : ReplayTo(Going(origin), more, i) = ReplayTo(Going(origin), steps, i)
  BY LoggedReplay
<1>3. ASSUME NEW i \in 1..n, ends[i] = "ok", more[i].cat_after # Pending
      PROVE  Going(more[i].cat_after) = ReplayTo(Going(origin), more, i)
  <2>1. i \in 1..(n - 1) /\ i \in 0..(n - 1) /\ i # 0
    <3>1. i # n /\ n \in Nat
      BY <1>1, <1>3
    <3> QED BY ONLY <3>1, i \in 1..n
  <2>2. IF i = open THEN more[i].cat_after = alldata ELSE more[i].cat_after = steps[i].cat_after
    BY <2>1, LoggedRecords
  <2>3. CASE i = open
    BY <1>1, <1>2, <2>1, <2>2, <2>3
  <2>4. CASE i # open
    <3>1. truth[i] = "ok" /\ steps[i].cat_after # Pending /\ i \in 1..Len(steps)
      BY <1>1, <1>3, <2>1, <2>2, <2>4
    <3>2. Going(steps[i].cat_after) = ReplayTo(Going(origin), steps, i)
      BY <3>1 DEF FaithInv, Faithful
    <3> QED BY <1>2, <2>1, <2>2, <2>4, <3>2
  <2> QED BY <2>3, <2>4
<1> QED BY <1>3 DEF Faithful

LEMMA FaithNext ==
  ASSUME ResetsWhenIdle, StepsWait, ClearsWait, ExportsWait, JobsStart,
         TypeInv, RecordInv, ReplayInv, FaithInv, [Next]_vars
  PROVE  FaithInv'
<1>I. /\ steps \in Seq(Records) /\ Len(steps) \in Nat /\ open \in {0, Len(steps)}
      /\ SlotOK /\ JobLogged /\ Len(truth) = Len(steps)
      /\ truth \in Seq({"running", "ok", "failed", "unstarted"})
  BY DEF TypeInv, LogOK, RecordInv, ReplayInv
<1>S. \A st \in SetSteps \cup AddSteps : st \in AnyStep
  BY DEF AnyStep
<1>A. ASSUME NEW t, NEW i \in 1..Len(steps) PROVE Append(truth, t)[i] = truth[i]
  BY <1>I
<1>1. ASSUME NEW st \in SetSteps \cup AddSteps, StartJob(st) \/ StartFails(st) PROVE FaithInv'
  <2>1. /\ ~ cur.busy /\ steps' = Logged(st, "tool") /\ cur' = Job(st) /\ truth' = Append(truth, "running")
        /\ UNCHANGED <<origin, moved>>
    BY <1>1 DEF StartJob, StartFails, JobsStart
  <2>2. PICK n, recs, ends :
          n = Len(steps) + 1 /\ recs = Logged(st, "tool") /\ ends = Append(truth, "running")
    OBVIOUS
  <2>3. /\ recs \in Seq(Records) /\ Len(recs) = n /\ recs[n].cat_after = Pending /\ n - 1 = Len(steps)
    BY <2>2, <1>S, LoggedRecords
  <2>4. \A i \in 1..(n - 1) : Alike(recs[i], Logged(st, "tool")[i])
                             /\ recs[i].cat_after = Logged(st, "tool")[i].cat_after
    BY <2>2 DEF Alike
  <2>5. \A i \in 1..(n - 1) : ends[i] = truth[i]
    BY <2>2, <2>3, <1>A
  <2>6. ~ moved => Faithful(recs, ends, Going(origin))
    BY <2>1, <2>2, <2>3, <2>4, <2>5, <1>S, LoggedFaithful
  <2>7. Job(st).seq = n /\ steps' = recs /\ truth' = ends
    BY <2>1, <2>2 DEF Job
  <2> QED BY <2>1, <2>3, <2>6, <2>7 DEF FaithInv
<1>2. ASSUME NEW st \in SetSteps \cup AddSteps, SyncStep(st) PROVE FaithInv'
  <2>1. PICK how \in Outputs \cup {"error"} :
          /\ steps' = Filled(Logged(st, "tool"), Len(steps) + 1, how # "error", how)
          /\ truth' = Append(truth, IF how # "error" THEN "ok" ELSE "failed")
    BY <1>2 DEF SyncStep
  <2>2. ~ cur.busy /\ UNCHANGED <<cur, origin, moved>>
    BY <1>2 DEF SyncStep, May, StepsWait
  <2> DEFINE ok == how # "error"
             t  == IF ok THEN "ok" ELSE "failed"
  <2>3. PICK n, recs, ends : n = Len(steps) + 1 /\ recs = Logged(st, "tool") /\ ends = Append(truth, t)
    OBVIOUS
  <2>4. ok \in BOOLEAN /\ (ok => how \in Outputs) /\ steps' = Filled(recs, n, ok, how) /\ truth' = ends
    BY <2>1, <2>3
  <2> HIDE DEF ok, t
  <2>5. /\ recs \in Seq(Records) /\ Len(recs) = n /\ n \in Nat /\ n \in 1..n /\ n - 1 = Len(steps)
        /\ recs[n].cat_after = Pending
    BY <2>3, <1>S, LoggedRecords
  <2>6. PICK more : more = Filled(recs, n, ok, how)
    OBVIOUS
  <2>7. /\ more \in Seq(Records) /\ Len(more) = n /\ \A i \in 1..n : i # n => more[i] = recs[i]
        /\ more[n].cat_after = Pending
    BY <2>4, <2>5, <2>6, FilledRecords
  <2>8. \A i \in 1..(n - 1) : i \in 1..n /\ i # n
    BY <2>5
  <2>9. \A i \in 1..(n - 1) : Alike(more[i], Logged(st, "tool")[i])
                             /\ more[i].cat_after = Logged(st, "tool")[i].cat_after
    BY <2>3, <2>7, <2>8 DEF Alike
  <2>10. \A i \in 1..(n - 1) : ends[i] = truth[i]
    BY <2>3, <2>5, <1>A
  <2>11. ~ moved => Faithful(more, ends, Going(origin))
    BY <2>2, <2>3, <2>7, <2>9, <2>10, <1>S, LoggedFaithful
  <2> QED BY <2>2, <2>4, <2>6, <2>11 DEF FaithInv
<1>3. CASE Cancel \/ ProcessEnds
  <2>1. UNCHANGED <<steps, truth, moved, origin>>
    BY <1>3 DEF Cancel, ProcessEnds, log, history
  <2>2. cur'.busy = cur.busy /\ cur'.seq = cur.seq
    BY <1>3, <1>I DEF Cancel, ProcessEnds, SlotOK, Jobs
  <2> QED BY <2>1, <2>2 DEF FaithInv
<1>4. CASE Deliver
  <2> DEFINE ok == Succeeded
  <2>1. /\ cur.busy /\ ~ cur'.busy /\ UNCHANGED <<moved, origin>>
        /\ steps' = Filled(steps, cur.seq, ok, cur.process)
        /\ truth' = [truth EXCEPT ![cur.seq] = IF ok THEN "ok" ELSE "failed"]
    BY <1>4, NoJobType DEF Deliver, RecordInv
  <2>2. PICK n, how : n = cur.seq /\ how = cur.process
    OBVIOUS
  <2>3. n \in 1..Len(steps) /\ n \in Nat /\ n # 0 /\ n - 1 <= Len(steps)
    BY <2>1, <2>2, <1>I DEF JobLogged
  <2>4. ok \in BOOLEAN /\ (ok => how \in Outputs)
    BY <2>2, <1>I DEF SlotOK, Jobs, Succeeded
  <2> HIDE DEF ok
  <2>5. PICK more, ends : more = Filled(steps, n, ok, how)
                          /\ ends = [truth EXCEPT ![n] = IF ok THEN "ok" ELSE "failed"]
    OBVIOUS
  <2>6. /\ more \in Seq(Records) /\ Len(more) = Len(steps)
        /\ \A i \in 1..Len(steps) : i # n => more[i] = steps[i]
        /\ more[n].cat_after = steps[n].cat_after
    BY <2>3, <2>4, <2>5, <1>I, FilledRecords
  <2>7. \A i \in 1..Len(steps) : i # n => ends[i] = truth[i]
    BY <2>5, <1>I
  <2>8. steps[n].cat_after = Pending
    BY <2>1, <2>2 DEF FaithInv
  <2>9. ASSUME ~ moved PROVE Faithful(more, ends, Going(origin))
    <3>1. n = Len(steps)
      BY <2>1, <2>2, <2>9 DEF ReplayInv
    <3>2. \A i \in 1..(n - 1) : i \in 1..Len(steps) /\ i # n
      BY <2>3, <3>1
    <3>3. \A i \in 1..(n - 1) : Alike(more[i], steps[i])
      BY <2>6, <3>2 DEF Alike
    <3>4. \A i \in 0..(n - 1) : ReplayTo(Going(origin), more, i) = ReplayTo(Going(origin), steps, i)
      BY <2>3, <2>6, <3>1, <3>3, <1>I, ReplayOfMore
    <3>5. ASSUME NEW i \in 1..Len(more), ends[i] = "ok", more[i].cat_after # Pending
          PROVE  Going(more[i].cat_after) = ReplayTo(Going(origin), more, i)
      <4>1. i # n /\ i \in 1..Len(steps)
        BY <2>6, <2>8, <3>5
      <4>2. i \in 0..(n - 1)
        BY <2>3, <3>1, <4>1
      <4>3. Going(steps[i].cat_after) = ReplayTo(Going(origin), steps, i)
        BY <2>6, <2>7, <2>9, <3>5, <4>1 DEF FaithInv, Faithful
      <4> QED BY <2>6, <3>4, <4>1, <4>2, <4>3
    <3> QED BY <3>5 DEF Faithful
  <2>10. steps' = more /\ truth' = ends
    BY <2>1, <2>2, <2>5
  <2> QED BY <2>1, <2>9, <2>10 DEF FaithInv
<1>5. CASE Clear
  <2>1. /\ ~ cur.busy /\ steps' = Logged(ClearStep, "native") /\ truth' = Append(truth, "ok")
        /\ UNCHANGED <<cur, moved, origin>>
    BY <1>5 DEF Clear, May, ClearsWait
  <2>2. PICK n, recs, ends :
          n = Len(steps) + 1 /\ recs = Logged(ClearStep, "native") /\ ends = Append(truth, "ok")
    OBVIOUS
  <2>3. ClearStep \in AnyStep
    BY DEF AnyStep
  <2>4. recs \in Seq(Records) /\ Len(recs) = n /\ recs[n].cat_after = Pending /\ n - 1 = Len(steps)
    BY <2>2, <2>3, LoggedRecords
  <2>5. \A i \in 1..(n - 1) : Alike(recs[i], Logged(ClearStep, "native")[i])
                             /\ recs[i].cat_after = Logged(ClearStep, "native")[i].cat_after
    BY <2>2 DEF Alike
  <2>6. \A i \in 1..(n - 1) : ends[i] = truth[i]
    BY <2>2, <2>4, <1>A
  <2>7. ~ moved => Faithful(recs, ends, Going(origin))
    BY <2>1, <2>2, <2>3, <2>4, <2>5, <2>6, LoggedFaithful
  <2> QED BY <2>1, <2>2, <2>7 DEF FaithInv
<1>6. CASE \E f \in Frames : SwitchFrame(f)
  BY <1>6 DEF SwitchFrame, log, FaithInv
<1>7. CASE Reset
  <2>1. ~ cur.busy /\ cur' = cur /\ steps' = <<>>
    BY <1>7 DEF Reset, May, ResetsWhenIdle
  <2> QED BY <2>1 DEF FaithInv, Faithful
<1>8. CASE Export
  <2>1. ~ cur.busy /\ steps' = Finalized /\ UNCHANGED <<cur, truth, origin, moved>>
    BY <1>8 DEF Export, May, ExportsWait, history
  <2>2. PICK recs : recs = Finalized
    OBVIOUS
  <2>3. /\ recs \in Seq(Records) /\ Len(recs) = Len(steps) /\ \A i \in 1..Len(steps) : Alike(recs[i], steps[i])
        /\ \A i \in 1..Len(steps) : IF i = open THEN recs[i].cat_after = alldata
                                               ELSE recs[i].cat_after = steps[i].cat_after
    BY <2>2, FinalizedRecords
  <2>4. ASSUME NEW i \in 1..Len(steps) PROVE ReplayTo(Going(origin), recs, i) = ReplayTo(Going(origin), steps, i)
    <3>1. i \in Nat /\ i <= Len(recs) /\ i <= Len(steps) /\ AlikeUpTo(recs, steps, i)
      BY <2>3, <1>I DEF AlikeUpTo
    <3> QED BY <2>3, <3>1, <1>I, ReplayAlike
  <2>5. ASSUME ~ moved PROVE Faithful(recs, truth, Going(origin))
    <3>1. ReplayTo(Going(origin), steps, Len(steps)) = Going(alldata)
      BY <2>1, <2>5 DEF ReplayInv
    <3>2. ASSUME NEW i \in 1..Len(recs), truth[i] = "ok", recs[i].cat_after # Pending
          PROVE  Going(recs[i].cat_after) = ReplayTo(Going(origin), recs, i)
      <4>1. i \in 1..Len(steps) /\ i # 0
        BY <2>3, <1>I
      <4>2. CASE i = open
        BY <2>3, <2>4, <3>1, <4>1, <4>2, <1>I
      <4>3. CASE i # open
        <5>1. Going(steps[i].cat_after) = ReplayTo(Going(origin), steps, i)
          BY <2>3, <2>5, <3>2, <4>1, <4>3 DEF FaithInv, Faithful
        <5> QED BY <2>3, <2>4, <4>1, <4>3, <5>1
      <4> QED BY <4>2, <4>3
    <3> QED BY <3>2 DEF Faithful
  <2> QED BY <2>1, <2>2, <2>5 DEF FaithInv
<1>9. CASE UNCHANGED vars
  BY <1>9 DEF vars, FaithInv
<1> QED BY <1>1, <1>2, <1>3, <1>4, <1>5, <1>6, <1>7, <1>8, <1>9 DEF Next

(* A record whose run did not fail either replaces the catalog, whatever it   *)
(* was, or lets the replay go on, if it adds nothing.                         *)
LEMMA ReplayReplaces ==
  ASSUME NEW st, NEW su, st.ok, su.ok, NEW rec \in Records, Replaces(rec)
  PROVE  ReplayStep(st, rec) = ReplayStep(su, rec)
<1>1. ~ rec.failed /\ rec.step.op # "add"
  BY DEF Replaces
<1>2. CASE rec.step.op = "clear"
  BY <1>1, <1>2 DEF ReplayStep, Apply
<1>3. CASE rec.step.op = "set" /\ rec.out = "table"
  BY <1>1, <1>3 DEF ReplayStep, Apply, LoadTSV
<1> QED BY <1>2, <1>3 DEF Replaces

LEMMA ReplayStaysOk ==
  ASSUME NEW st, st.ok, NEW rec \in Records, rec.step.op = "add" => rec.failed
  PROVE  ReplayStep(st, rec).ok
BY DEF ReplayStep, Going

(* A log that does not build on the catalog before it replays to the same     *)
(* from no catalog as from that one.                                          *)
LEMMA ReplayFromEither ==
  ASSUME NEW recs \in Seq(Records), SelfContained(recs)
  PROVE  ReplayFrom(Going(Empty), recs) = ReplayFrom(Going(origin), recs)
<1>1. CASE origin = Empty
  BY <1>1
<1>2. CASE origin # Empty
  <2>9. PICK none, from : none = Going(Empty) /\ from = Going(origin)
    OBVIOUS
  <2>1. PICK j \in 1..Len(recs) :
          /\ Replaces(recs[j])
          /\ \A i \in 1..(j - 1) : recs[i].step.op = "add" => recs[i].failed
    BY <1>2 DEF SelfContained
  <2>2. PICK n \in Nat : n = Len(recs)
    OBVIOUS
  <2> DEFINE a(i) == ReplayTo(none, recs, i)
             b(i) == ReplayTo(from, recs, i)
  <2>3. /\ a(0) = none /\ b(0) = from
        /\ ReplayFrom(none, recs) = a(n) /\ ReplayFrom(from, recs) = b(n)
        /\ \A i \in 1..n : a(i) = ReplayStep(a(i - 1), recs[i]) /\ b(i) = ReplayStep(b(i - 1), recs[i])
    <3>1. ASSUME NEW c
          PROVE  /\ ReplayTo(c, recs, 0) = c /\ ReplayFrom(c, recs) = ReplayTo(c, recs, n)
                 /\ \A i \in 1..n : ReplayTo(c, recs, i) = ReplayStep(ReplayTo(c, recs, i - 1), recs[i])
      <4>1. /\ ReplayTo(c, recs, 0) = c /\ ReplayFrom(c, recs) = ReplayTo(c, recs, Len(recs))
            /\ \A i \in 1..Len(recs) :
                 ReplayTo(c, recs, i) = ReplayStep(ReplayTo(c, recs, i - 1), recs[i])
        BY ReplayEquations
      <4> QED BY <2>2, <4>1
    <3> QED BY <3>1
  <2>4. \A i \in 1..n : recs[i] \in Records
    BY <2>2
  <2> HIDE DEF a, b
  <2> DEFINE S == {k \in Nat : /\ k < j => a(k).ok /\ b(k).ok
                               /\ k >= j /\ k <= n => a(k) = b(k)}
  <2>5. 0 \in S
    BY <2>1, <2>2, <2>3, <2>9 DEF Going
  <2>6. ASSUME NEW k \in Nat, k \in S PROVE k + 1 \in S
    <3>1. CASE k + 1 < j
      <4>1. k + 1 \in 1..n /\ k + 1 \in 1..(j - 1) /\ (k + 1) - 1 = k /\ k < j
        BY <3>1, <2>1, <2>2
      <4>2. a(k + 1) = ReplayStep(a(k), recs[k + 1]) /\ b(k + 1) = ReplayStep(b(k), recs[k + 1])
        BY <4>1, <2>3
      <4>3. a(k + 1).ok /\ b(k + 1).ok
        BY <4>1, <4>2, <2>1, <2>4, <2>6, ReplayStaysOk
      <4> QED BY <3>1, <4>3
    <3>2. CASE k + 1 = j
      <4>1. k + 1 \in 1..n /\ (k + 1) - 1 = k /\ k < j
        BY <3>2, <2>1, <2>2
      <4>2. a(k + 1) = ReplayStep(a(k), recs[k + 1]) /\ b(k + 1) = ReplayStep(b(k), recs[k + 1])
        BY <4>1, <2>3
      <4>3. a(k + 1) = b(k + 1)
        BY <3>2, <4>1, <4>2, <2>1, <2>4, <2>6, ReplayReplaces
      <4> QED BY <3>2, <4>3
    <3>3. CASE k + 1 > j /\ k + 1 <= n
      <4>1. k + 1 \in 1..n /\ (k + 1) - 1 = k /\ k >= j /\ k <= n
        BY <3>3, <2>1, <2>2
      <4>2. a(k + 1) = ReplayStep(a(k), recs[k + 1]) /\ b(k + 1) = ReplayStep(b(k), recs[k + 1])
        BY <4>1, <2>3
      <4>3. a(k) = b(k)
        BY <4>1, <2>6
      <4> QED BY <3>3, <4>2, <4>3
    <3>4. CASE k + 1 > j /\ ~(k + 1 <= n)
      BY <3>4
    <3> QED BY <3>1, <3>2, <3>3, <3>4, <2>1
  <2>7. n \in S
    <3> HIDE DEF S
    <3> QED BY <2>5, <2>6, NatSetInduction
  <2>8. a(n) = b(n)
    BY <2>1, <2>2, <2>7
  <2> QED BY <2>3, <2>8, <2>9
<1> QED BY <1>1, <1>2

(* When no job runs, replaying the recorded steps from an empty directory     *)
(* leads to the catalog on display, for any number of steps, detectors,       *)
(* columns and frames, if the log does not build on a catalog made before it, *)
(* as long as nothing is recorded, cleared or reset while a job runs and a    *)
(* job whose step was recorded starts.                                        *)
THEOREM LogAccountsForCatalog ==
  ASSUME ResetsWhenIdle, StepsWait, ClearsWait, JobsStart
  PROVE  Spec => []AccountsForCatalog
<1>1. ASSUME TypeInv, ReplayInv PROVE AccountsForCatalog
  <2> SUFFICES ASSUME ~ cur.busy, ~ moved, SelfContained(steps) PROVE Replay(steps) = Going(alldata)
    BY DEF AccountsForCatalog
  <2>1. steps \in Seq(Records)
    BY <1>1 DEF TypeInv, LogOK
  <2>2. ReplayFrom(Going(origin), steps) = ReplayTo(Going(origin), steps, Len(steps))
    BY <2>1, ReplayEquations
  <2>3. ReplayFrom(Going(Empty), steps) = ReplayFrom(Going(origin), steps)
    BY <2>1, ReplayFromEither
  <2> QED BY <1>1, <2>2, <2>3 DEF Replay, ReplayInv
<1>2. TypeInv /\ RecordInv /\ ReplayInv /\ [Next]_vars => TypeInv' /\ RecordInv' /\ ReplayInv'
  BY ResetsWhenIdle, StepsWait, ClearsWait, JobsStart, TypeNext, RecordNext, ReplayNext
<1>3. TypeInv /\ ReplayInv => AccountsForCatalog
  BY <1>1
<1> QED BY <1>2, <1>3, TypeInit, RecordInit, ReplayInit, PTL DEF Spec

(* The catalog recorded as the result of a step is the one its replay leaves, *)
(* if the log up to the step does not build on a catalog made before it, when *)
(* the session is not exported while a job runs either.                       *)
THEOREM FingerprintsFaithful ==
  ASSUME ResetsWhenIdle, StepsWait, ClearsWait, ExportsWait, JobsStart
  PROVE  Spec => []CatAfterFaithful
<1>1. ASSUME TypeInv, FaithInv PROVE CatAfterFaithful
  <2>1. steps \in Seq(Records) /\ DOMAIN steps = 1..Len(steps)
    BY <1>1 DEF TypeInv, LogOK
  <2>2. ASSUME NEW i \in 1..Len(steps), truth[i] = "ok", steps[i].cat_after # Pending, ~ moved,
               SelfContained(SubSeq(steps, 1, i))
        PROVE  Replay(SubSeq(steps, 1, i)) = Going(steps[i].cat_after)
    <3>1. PICK first : first = SubSeq(steps, 1, i)
      OBVIOUS
    <3>2. first \in Seq(Records)
      BY <2>1, <3>1
    <3>3. ReplayFrom(Going(Empty), first) = ReplayFrom(Going(origin), first)
      BY <2>2, <3>1, <3>2, ReplayFromEither
    <3>4. Going(steps[i].cat_after) = ReplayTo(Going(origin), steps, i)
      BY <1>1, <2>2 DEF FaithInv, Faithful
    <3> QED BY <3>1, <3>3, <3>4 DEF Replay, ReplayTo
  <2> QED BY <2>1, <2>2 DEF CatAfterFaithful
<1>2. TypeInv /\ RecordInv /\ ReplayInv /\ FaithInv /\ [Next]_vars
        => TypeInv' /\ RecordInv' /\ ReplayInv' /\ FaithInv'
  BY ResetsWhenIdle, StepsWait, ClearsWait, ExportsWait, JobsStart, TypeNext, RecordNext, ReplayNext, FaithNext
<1>3. TypeInv /\ FaithInv => CatAfterFaithful
  BY <1>1
<1> QED BY <1>2, <1>3, TypeInit, RecordInit, ReplayInit, PTL DEF Spec

-----------------------------------------------------------------------------
(* What the exported script does when it is run again (SessionResume) *)

LEMMA ConstantTypes ==
  /\ N \in Nat /\ Steps = 1..N
  /\ \A i \in Steps : Kinds[i] \in {"set", "add", "grow"}
  /\ \A c \in Choices, i \in Steps : c[i] \in Values
  /\ None \notin Catalogs /\ None \notin Masks /\ None \notin Stamps /\ None \notin Choices
<1>1. Kinds \in Seq({"set", "add", "grow"})
  BY SessionResumeAssumption
<1>2. N \in Nat /\ DOMAIN Kinds = 1..N
  BY <1>1 DEF N
<1>3. \A i \in Steps : Kinds[i] \in {"set", "add", "grow"}
  BY <1>1, <1>2 DEF Steps, N
<1> QED
  BY <1>2, <1>3, SessionResumeAssumption DEF Steps, Values

-----------------------------------------------------------------------------
(* What a key leaves: Replayed obeys its equations. *)
IsAfter(f, key, n) ==
  f = [k \in 0..n |-> IF k = 0 THEN [cat |-> None, mask |-> None]
                               ELSE Redone(key[k], f[k - 1])]

LEMMA AfterExists ==
  ASSUME NEW key
  PROVE  \A n \in Nat : \E f : IsAfter(f, key, n)
<1> DEFINE S == {n \in Nat : \E f : IsAfter(f, key, n)}
<1>1. 0 \in S
  <2> DEFINE f == [k \in 0..0 |-> [cat |-> None, mask |-> None]]
  <2>1. IsAfter(f, key, 0)
    BY DEF IsAfter
  <2> QED
    BY <2>1
<1>2. ASSUME NEW n \in Nat, n \in S PROVE n + 1 \in S
  <2>1. PICK f : IsAfter(f, key, n)
    BY <1>2
  <2> DEFINE g == [k \in 0..(n + 1) |-> IF k = n + 1 THEN Redone(key[k], f[n]) ELSE f[k]]
  <2>2. ASSUME NEW k \in 0..(n + 1)
        PROVE  g[k] = IF k = 0 THEN [cat |-> None, mask |-> None] ELSE Redone(key[k], g[k - 1])
    <3>1. CASE k = n + 1
      BY <3>1
    <3>2. CASE k # n + 1
      <4>1. k \in 0..n /\ (k # 0 => k - 1 \in 0..n) /\ g[k] = f[k] /\ (k # 0 => g[k - 1] = f[k - 1])
        BY <3>2
      <4>2. f[k] = IF k = 0 THEN [cat |-> None, mask |-> None] ELSE Redone(key[k], f[k - 1])
        BY <2>1, <4>1 DEF IsAfter
      <4> QED
        BY <4>1, <4>2
    <3> QED
      BY <3>1, <3>2
  <2>3. IsAfter(g, key, n + 1)
    BY <2>2, Zenon DEF IsAfter
  <2> QED
    BY <2>3
<1> HIDE DEF S
<1>3. Nat \subseteq S
  BY <1>1, <1>2, NatSetInduction
<1> QED
  BY <1>3 DEF S

LEMMA AfterUnique ==
  ASSUME NEW key, NEW more, NEW n \in Nat, NEW m \in Nat, n <= m,
         \A j \in 1..n : key[j] = more[j],
         NEW f, IsAfter(f, key, n), NEW g, IsAfter(g, more, m)
  PROVE  f[n] = g[n]
<1> DEFINE S == {k \in Nat : k <= n => f[k] = g[k]}
<1>1. 0 \in S
  BY DEF IsAfter
<1>2. ASSUME NEW k \in Nat, k \in S PROVE k + 1 \in S
  <2>1. CASE k + 1 <= n
    <3>1. k + 1 \in 0..n /\ k + 1 \in 0..m /\ k + 1 # 0 /\ (k + 1) - 1 = k /\ k + 1 \in 1..n
      BY <2>1
    <3>2. f[k + 1] = Redone(key[k + 1], f[k])
      BY <3>1 DEF IsAfter
    <3>3. g[k + 1] = Redone(more[k + 1], g[k])
      BY <3>1 DEF IsAfter
    <3>4. f[k] = g[k]
      BY <1>2, <2>1
    <3> QED
      BY <3>1, <3>2, <3>3, <3>4
  <2> QED
    BY <2>1
<1> HIDE DEF S
<1>3. n \in S
  BY <1>1, <1>2, NatSetInduction
<1> QED
  BY <1>3 DEF S

LEMMA ReplayedIs ==
  ASSUME NEW key, Len(key) \in Nat
  PROVE  \E f : IsAfter(f, key, Len(key)) /\ Replayed(key) = f[Len(key)]
<1> DEFINE A == CHOOSE f : IsAfter(f, key, Len(key))
<1>1. IsAfter(A, key, Len(key))
  BY AfterExists
<1>2. Replayed(key) = A[Len(key)]
  BY DEF Replayed, IsAfter
<1> QED
  BY <1>1, <1>2

(* Nothing is left of no steps. *)
LEMMA ReplayedEmpty == Replayed(<<>>) = [cat |-> None, mask |-> None]
<1>1. PICK f : IsAfter(f, <<>>, 0) /\ Replayed(<<>>) = f[0]
  BY ReplayedIs
<1> QED
  BY <1>1 DEF IsAfter

(* One step more is that step on what the others leave. *)
LEMMA ReplayedAppend ==
  ASSUME NEW key \in Seq(Listed), NEW e \in Listed
  PROVE  Replayed(Append(key, e)) = Redone(e, Replayed(key))
<1> DEFINE n    == Len(key)
           more == Append(key, e)
<1>1. n \in Nat /\ Len(more) = n + 1 /\ more[n + 1] = e /\ \A j \in 1..n : key[j] = more[j]
  OBVIOUS
<1>2. PICK f : IsAfter(f, key, n) /\ Replayed(key) = f[n]
  BY <1>1, ReplayedIs
<1> HIDE DEF n, more
<1>3. PICK g : IsAfter(g, more, n + 1) /\ Replayed(more) = g[n + 1]
  <2>1. Len(more) \in Nat
    BY <1>1
  <2> QED
    BY <1>1, <2>1, ReplayedIs
<1>4. g[n + 1] = Redone(more[n + 1], g[n])
  BY <1>1, <1>3 DEF IsAfter
<1>5. f[n] = g[n]
  BY <1>1, <1>2, <1>3, AfterUnique
<1> QED
  BY <1>1, <1>2, <1>3, <1>4, <1>5 DEF more
-----------------------------------------------------------------------------
(* The plan of a choice: PlanTo obeys its equations. *)
PlanStep(before, c, k) ==
  IF c[k] # Void /\ Runs(k, c[k], Replayed(before).cat) THEN Append(before, <<k, c[k]>>) ELSE before

IsPlan(f, c, n) == f = [k \in 0..n |-> IF k = 0 THEN <<>> ELSE PlanStep(f[k - 1], c, k)]

LEMMA PlanExists ==
  ASSUME NEW c
  PROVE  \A n \in Nat : \E f : IsPlan(f, c, n)
<1> DEFINE S == {n \in Nat : \E f : IsPlan(f, c, n)}
<1>1. 0 \in S
  <2> DEFINE f == [k \in 0..0 |-> <<>>]
  <2>1. IsPlan(f, c, 0)
    BY DEF IsPlan
  <2> QED
    BY <2>1
<1>2. ASSUME NEW n \in Nat, n \in S PROVE n + 1 \in S
  <2>1. PICK f : IsPlan(f, c, n)
    BY <1>2
  <2> DEFINE g == [k \in 0..(n + 1) |-> IF k = n + 1 THEN PlanStep(f[n], c, k) ELSE f[k]]
  <2>2. ASSUME NEW k \in 0..(n + 1)
        PROVE  g[k] = IF k = 0 THEN <<>> ELSE PlanStep(g[k - 1], c, k)
    <3>1. CASE k = n + 1
      BY <3>1
    <3>2. CASE k # n + 1
      <4>1. k \in 0..n /\ (k # 0 => k - 1 \in 0..n) /\ g[k] = f[k] /\ (k # 0 => g[k - 1] = f[k - 1])
        BY <3>2
      <4>2. f[k] = IF k = 0 THEN <<>> ELSE PlanStep(f[k - 1], c, k)
        BY <2>1, <4>1 DEF IsPlan
      <4> QED
        BY <4>1, <4>2
    <3> QED
      BY <3>1, <3>2
  <2>3. IsPlan(g, c, n + 1)
    BY <2>2, Zenon DEF IsPlan
  <2> QED
    BY <2>3
<1> HIDE DEF S
<1>3. Nat \subseteq S
  BY <1>1, <1>2, NatSetInduction
<1> QED
  BY <1>3 DEF S

LEMMA PlanSteps ==
  ASSUME NEW c
  PROVE  /\ PlanTo(c)[0] = <<>>
         /\ \A k \in Steps : PlanTo(c)[k] = PlanStep(PlanTo(c)[k - 1], c, k)
<1>1. IsPlan(PlanTo(c), c, N)
  <2>1. \E f : IsPlan(f, c, N)
    BY PlanExists, ConstantTypes
  <2> QED
    BY <2>1 DEF PlanTo, IsPlan, PlanStep
<1>2. N \in Nat /\ Steps = 1..N
  BY ConstantTypes
<1> QED
  BY <1>1, <1>2 DEF IsPlan
-----------------------------------------------------------------------------
(* The conditions on the command lines and inputs that a field is run with.  *)
(* A step is taken when it is neither left out nor finds nothing to do.      *)
Taken(v) == v # Off /\ v # Void

(* The first step that a choice takes sets the catalog ...                   *)
SetsFirst ==
  \A c \in Choices : \E i \in Steps :
    Taken(c[i]) /\ Kinds[i] = "set" /\ \A j \in Steps : j < i => ~Taken(c[j])

Agree(c, d, k) == \A j \in Steps : j <= k => c[j] = d[j]

(* ... and of two choices the first step they differ in is taken by both and *)
(* edits the catalog: a mask is not put back (run SessionResume_changed).    *)
ChangesRedone ==
  \A c, d \in Choices : \A i \in Steps :
    Agree(c, d, i - 1) /\ c[i] # d[i] => Taken(c[i]) /\ Taken(d[i]) /\ Kinds[i] # "grow"

(* No run is killed between an edit and the stamp of a mask, or while a stamp *)
(* is written.                                                                *)
KillsSpareStamps == KillsSpareMasks /\ "stamp" \notin KillPoints

LEMMA StepsInduction ==
  ASSUME NEW S, 0 \in S, \A k \in Steps : k - 1 \in S => k \in S
  PROVE  0..N \subseteq S
<1> DEFINE T == {n \in Nat : n <= N => n \in S}
<1>1. 0 \in T
  OBVIOUS
<1>2. ASSUME NEW n \in Nat, n \in T PROVE n + 1 \in T
  <2>1. CASE n + 1 <= N
    <3>1. n + 1 \in Steps /\ (n + 1) - 1 = n /\ n \in S
      BY <1>2, <2>1, ConstantTypes
    <3> QED
      BY <3>1
  <2> QED
    BY <2>1
<1> HIDE DEF T
<1>3. Nat \subseteq T
  BY <1>1, <1>2, NatSetInduction
<1> QED
  BY <1>3, ConstantTypes DEF T

LEMMA AppendFacts ==
  ASSUME NEW S, NEW s \in Seq(S), NEW e \in S
  PROVE  /\ Append(s, e) \in Seq(S) /\ Append(s, e) # <<>>
         /\ Append(s, e)[Len(s) + 1] = e
<1>1. Len(Append(s, e)) = Len(s) + 1 /\ Len(s) \in Nat
  OBVIOUS
<1>2. Append(s, e) \in Seq(S) /\ Append(s, e)[Len(s) + 1] = e
  OBVIOUS
<1>3. Len(<<>>) = 0
  OBVIOUS
<1> QED
  BY <1>1, <1>2, <1>3

(* What one step makes of the files. *)
LEMMA RedoneTypes ==
  ASSUME NEW i \in Steps, NEW v \in Values,
         NEW c \in Catalogs \cup {None}, NEW m \in Masks \cup {None}
  PROVE  /\ CatAfter(i, v, c, m) \in Catalogs \cup {None}
         /\ MaskAfter(i, v, m) \in Masks \cup {None}
         /\ Kinds[i] # "grow" => CatAfter(i, v, c, m) \in Catalogs /\ MaskAfter(i, v, m) = m
         /\ Kinds[i] = "grow" => CatAfter(i, v, c, m) = c /\ MaskAfter(i, v, m) \in Masks
<1>1. Kinds[i] \in {"set", "add", "grow"}
  BY ConstantTypes
<1>2. Edits(m) \in Masks
  BY DEF Edits, Masks
<1>3. Edits(c) \in Catalogs
  BY DEF Edits, Catalogs
<1> DEFINE edit == <<i, v, Edits(m)>>
<1>4. edit \in Steps \X Values \X Masks
  BY <1>2
<1> HIDE DEF edit
<1>5. Append(Edits(c), edit) \in Catalogs /\ <<edit>> \in Catalogs
  BY <1>3, <1>4 DEF Catalogs
<1>6. Append(Edits(m), <<i, v>>) \in Masks
  BY <1>2 DEF Masks, Listed
<1>7. CASE Kinds[i] = "set"
  BY <1>5, <1>7 DEF CatAfter, MaskAfter, edit
<1>8. CASE Kinds[i] = "add"
  BY <1>5, <1>8 DEF CatAfter, MaskAfter, edit
<1>9. CASE Kinds[i] = "grow"
  BY <1>6, <1>9 DEF CatAfter, MaskAfter
<1> QED
  BY <1>1, <1>7, <1>8, <1>9

(* What the first k steps of a choice list and leave. *)
PlanGood(c, k) ==
  /\ PlanTo(c)[k] \in Seq(Listed)
  /\ Replayed(PlanTo(c)[k]).cat \in Catalogs \cup {None}
  /\ Replayed(PlanTo(c)[k]).mask \in Masks \cup {None}
  /\ PlanTo(c)[k] = <<>> <=> \A j \in 1..k : ~Taken(c[j])
  /\ PlanTo(c)[k] # <<>> => Replayed(PlanTo(c)[k]).cat # None

LEMMA PlanGoodStep ==
  ASSUME SetsFirst, NEW c \in Choices, NEW k \in Steps, PlanGood(c, k - 1)
  PROVE  /\ PlanGood(c, k)
         /\ ~Taken(c[k]) => PlanTo(c)[k] = PlanTo(c)[k - 1]
         /\ Taken(c[k]) => PlanTo(c)[k] = Append(PlanTo(c)[k - 1], <<k, c[k]>>)
<1> DEFINE before == PlanTo(c)[k - 1]
           after  == PlanTo(c)[k]
<1>1. after = PlanStep(before, c, k)
  BY PlanSteps
<1>2. k \in Nat /\ Steps = 1..N /\ N \in Nat /\ c[k] \in Values /\ <<k, c[k]>> \in Listed
  BY ConstantTypes DEF Listed
<1>3. \A j \in 1..k : j \in 1..(k - 1) \/ j = k
  BY <1>2
<1>4. CASE ~Taken(c[k])
  <2>1. after = before
    BY <1>1, <1>4 DEF PlanStep, Runs, Taken
  <2> QED
    BY <1>2, <1>3, <1>4, <2>1 DEF PlanGood
<1>5. CASE Taken(c[k])
  <2>1. PICK i \in Steps : Taken(c[i]) /\ Kinds[i] = "set" /\ \A j \in Steps : j < i => ~Taken(c[j])
    BY DEF SetsFirst
  <2>2. before = <<>> => Kinds[k] = "set"
    <3>1. before = <<>> => \A j \in 1..(k - 1) : ~Taken(c[j])
      BY DEF PlanGood
    <3>2. before = <<>> => i >= k
      BY <1>2, <2>1, <3>1
    <3>3. k >= i
      BY <1>2, <1>5, <2>1
    <3> QED
      BY <1>2, <2>1, <3>2, <3>3
  <2>3. before # <<>> => Replayed(before).cat # None
    BY DEF PlanGood
  <2>4. after = Append(before, <<k, c[k]>>)
    BY <1>1, <1>5, <2>2, <2>3 DEF PlanStep, Runs, Taken
  <2>5. before \in Seq(Listed)
    BY DEF PlanGood
  <2>6. Replayed(after) = Redone(<<k, c[k]>>, Replayed(before))
    BY <1>2, <2>4, <2>5, ReplayedAppend
  <2> DEFINE x == Replayed(before).cat
             m == Replayed(before).mask
  <2>7. /\ Replayed(after).cat = CatAfter(k, c[k], x, m)
        /\ Replayed(after).mask = MaskAfter(k, c[k], m)
    BY <2>6 DEF Redone
  <2>8. x \in Catalogs \cup {None} /\ m \in Masks \cup {None}
    BY DEF PlanGood
  <2>9. Kinds[k] = "grow" => x # None
    BY <2>2, <2>3
  <2> HIDE DEF x, m
  <2>10. /\ Replayed(after).cat \in Catalogs
         /\ Replayed(after).mask \in Masks \cup {None}
    BY <1>2, <2>7, <2>8, <2>9, RedoneTypes
  <2>11. after \in Seq(Listed) /\ after # <<>>
    BY <1>2, <2>4, <2>5, AppendFacts
  <2>12. Replayed(after).cat # None
    BY <2>10, ConstantTypes
  <2>13. ~(\A j \in 1..k : ~Taken(c[j]))
    BY <1>2, <1>5
  <2> QED
    BY <1>5, <2>4, <2>10, <2>11, <2>12, <2>13 DEF PlanGood
<1> QED
  BY <1>4, <1>5

LEMMA PlanIsGood ==
  ASSUME SetsFirst, NEW c \in Choices, NEW k \in 0..N
  PROVE  PlanGood(c, k)
<1> DEFINE S == {n \in 0..N : PlanGood(c, n)}
<1>1. 0 \in S
  <2>1. PlanTo(c)[0] = <<>> /\ <<>> \in Seq(Listed)
    BY PlanSteps
  <2>2. Replayed(<<>>).cat = None /\ Replayed(<<>>).mask = None
    BY ReplayedEmpty
  <2>3. PlanGood(c, 0)
    BY <2>1, <2>2 DEF PlanGood
  <2> QED
    BY <2>3, ConstantTypes
<1>2. ASSUME NEW n \in Steps, n - 1 \in S PROVE n \in S
  <2>1. PlanGood(c, n)
    BY <1>2, PlanGoodStep
  <2> QED
    BY <2>1, ConstantTypes
<1> HIDE DEF S
<1>3. 0..N \subseteq S
  BY <1>1, <1>2, StepsInduction
<1> QED
  BY <1>3 DEF S

LEMMA RedoneFields ==
  ASSUME NEW i, NEW v, NEW f
  PROVE  /\ Redone(<<i, v>>, f).cat = CatAfter(i, v, f.cat, f.mask)
         /\ Redone(<<i, v>>, f).mask = MaskAfter(i, v, f.mask)
BY DEF Redone

(* The plan's facts that the invariant needs, for step k of choice c. *)
LEMMA PlanTaken ==
  ASSUME SetsFirst, NEW c \in Choices, NEW k \in Steps
  PROVE  /\ k - 1 \in 0..N /\ k \in 0..N
         /\ ~Taken(c[k]) => PlanTo(c)[k] = PlanTo(c)[k - 1]
         /\ Taken(c[k]) => /\ PlanTo(c)[k] = Append(PlanTo(c)[k - 1], <<k, c[k]>>)
                          /\ PlanTo(c)[k] # <<>>
                          /\ Replayed(PlanTo(c)[k]) = Redone(<<k, c[k]>>, Replayed(PlanTo(c)[k - 1]))
<1>1. k - 1 \in 0..N /\ k \in 0..N /\ <<k, c[k]>> \in Listed
  BY ConstantTypes DEF Listed
<1>2. PlanGood(c, k - 1)
  BY <1>1, PlanIsGood
<1>3. PlanTo(c)[k - 1] \in Seq(Listed)
  BY <1>2 DEF PlanGood
<1>4. Taken(c[k]) => PlanTo(c)[k] = Append(PlanTo(c)[k - 1], <<k, c[k]>>)
  BY <1>2, PlanGoodStep
<1>5. Taken(c[k]) => PlanTo(c)[k] # <<>>
  BY <1>1, <1>3, <1>4, AppendFacts
<1>6. Taken(c[k]) => Replayed(PlanTo(c)[k]) = Redone(<<k, c[k]>>, Replayed(PlanTo(c)[k - 1]))
  BY <1>1, <1>3, <1>4, ReplayedAppend
<1> QED
  BY <1>1, <1>2, <1>4, <1>5, <1>6, PlanGoodStep

LEMMA PlanMask ==
  ASSUME SetsFirst, NEW c \in Choices, NEW k \in Steps
  PROVE  /\ Kinds[k] # "grow" \/ ~Taken(c[k])
              => Replayed(PlanTo(c)[k]).mask = Replayed(PlanTo(c)[k - 1]).mask
         /\ Kinds[k] = "grow" /\ Taken(c[k]) => Replayed(PlanTo(c)[k]).mask # None
         /\ Taken(c[k]) /\ PlanTo(c)[k - 1] = <<>> => Kinds[k] = "set"
<1> DEFINE x == Replayed(PlanTo(c)[k - 1]).cat
           m == Replayed(PlanTo(c)[k - 1]).mask
<1>1. k - 1 \in 0..N /\ k \in Steps /\ Steps = 1..N /\ N \in Nat /\ c[k] \in Values
  BY PlanTaken, ConstantTypes
<1>2. PlanGood(c, k - 1)
  BY <1>1, PlanIsGood
<1>3. x \in Catalogs \cup {None} /\ m \in Masks \cup {None}
  BY <1>2 DEF PlanGood
<1>4. Taken(c[k]) => Replayed(PlanTo(c)[k]).mask = MaskAfter(k, c[k], m)
  <2>1. Taken(c[k]) => Replayed(PlanTo(c)[k]) = Redone(<<k, c[k]>>, Replayed(PlanTo(c)[k - 1]))
    BY PlanTaken
  <2> QED
    BY <2>1, RedoneFields
<1>5. ~Taken(c[k]) => Replayed(PlanTo(c)[k]).mask = m
  BY PlanTaken
<1>6. Taken(c[k]) /\ PlanTo(c)[k - 1] = <<>> => Kinds[k] = "set"
  <2>1. PICK i \in Steps : Taken(c[i]) /\ Kinds[i] = "set" /\ \A j \in Steps : j < i => ~Taken(c[j])
    BY DEF SetsFirst
  <2>2. PlanTo(c)[k - 1] = <<>> => \A j \in 1..(k - 1) : ~Taken(c[j])
    BY <1>2 DEF PlanGood
  <2>3. PlanTo(c)[k - 1] = <<>> => i >= k
    BY <1>1, <2>1, <2>2
  <2>4. Taken(c[k]) => k >= i
    BY <1>1, <2>1
  <2> QED
    BY <1>1, <2>1, <2>3, <2>4
<1> HIDE DEF x, m
<1>7. MaskAfter(k, c[k], m) = m \/ Kinds[k] = "grow"
  BY DEF MaskAfter
<1>8. Kinds[k] = "grow" => MaskAfter(k, c[k], m) \in Masks
  BY <1>1, <1>3, RedoneTypes
<1> QED
  BY <1>4, <1>5, <1>6, <1>7, <1>8, ConstantTypes DEF m

(* Choices that agree up to a step have the same plan up to it. *)
LEMMA PlanAgrees ==
  ASSUME SetsFirst, NEW c \in Choices, NEW d \in Choices, NEW k \in 0..N, Agree(c, d, k),
         NEW j \in 0..N, j <= k
  PROVE  PlanTo(c)[j] = PlanTo(d)[j]
<1> DEFINE S == {n \in 0..N : n <= k => PlanTo(c)[n] = PlanTo(d)[n]}
<1>1. 0 \in S
  BY PlanSteps, ConstantTypes
<1>2. ASSUME NEW n \in Steps, n - 1 \in S PROVE n \in S
  <2>1. n \in 0..N /\ (n <= k => n - 1 <= k /\ c[n] = d[n])
    BY ConstantTypes DEF Agree
  <2>2. n <= k => PlanTo(c)[n - 1] = PlanTo(d)[n - 1]
    BY <1>2, <2>1
  <2>3. PlanTo(c)[n] = PlanStep(PlanTo(c)[n - 1], c, n) /\ PlanTo(d)[n] = PlanStep(PlanTo(d)[n - 1], d, n)
    BY PlanSteps
  <2> QED
    BY <2>1, <2>2, <2>3 DEF PlanStep
<1> HIDE DEF S
<1>3. 0..N \subseteq S
  BY <1>1, <1>2, StepsInduction
<1> QED
  BY <1>3 DEF S

(* Steps that are left out do not lengthen a plan. *)
LEMMA PlanSkips ==
  ASSUME SetsFirst, NEW c \in Choices, NEW k \in 0..N, NEW n \in 0..N, k <= n,
         \A j \in Steps : k < j /\ j <= n => ~Taken(c[j])
  PROVE  PlanTo(c)[n] = PlanTo(c)[k]
<1> DEFINE S == {m \in 0..N : k <= m /\ m <= n => PlanTo(c)[m] = PlanTo(c)[k]}
<1>1. 0 \in S
  BY ConstantTypes
<1>2. ASSUME NEW m \in Steps, m - 1 \in S PROVE m \in S
  <2>1. m \in 0..N /\ m \in Int /\ k \in Int
    BY ConstantTypes
  <2>2. CASE k < m /\ m <= n
    <3>1. k <= m - 1 /\ m - 1 <= n
      BY <2>1, <2>2
    <3>2. PlanTo(c)[m - 1] = PlanTo(c)[k]
      BY <1>2, <3>1
    <3>3. PlanTo(c)[m] = PlanTo(c)[m - 1]
      BY <2>2, PlanTaken
    <3> QED
      BY <2>1, <3>2, <3>3
  <2>3. CASE k = m
    BY <2>1, <2>3
  <2> QED
    BY <2>1, <2>2, <2>3
<1> HIDE DEF S
<1>3. 0..N \subseteq S
  BY <1>1, <1>2, StepsInduction
<1> QED
  BY <1>3 DEF S

(* A key that ends with step i says what step i hashed. *)
LEMMA SameKey ==
  ASSUME NEW s \in Seq(Listed), NEW e \in Listed, NEW f \in Listed, Append(s, e) = Append(s, f)
  PROVE  e = f
BY AppendFacts
-----------------------------------------------------------------------------
ResumeTypeInv ==
  /\ cat \in Catalogs \cup {None} /\ mask \in Masks \cup {None}
  /\ copy \in [Steps -> Catalogs \cup {None}] /\ stamp \in [Steps -> Stamps \cup {None}]
  /\ run \in [phase : Phases, i : 0..(N + 1), chain : Seq(Listed), choice : Choices,
              resume : BOOLEAN, asked : BOOLEAN, ran : SUBSET Steps,
              status : {"none", "running", "ok", "failed", "killed"}]
  /\ runs \in Nat /\ last \in Choices \cup {None}
  /\ run.phase \in {"clean", "emptied"} => run.i = 1 /\ run.chain = <<>>
  /\ run.phase = "step" => run.i \in 1..(N + 1)
  /\ run.phase \in {"run", "copy", "stamp"} => run.i \in Steps
  /\ run.phase # "idle" => run.status = "running"
  /\ runs = 0 => last = None /\ run.phase = "idle"

LEMMA KeyNowType ==
  ASSUME ResumeTypeInv, run.i \in Steps
  PROVE  KeyNow \in Seq(Listed) /\ Value \in Values /\ KeyNow = Append(run.chain, <<run.i, Value>>)
<1>1. run.chain \in Seq(Listed) /\ run.choice \in Choices
  BY DEF ResumeTypeInv
<1>2. Value \in Values
  BY <1>1, ConstantTypes DEF Value
<1>3. <<run.i, Value>> \in Listed
  BY <1>2 DEF Listed
<1> QED
  BY <1>1, <1>2, <1>3, AppendFacts DEF KeyNow, Key

LEMMA TypeStep == ResumeTypeInv /\ [ResumeNext]_resumeVars => ResumeTypeInv'
<1> SUFFICES ASSUME ResumeTypeInv, [ResumeNext]_resumeVars PROVE ResumeTypeInv'
  OBVIOUS
<1> DEFINE Ids == 0..(N + 1)
           next == run.i + 1
<1>a. N \in Nat /\ Steps = 1..N
  BY ConstantTypes
<1>b. 0 \in Ids /\ 1 \in Ids /\ 1 \in 1..(N + 1)
  BY <1>a
<1>c. run.i \in Steps => next \in Ids /\ next \in 1..(N + 1) /\ run.i \in 1..(N + 1)
  BY <1>a
<1>d. run \in [phase : Phases, i : Ids, chain : Seq(Listed), choice : Choices,
              resume : BOOLEAN, asked : BOOLEAN, ran : SUBSET Steps,
              status : {"none", "running", "ok", "failed", "killed"}]
  BY DEF ResumeTypeInv
<1>e. ResumeTypeInv' <=>
  /\ cat' \in Catalogs \cup {None} /\ mask' \in Masks \cup {None}
  /\ copy' \in [Steps -> Catalogs \cup {None}] /\ stamp' \in [Steps -> Stamps \cup {None}]
  /\ run' \in [phase : Phases, i : Ids, chain : Seq(Listed), choice : Choices,
              resume : BOOLEAN, asked : BOOLEAN, ran : SUBSET Steps,
              status : {"none", "running", "ok", "failed", "killed"}]
  /\ runs' \in Nat /\ last' \in Choices \cup {None}
  /\ run'.phase \in {"clean", "emptied"} => run'.i = 1 /\ run'.chain = <<>>
  /\ run'.phase = "step" => run'.i \in 1..(N + 1)
  /\ run'.phase \in {"run", "copy", "stamp"} => run'.i \in Steps
  /\ run'.phase # "idle" => run'.status = "running"
  /\ runs' = 0 => last' = None /\ run'.phase = "idle"
  BY DEF ResumeTypeInv
<1> HIDE DEF Ids
<1>f. <<>> \in Seq(Listed)
  OBVIOUS
<1>1. ASSUME NEW c \in Choices, NEW resume \in BOOLEAN, Start(c, resume) PROVE ResumeTypeInv'
  BY <1>1, <1>b, <1>c, <1>d, <1>e, <1>f DEF Start, ResumeTypeInv, files, Phases
<1>2. CASE CleanWork
  BY <1>2, <1>b, <1>c, <1>d, <1>e, <1>f DEF CleanWork, ResumeTypeInv, Phases
<1>3. CASE CleanSteps
  BY <1>3, <1>b, <1>c, <1>d, <1>e, <1>f DEF CleanSteps, ResumeTypeInv, Phases
<1>4. CASE Skip
  BY <1>4, <1>b, <1>c, <1>d, <1>e, <1>f DEF Skip, ResumeTypeInv, Phases, AtStep, files
<1>5. CASE Cached
  <2>1. run.i \in Steps /\ run.phase = "step"
    BY <1>5 DEF Cached, AtStep
  <2> DEFINE key == KeyNow
  <2>2. key \in Seq(Listed)
    BY <2>1, KeyNowType
  <2>3. cat' = copy[run.i] /\ run' = [run EXCEPT !.i = @ + 1, !.chain = key]
        /\ UNCHANGED <<mask, copy, stamp, runs, last>>
    BY <1>5 DEF Cached
  <2> HIDE DEF key
  <2> QED
    BY <2>1, <2>2, <2>3, <1>b, <1>c, <1>d, <1>e, <1>f DEF ResumeTypeInv, Phases
<1>6. CASE Rewind
  BY <1>6, <1>b, <1>c, <1>d, <1>e, <1>f DEF Rewind, ResumeTypeInv, Phases, AtStep, files
<1>7. CASE Begin
  BY <1>7, <1>b, <1>c, <1>d, <1>e, <1>f DEF Begin, ResumeTypeInv, Phases, AtStep, files
<1>8. CASE Work
  <2>1. run.i \in Steps /\ run.phase = "run"
    BY <1>8 DEF Work, ResumeTypeInv
  <2> DEFINE x == CatAfter(run.i, Value, cat, mask)
             m == MaskAfter(run.i, Value, mask)
  <2>2. x \in Catalogs \cup {None} /\ m \in Masks \cup {None}
    BY <2>1, KeyNowType, RedoneTypes DEF ResumeTypeInv
  <2>3. cat' = x /\ mask' = m /\ run' = [run EXCEPT !.phase = "copy", !.ran = @ \union {run.i}]
        /\ UNCHANGED <<copy, stamp, runs, last>>
    BY <1>8 DEF Work
  <2> HIDE DEF x, m
  <2> QED
    BY <2>1, <2>2, <2>3, <1>b, <1>c, <1>d, <1>e, <1>f DEF ResumeTypeInv, Phases
<1>9. CASE Fail
  <2>1. run.i \in Steps
    BY <1>9 DEF Fail, ResumeTypeInv
  <2> DEFINE part == Append(Edits(cat), <<run.i, "part">>)
  <2>2. Edits(cat) \in Catalogs
    BY DEF ResumeTypeInv, Edits, Catalogs
  <2>3. part \in Catalogs
    BY <2>1, <2>2 DEF Catalogs
  <2>4. (cat' = cat \/ cat' = part) /\ run' = Idle("failed") /\ last' = None
        /\ UNCHANGED <<mask, copy, stamp, runs>>
    BY <1>9 DEF Fail
  <2> HIDE DEF part
  <2> QED
    BY <2>3, <2>4, <1>b, <1>c, <1>d, <1>e, <1>f DEF ResumeTypeInv, Phases, Idle
<1>10. CASE CopyCat
  BY <1>10, <1>b, <1>c, <1>d, <1>e, <1>f DEF CopyCat, ResumeTypeInv, Phases
<1>11. CASE WriteStamp
  <2>1. run.i \in Steps /\ run.phase = "stamp"
    BY <1>11 DEF WriteStamp, ResumeTypeInv
  <2> DEFINE key == KeyNow
             rec == [key |-> key, outs |-> Changed(run.i)]
  <2>2. key \in Seq(Listed)
    BY <2>1, KeyNowType
  <2>3. stamp' = [stamp EXCEPT ![run.i] = rec]
        /\ run' = [run EXCEPT !.phase = "step", !.i = @ + 1, !.chain = key]
        /\ UNCHANGED <<cat, mask, copy, runs, last>>
    BY <1>11 DEF WriteStamp
  <2>4. rec \in Stamps
    BY <2>2 DEF Stamps, Changed
  <2> HIDE DEF key, rec
  <2> QED
    BY <2>1, <2>2, <2>3, <2>4, <1>b, <1>c, <1>d, <1>e, <1>f DEF ResumeTypeInv, Phases
<1>12. CASE Finish
  BY <1>12, <1>b, <1>c, <1>d, <1>e, <1>f DEF Finish, ResumeTypeInv, Phases, files, Idle
<1>13. CASE Kill
  <2>1. stamp' \in [Steps -> Stamps \cup {None}]
    BY <1>13 DEF Kill, ResumeTypeInv
  <2>2. run' = Idle("killed") /\ last' = None /\ UNCHANGED <<cat, mask, copy, runs>>
    BY <1>13 DEF Kill
  <2> QED
    BY <2>1, <2>2, <1>b, <1>c, <1>d, <1>e, <1>f DEF ResumeTypeInv, Phases, Idle
<1>14. CASE UNCHANGED resumeVars
  BY <1>14 DEF resumeVars, files, ResumeTypeInv
<1>15. CASE Decline
  BY <1>15, <1>b, <1>c, <1>d, <1>e, <1>f DEF Decline, ResumeTypeInv, Phases, files
<1> QED
  BY <1>1, <1>2, <1>3, <1>4, <1>5, <1>6, <1>7, <1>8, <1>9, <1>10, <1>11, <1>12, <1>13, <1>14, <1>15 DEF ResumeNext

LEMMA ResumeTypeInit == ResumeInit => ResumeTypeInv
BY ConstantTypes DEF ResumeInit, ResumeTypeInv, Phases

(* Every file, copy, stamp and key is of the right kind, in every state. *)
THEOREM ResumeTypes == ResumeSpec => []ResumeTypeInv
BY ResumeTypeInit, TypeStep, PTL DEF ResumeSpec
-----------------------------------------------------------------------------
(* The invariant.  The stamps and copies below a directory are those of the  *)
(* first n steps of some choice, and the mask is the one those steps leave,  *)
(* unless the directory has been emptied.                                    *)
StampOf(c, i) == [key |-> PlanTo(c)[i], outs |-> Changed(i)]

StampsOf(c, n, S) ==
  \A i \in S : IF i <= n /\ Taken(c[i])
                   THEN stamp[i] = StampOf(c, i) /\ copy[i] = Replayed(PlanTo(c)[i]).cat
                   ELSE stamp[i] = None

MaskOf(c, n) == mask = Replayed(PlanTo(c)[n]).mask
Emptied      == cat = None /\ mask = None
CatOf(key)   == key # <<>> => cat = Replayed(key).cat

Left ==
  \E g \in Choices : \E n \in 0..N :
     StampsOf(g, n, Steps) /\ (MaskOf(g, n) \/ Emptied)

(* Between runs, and until a directory is emptied. *)
LeftInv ==
  run.phase \in {"idle", "clean", "emptied"} =>
    /\ Left
    /\ run.phase = "emptied" => Emptied
    /\ run.phase # "idle" => ~run.resume

(* The stamps agree with the run up to the step it is at. *)
Follows ==
  \E g \in Choices : \E n \in 0..N :
     /\ n >= run.i - 1 /\ Agree(g, run.choice, run.i - 1)
     /\ StampsOf(g, n, Steps)
     /\ MaskOf(g, n) \/ (Emptied /\ run.chain = <<>>)
     /\ ~run.resume => n = run.i - 1

StepInv ==
  run.phase = "step" =>
    /\ run.chain = PlanTo(run.choice)[run.i - 1]
    /\ CatOf(run.chain)
    /\ Follows

(* While a step is taken no stamp follows it. *)
Taking ==
  \E g \in Choices : \E n \in {run.i - 1, run.i} :
     /\ Agree(g, run.choice, run.i - 1)
     /\ StampsOf(g, n, IF run.phase = "stamp" THEN Steps \ {run.i} ELSE Steps)
     /\ run.phase = "run" \/ Kinds[run.i] # "grow" => MaskOf(g, n)

TakeInv ==
  run.phase \in {"run", "copy", "stamp"} =>
    /\ Value # Off /\ (run.phase # "run" => Value # Void)
    /\ run.chain = PlanTo(run.choice)[run.i - 1]
    /\ Taking
    /\ run.phase = "run" => CatOf(run.chain) /\ mask = Replayed(run.chain).mask
    /\ run.phase # "run" => cat = Replayed(KeyNow).cat /\ mask = Replayed(KeyNow).mask
    /\ run.phase = "stamp" => copy[run.i] = cat

FilesInv == LeftInv /\ StepInv /\ TakeInv

LEMMA StampIsNone ==
  ASSUME ResumeTypeInv, NEW c \in Choices, NEW i \in Steps, SetsFirst
  PROVE  StampOf(c, i) # None
<1>1. PlanTo(c)[i] \in Seq(Listed)
  BY PlanTaken, PlanIsGood DEF PlanGood
<1>2. StampOf(c, i) \in Stamps
  BY <1>1 DEF StampOf, Stamps, Changed
<1> QED
  BY <1>2, ConstantTypes

LEMMA AgreeStep ==
  ASSUME ChangesRedone, NEW g \in Choices, NEW c \in Choices, NEW i \in Steps, Agree(g, c, i - 1)
  PROVE  /\ g[i] = c[i] => Agree(g, c, i)
         /\ ~Taken(c[i]) \/ ~Taken(g[i]) \/ Kinds[i] = "grow" => g[i] = c[i]
<1>1. \A j \in Steps : j <= i => j <= i - 1 \/ j = i
  BY ConstantTypes
<1>2. g[i] = c[i] => Agree(g, c, i)
  BY <1>1 DEF Agree
<1>3. g[i] # c[i] => Taken(g[i]) /\ Taken(c[i]) /\ Kinds[i] # "grow"
  BY DEF ChangesRedone
<1> QED
  BY <1>2, <1>3

(* Stamps of a choice are those of every choice that agrees so far. *)
LEMMA StampsAgree ==
  ASSUME SetsFirst, NEW g \in Choices, NEW c \in Choices, NEW n \in 0..N, NEW S \in SUBSET Steps,
         Agree(g, c, n), StampsOf(g, n, S)
  PROVE  StampsOf(c, n, S)
<1>1. ASSUME NEW j \in S, j <= n
      PROVE  g[j] = c[j] /\ PlanTo(g)[j] = PlanTo(c)[j]
  <2>1. j \in Steps /\ j \in 0..N
    BY ConstantTypes
  <2> QED
    BY <1>1, <2>1, PlanAgrees DEF Agree
<1> QED
  BY <1>1 DEF StampsOf, StampOf

(* A step that the choice takes is run, and the first of them sets the catalog. *)
LEMMA RunsWhenChosen ==
  ASSUME SetsFirst, ResumeTypeInv, StepInv, AtStep
  PROVE  /\ Runs(run.i, Value, cat) => Value # Off
         /\ Taken(Value) => Runs(run.i, Value, cat)
         /\ run.chain = <<>> /\ Taken(Value) => Kinds[run.i] = "set"
<1>1. run.choice \in Choices /\ run.i \in Steps /\ run.phase = "step"
  BY DEF ResumeTypeInv, AtStep
<1>2. run.chain = PlanTo(run.choice)[run.i - 1] /\ CatOf(run.chain)
  BY <1>1 DEF StepInv
<1>3. run.chain = <<>> /\ Taken(Value) => Kinds[run.i] = "set"
  BY <1>1, <1>2, PlanMask DEF Value
<1>4. PlanGood(run.choice, run.i - 1)
  BY <1>1, PlanTaken, PlanIsGood
<1>5. run.chain # <<>> => cat # None
  BY <1>2, <1>4 DEF CatOf, PlanGood
<1> QED
  BY <1>3, <1>5 DEF Runs, Taken

(* A run starts: nothing is done to the files. *)
LEMMA StartStep ==
  ASSUME SetsFirst, ResumeTypeInv, FilesInv, NEW c \in Choices, NEW resume \in BOOLEAN, Start(c, resume)
  PROVE  FilesInv'
<1>1. UNCHANGED <<cat, mask, copy, stamp>>
  BY DEF Start, files
<1>2. PICK g \in Choices, n \in 0..N : StampsOf(g, n, Steps) /\ (MaskOf(g, n) \/ Emptied)
  BY DEF Start, FilesInv, LeftInv, Left
<1>3. (StampsOf(g, n, Steps) /\ (MaskOf(g, n) \/ Emptied))'
  BY <1>1, <1>2 DEF StampsOf, MaskOf, Emptied
<1>4. /\ run'.phase \in {"step", "clean"} /\ run'.i = 1 /\ run'.chain = <<>> /\ run'.choice = c
      /\ run'.phase = "clean" => ~run'.resume
      /\ run'.phase = "step" => run'.resume
  BY DEF Start
<1>5. Left'
  BY <1>3 DEF Left
<1>6. LeftInv'
  BY <1>4, <1>5 DEF LeftInv
<1>7. TakeInv'
  BY <1>4 DEF TakeInv
<1>8. ASSUME run'.phase = "step" PROVE Follows'
  <2>1. run'.i - 1 = 0 /\ n >= 0
    BY <1>4
  <2>2. Agree(g, c, 0)
    BY ConstantTypes DEF Agree
  <2> QED
    BY <1>3, <1>4, <1>8, <2>1, <2>2 DEF Follows
<1>9. StepInv'
  <2>1. PlanTo(c)[0] = <<>>
    BY PlanSteps
  <2>2. run'.i - 1 = 0
    BY <1>4
  <2> QED
    BY <1>4, <1>8, <2>1, <2>2 DEF StepInv, CatOf
<1> QED
  BY <1>6, <1>7, <1>9 DEF FilesInv

LEMMA CleanWorkStep ==
  ASSUME SetsFirst, ResumeTypeInv, FilesInv, CleanWork
  PROVE  FilesInv'
<1>1. /\ run.phase = "clean" /\ cat' = None /\ mask' = None /\ UNCHANGED <<copy, stamp>>
      /\ run'.phase = "emptied" /\ run'.resume = run.resume
  BY DEF CleanWork, ResumeTypeInv
<1>2. PICK g \in Choices, n \in 0..N : StampsOf(g, n, Steps)
  BY <1>1 DEF FilesInv, LeftInv, Left
<1>3. StampsOf(g, n, Steps)' /\ Emptied'
  BY <1>1, <1>2 DEF StampsOf, Emptied
<1>4. Left'
  BY <1>3 DEF Left
<1> QED
  BY <1>1, <1>3, <1>4 DEF FilesInv, LeftInv, StepInv, TakeInv

LEMMA CleanStepsStep ==
  ASSUME SetsFirst, ResumeTypeInv, FilesInv, CleanSteps
  PROVE  FilesInv'
<1>1. /\ run.phase = "emptied" /\ UNCHANGED <<cat, mask>>
      /\ stamp' = [i \in Steps |-> None]
      /\ run'.phase = "step" /\ run'.resume = run.resume /\ run'.i = run.i
      /\ run'.chain = run.chain /\ run'.choice = run.choice
  BY DEF CleanSteps, ResumeTypeInv
<1>2. run.i = 1 /\ run.chain = <<>> /\ run.choice \in Choices /\ Emptied /\ ~run.resume
  BY <1>1 DEF ResumeTypeInv, FilesInv, LeftInv
<1> DEFINE c == run.choice
<1>3. run'.i - 1 = 0 /\ 0 \in 0..N /\ 0 >= 0
  BY <1>1, <1>2, ConstantTypes
<1>4. Agree(c, c, 0) /\ StampsOf(c, 0, Steps)' /\ Emptied'
  <2>1. \A i \in Steps : ~(i <= 0)
    BY ConstantTypes
  <2> QED
    BY <1>1, <1>2, <2>1 DEF Agree, StampsOf, Emptied
<1> HIDE DEF c
<1>5. Follows'
  BY <1>1, <1>2, <1>3, <1>4 DEF Follows, c
<1>6. PlanTo(c)[0] = <<>>
  BY PlanSteps
<1>7. StepInv'
  BY <1>1, <1>2, <1>3, <1>5, <1>6 DEF StepInv, CatOf, c
<1> QED
  BY <1>1, <1>7 DEF FilesInv, LeftInv, TakeInv

(* A step that is not taken is one that the stamps have none of. *)
LEMMA StampsPass ==
  ASSUME SetsFirst, ChangesRedone, NEW c \in Choices, NEW i \in Steps, ~Taken(c[i]),
         NEW g \in Choices, NEW n \in 0..N, Agree(g, c, i - 1), StampsOf(g, n, Steps), n = i - 1
  PROVE  StampsOf(g, i, Steps) /\ PlanTo(g)[i] = PlanTo(g)[n]
<1>1. ~Taken(g[i])
  BY AgreeStep
<1>2. i \in Nat /\ Steps = 1..N /\ N \in Nat
  BY ConstantTypes
<1>3. \A j \in Steps : (j <= i <=> j <= n \/ j = i) /\ ~(i <= n)
  BY <1>2
<1>4. StampsOf(g, i, Steps)
  BY <1>1, <1>3 DEF StampsOf
<1> QED
  BY <1>1, <1>4, PlanTaken

(* A step that the choice leaves out. *)
LEMMA SkipStep ==
  ASSUME SetsFirst, ChangesRedone, ResumeTypeInv, FilesInv, Skip
  PROVE  FilesInv'
<1>0. PICK c, i : c = run.choice /\ i = run.i
  OBVIOUS
<1>1. /\ AtStep /\ run.phase = "step" /\ i \in Steps /\ c \in Choices /\ UNCHANGED <<cat, mask, copy, stamp>>
      /\ run'.phase = "step" /\ run'.i = i + 1 /\ run'.chain = run.chain
      /\ run'.choice = c /\ run'.resume = run.resume
  BY <1>0 DEF Skip, AtStep, ResumeTypeInv, files
<1>2. run.chain = PlanTo(c)[i - 1] /\ CatOf(run.chain) /\ Follows
  BY <1>0, <1>1 DEF FilesInv, StepInv
<1>3. ~Taken(c[i])
  BY RunsWhenChosen, <1>0, <1>1 DEF Skip, FilesInv, Value
<1>4. PICK g \in Choices, n \in 0..N :
     /\ n >= i - 1 /\ Agree(g, c, i - 1)
     /\ StampsOf(g, n, Steps)
     /\ MaskOf(g, n) \/ (Emptied /\ run.chain = <<>>)
     /\ ~run.resume => n = i - 1
  BY <1>0, <1>2 DEF Follows
<1>5. run.chain = PlanTo(c)[i]
  BY <1>1, <1>2, <1>3, PlanTaken
<1>6. Agree(g, c, i)
  BY <1>1, <1>3, <1>4, AgreeStep
<1>7. run'.i - 1 = i /\ i \in Nat /\ i \in 0..N /\ i - 1 \in 0..N
  BY <1>1, ConstantTypes
<1>8. ASSUME n >= i PROVE Follows'
  <2>1. n >= run'.i - 1 /\ (~run'.resume => n = run'.i - 1)
    BY <1>1, <1>4, <1>7, <1>8
  <2>2. StampsOf(g, n, Steps)' /\ (MaskOf(g, n) \/ (Emptied /\ run.chain = <<>>))'
    BY <1>1, <1>4 DEF StampsOf, MaskOf, Emptied
  <2> QED
    BY <1>1, <1>6, <1>7, <2>1, <2>2 DEF Follows
<1>9. ASSUME n = i - 1 PROVE Follows'
  <2>1. StampsOf(g, i, Steps) /\ PlanTo(g)[i] = PlanTo(g)[n]
    BY <1>1, <1>3, <1>4, <1>9, StampsPass
  <2>2. MaskOf(g, i) \/ (Emptied /\ run.chain = <<>>)
    BY <1>4, <2>1 DEF MaskOf
  <2>3. StampsOf(g, i, Steps)' /\ (MaskOf(g, i) \/ (Emptied /\ run.chain = <<>>))'
    BY <1>1, <2>1, <2>2 DEF StampsOf, MaskOf, Emptied
  <2>4. i >= run'.i - 1
    BY <1>7
  <2> QED
    BY <1>1, <1>6, <1>7, <2>3, <2>4 DEF Follows
<1>10. n >= i \/ n = i - 1
  BY <1>4, <1>7
<1>11. StepInv'
  <2>1. CatOf(run.chain)'
    BY <1>1, <1>2 DEF CatOf
  <2> QED
    BY <1>1, <1>5, <1>7, <1>8, <1>9, <1>10, <2>1 DEF StepInv
<1> QED
  BY <1>1, <1>11 DEF FilesInv, LeftInv, TakeInv

(* A step that is taken over: its key is the one this run gives it, so its copy *)
(* is what this run's steps leave.                                              *)
LEMMA CachedStep ==
  ASSUME SetsFirst, ChangesRedone, ResumeTypeInv, FilesInv, Cached
  PROVE  FilesInv'
<1>0. PICK c, i : c = run.choice /\ i = run.i
  OBVIOUS
<1>1. /\ AtStep /\ run.phase = "step" /\ i \in Steps /\ c \in Choices
      /\ cat' = copy[i] /\ UNCHANGED <<mask, copy, stamp>>
      /\ run'.phase = "step" /\ run'.i = i + 1 /\ run'.chain = KeyNow
      /\ run'.choice = c /\ run'.resume = run.resume
  BY <1>0 DEF Cached, AtStep, ResumeTypeInv
<1>2. run.chain = PlanTo(c)[i - 1] /\ CatOf(run.chain) /\ Follows
  BY <1>0, <1>1 DEF FilesInv, StepInv
<1>3. run.resume /\ stamp[i] # None /\ stamp[i].key = KeyNow /\ \A o \in stamp[i].outs : Exists(o)
  BY <1>0 DEF Cached, TakenOver
<1>4. PICK g \in Choices, n \in 0..N :
     /\ n >= i - 1 /\ Agree(g, c, i - 1)
     /\ StampsOf(g, n, Steps)
     /\ MaskOf(g, n) \/ (Emptied /\ run.chain = <<>>)
     /\ ~run.resume => n = i - 1
  BY <1>0, <1>2 DEF Follows
<1>5. KeyNow = Append(run.chain, <<i, c[i]>>) /\ run.chain \in Seq(Listed)
  BY <1>0, <1>1, KeyNowType DEF Value, ResumeTypeInv
<1>6. i \in Nat /\ i \in 0..N /\ i - 1 \in 0..N /\ (i + 1) - 1 = i
  BY <1>1, ConstantTypes
<1>7. i <= n /\ Taken(g[i]) /\ stamp[i] = StampOf(g, i) /\ copy[i] = Replayed(PlanTo(g)[i]).cat
  BY <1>1, <1>3, <1>4 DEF StampsOf
<1>8. g[i] = c[i]
  <2>1. PlanTo(g)[i - 1] = PlanTo(c)[i - 1]
    BY <1>1, <1>4, <1>6, i - 1 <= i - 1, PlanAgrees
  <2>2. PlanTo(g)[i] = Append(PlanTo(g)[i - 1], <<i, g[i]>>)
    BY <1>1, <1>7, PlanTaken
  <2>3. PlanTo(g)[i] = Append(run.chain, <<i, c[i]>>)
    BY <1>3, <1>5, <1>7 DEF StampOf
  <2>4. <<i, g[i]>> \in Listed /\ <<i, c[i]>> \in Listed
    BY <1>1, ConstantTypes DEF Listed
  <2>5. <<i, g[i]>> = <<i, c[i]>>
    BY <1>2, <1>5, <2>1, <2>2, <2>3, <2>4, SameKey
  <2> QED
    BY <2>5
<1>9. Taken(c[i]) /\ (run.chain = <<>> => Kinds[i] = "set")
  <2>1. Taken(c[i]) /\ Value = c[i]
    BY <1>0, <1>7, <1>8 DEF Value
  <2> QED
    BY RunsWhenChosen, <1>0, <1>1, <2>1 DEF FilesInv
<1>10. Agree(g, c, i)
  BY <1>1, <1>4, <1>8, AgreeStep
<1>11. KeyNow = PlanTo(c)[i] /\ PlanTo(g)[i] = PlanTo(c)[i]
  <2>1. KeyNow = PlanTo(c)[i]
    BY <1>1, <1>2, <1>9, <1>5, PlanTaken
  <2>2. PlanTo(g)[i] = PlanTo(c)[i]
    BY <1>1, <1>6, <1>10, i <= i, PlanAgrees
  <2> QED
    BY <2>1, <2>2
<1>12. MaskOf(g, n)
  <2>1. Emptied /\ run.chain = <<>> => FALSE
    BY <1>9, <1>3, <1>7 DEF Emptied, Exists, StampOf, Changed
  <2> QED
    BY <1>4, <2>1
<1>13. Follows'
  <2>1. StampsOf(g, n, Steps)' /\ MaskOf(g, n)'
    BY <1>1, <1>4, <1>12 DEF StampsOf, MaskOf
  <2>2. run'.i - 1 = i
    BY <1>1, <1>6
  <2> QED
    BY <1>1, <1>3, <1>7, <1>10, <2>1, <2>2 DEF Follows
<1>14. StepInv'
  <2>1. cat' = Replayed(PlanTo(c)[i]).cat
    BY <1>1, <1>7, <1>11
  <2>2. run'.i - 1 = i
    BY <1>1, <1>6
  <2> QED
    BY <1>1, <1>11, <1>13, <2>1, <2>2 DEF StepInv, CatOf
<1> QED
  BY <1>1, <1>14 DEF FilesInv, LeftInv, TakeInv

(* The field starts over. *)
LEMMA RewindStep ==
  ASSUME ResumeTypeInv, FilesInv, Rewind
  PROVE  FilesInv'
<1>1. run.phase = "step" /\ UNCHANGED <<cat, mask, copy, stamp>> /\ run'.phase = "clean" /\ ~run'.resume
  BY DEF Rewind, AtStep, files, ResumeTypeInv
<1>2. PICK g \in Choices, n \in 0..N : StampsOf(g, n, Steps) /\ (MaskOf(g, n) \/ Emptied)
  BY <1>1 DEF FilesInv, StepInv, Follows
<1>3. (StampsOf(g, n, Steps) /\ (MaskOf(g, n) \/ Emptied))'
  BY <1>1, <1>2 DEF StampsOf, MaskOf, Emptied
<1>4. Left'
  BY <1>3 DEF Left
<1> QED
  BY <1>1, <1>4 DEF FilesInv, LeftInv, StepInv, TakeInv

(* A step is begun: no stamp follows it, and the mask is the one the steps     *)
(* before it leave - a step that had grown it would have been taken over.      *)
LEMMA BeginStep ==
  ASSUME SetsFirst, ChangesRedone, ResumeTypeInv, FilesInv, Begin
  PROVE  FilesInv'
<1>0. PICK c, i : c = run.choice /\ i = run.i
  OBVIOUS
<1>1. /\ AtStep /\ run.phase = "step" /\ i \in Steps /\ c \in Choices
      /\ UNCHANGED <<cat, mask, copy, stamp>>
      /\ run'.phase = "run" /\ run'.i = i /\ run'.chain = run.chain
      /\ run'.choice = c /\ run'.resume = run.resume
  BY <1>0 DEF Begin, AtStep, ResumeTypeInv, files
<1>2. run.chain = PlanTo(c)[i - 1] /\ CatOf(run.chain) /\ Follows
  BY <1>0, <1>1 DEF FilesInv, StepInv
<1>3. Value = c[i] /\ c[i] # Off
  BY RunsWhenChosen, <1>0, <1>1 DEF Begin, FilesInv, Value
<1>4. /\ ~TakenOver(i, KeyNow)
      /\ run.resume => \A j \in Steps : j > i => stamp[j] = None
  BY <1>0 DEF Begin, Later
<1>5. PICK g \in Choices, n \in 0..N :
     /\ n >= i - 1 /\ Agree(g, c, i - 1)
     /\ StampsOf(g, n, Steps)
     /\ MaskOf(g, n) \/ (Emptied /\ run.chain = <<>>)
     /\ ~run.resume => n = i - 1
  BY <1>0, <1>2 DEF Follows
<1>6. KeyNow = Append(run.chain, <<i, c[i]>>)
  BY <1>0, <1>1, KeyNowType DEF Value
<1>7. i \in Nat /\ i \in 0..N /\ i - 1 \in 0..N /\ n \in Nat /\ Steps = 1..N /\ N \in Nat
  BY <1>1, ConstantTypes
<1>8. PICK m : m = IF n > i THEN i ELSE n
  OBVIOUS
<1>9. m \in {i - 1, i} /\ m \in 0..N /\ m <= n
  BY <1>5, <1>7, <1>8
<1>10. ASSUME NEW j \in Steps, m < j, j <= n PROVE ~Taken(g[j]) /\ run.resume /\ j > i
  <2>1. n > i /\ j > i /\ run.resume
    BY <1>5, <1>7, <1>8, <1>10
  <2>2. stamp[j] = None
    BY <1>4, <2>1
  <2> QED
    BY <1>5, <1>10, <2>1, <2>2, StampIsNone DEF StampsOf
<1>11. PlanTo(g)[n] = PlanTo(g)[m]
  BY <1>9, <1>10, PlanSkips
<1>12. StampsOf(g, m, Steps)
  <2>1. \A j \in Steps : j <= m => j <= n
    BY <1>7, <1>9
  <2>2. \A j \in Steps : ~(j <= m) => (m < j)
    BY <1>7, <1>9
  <2> QED
    BY <1>5, <1>10, <2>1, <2>2 DEF StampsOf
<1>13. PlanTo(g)[i - 1] = run.chain
  BY <1>1, <1>2, <1>5, <1>7, i - 1 <= i - 1, PlanAgrees
<1>14. m = i => Kinds[i] # "grow" \/ ~Taken(g[i]) \/ (Emptied /\ run.chain = <<>>)
  <2>1. SUFFICES ASSUME m = i, Kinds[i] = "grow", Taken(g[i]), MaskOf(g, n) PROVE FALSE
    BY <1>5
  <2>2. g[i] = c[i]
    BY <1>1, <1>5, <2>1, AgreeStep
  <2>3. stamp[i] = StampOf(g, i) /\ run.resume
    BY <1>1, <1>5, <1>7, <1>9, <2>1 DEF StampsOf
  <2>4. PlanTo(g)[i] = Append(PlanTo(g)[i - 1], <<i, g[i]>>)
    BY <1>1, <2>1, PlanTaken
  <2>5. stamp[i] # None
    BY <1>1, <2>3, StampIsNone
  <2>6. stamp[i].key = KeyNow /\ stamp[i].outs = {"mask"}
    BY <1>6, <1>13, <2>1, <2>2, <2>3, <2>4 DEF StampOf, Changed
  <2>7. mask # None
    BY <1>1, <1>11, <2>1, PlanMask DEF MaskOf
  <2> QED
    BY <1>4, <2>3, <2>5, <2>6, <2>7 DEF TakenOver, Exists
<1>15. Replayed(PlanTo(g)[m]).mask = Replayed(run.chain).mask
  <2>1. CASE m = i - 1
    BY <1>13, <2>1
  <2>2. CASE m = i
    BY <1>1, <1>13, <1>14, <2>2, PlanMask
  <2> QED
    BY <1>9, <2>1, <2>2
<1>16. mask = Replayed(run.chain).mask /\ MaskOf(g, m)
  <2>1. CASE MaskOf(g, n)
    BY <1>11, <1>15, <2>1 DEF MaskOf
  <2>2. CASE Emptied /\ run.chain = <<>>
    BY <1>15, <2>2, ReplayedEmpty DEF MaskOf, Emptied
  <2> QED
    BY <1>5, <2>1, <2>2
<1>17. Taking'
  <2>1. StampsOf(g, m, Steps)' /\ MaskOf(g, m)'
    BY <1>1, <1>12, <1>16 DEF StampsOf, MaskOf
  <2> QED
    BY <1>1, <1>5, <1>9, <2>1 DEF Taking
<1>18. TakeInv'
  <2>1. Value' = c[i]
    BY <1>1 DEF Value
  <2>2. CatOf(run.chain)' /\ mask' = Replayed(run'.chain).mask
    BY <1>1, <1>2, <1>16 DEF CatOf
  <2> QED
    BY <1>1, <1>2, <1>3, <1>17, <2>1, <2>2 DEF TakeInv
<1> QED
  BY <1>1, <1>18 DEF FilesInv, LeftInv, StepInv

(* What is known while a step is taken. *)
LEMMA TakingFacts ==
  ASSUME SetsFirst, ResumeTypeInv, FilesInv, run.phase \in {"run", "copy", "stamp"},
         run.phase = "run" => Value # Void
  PROVE  /\ run.i \in Steps /\ run.choice \in Choices /\ Value = run.choice[run.i] /\ Taken(Value)
         /\ run.chain = PlanTo(run.choice)[run.i - 1]
         /\ KeyNow = PlanTo(run.choice)[run.i] /\ KeyNow # <<>>
         /\ Replayed(KeyNow).cat = CatAfter(run.i, Value, Replayed(run.chain).cat, Replayed(run.chain).mask)
         /\ Replayed(KeyNow).mask = MaskAfter(run.i, Value, Replayed(run.chain).mask)
         /\ Replayed(KeyNow).cat # None
         /\ run.chain = <<>> => Kinds[run.i] = "set"
<1>0. PICK c, i : c = run.choice /\ i = run.i
  OBVIOUS
<1>1. i \in Steps /\ c \in Choices /\ Value = c[i] /\ Taken(c[i]) /\ run.chain = PlanTo(c)[i - 1]
  BY <1>0 DEF ResumeTypeInv, FilesInv, TakeInv, Value, Taken
<1>2. KeyNow = Append(run.chain, <<i, c[i]>>)
  BY <1>0, <1>1, KeyNowType DEF Value
<1>3. /\ PlanTo(c)[i] = Append(PlanTo(c)[i - 1], <<i, c[i]>>) /\ PlanTo(c)[i] # <<>>
      /\ Replayed(PlanTo(c)[i]) = Redone(<<i, c[i]>>, Replayed(PlanTo(c)[i - 1]))
      /\ i \in 0..N
  BY <1>1, PlanTaken
<1>4. PlanGood(c, i)
  BY <1>1, <1>3, PlanIsGood
<1>5. Replayed(PlanTo(c)[i]).cat # None
  BY <1>3, <1>4 DEF PlanGood
<1>6. run.chain = <<>> => Kinds[i] = "set"
  BY <1>1, PlanMask
<1>7. KeyNow = PlanTo(c)[i]
  BY <1>1, <1>2, <1>3
<1>8. /\ Replayed(KeyNow).cat = CatAfter(i, c[i], Replayed(run.chain).cat, Replayed(run.chain).mask)
      /\ Replayed(KeyNow).mask = MaskAfter(i, c[i], Replayed(run.chain).mask)
  BY <1>1, <1>3, <1>7, RedoneFields
<1> QED
  BY <1>0, <1>1, <1>3, <1>5, <1>6, <1>7, <1>8

(* A step that finds nothing to do is passed like one that is left out. *)
LEMMA DeclineStep ==
  ASSUME SetsFirst, ChangesRedone, ResumeTypeInv, FilesInv, Decline
  PROVE  FilesInv'
<1>0. PICK c, i, chain : c = run.choice /\ i = run.i /\ chain = run.chain
  OBVIOUS
<1>1. /\ run.phase = "run" /\ i \in Steps /\ c \in Choices /\ ~Taken(c[i])
      /\ UNCHANGED <<cat, mask, copy, stamp>>
      /\ run'.phase = "step" /\ run'.i = i + 1 /\ run'.chain = chain
      /\ run'.choice = c /\ run'.resume = run.resume
  BY <1>0 DEF Decline, Value, Taken, ResumeTypeInv, files
<1>2. chain = PlanTo(c)[i - 1] /\ CatOf(chain) /\ Taking
  BY <1>0, <1>1 DEF FilesInv, TakeInv
<1>3. PICK g \in Choices, n \in {i - 1, i} : Agree(g, c, i - 1) /\ StampsOf(g, n, Steps) /\ MaskOf(g, n)
  BY <1>0, <1>1, <1>2 DEF Taking
<1>4. (i + 1) - 1 = i /\ i \in 0..N /\ i - 1 \in 0..N /\ i >= i
  BY <1>1, ConstantTypes
<1>5. StampsOf(g, i, Steps) /\ MaskOf(g, i)
  <2>1. CASE n = i
    BY <1>3, <2>1
  <2>2. CASE n = i - 1
    BY <1>1, <1>3, <1>4, <2>2, StampsPass DEF MaskOf
  <2> QED
    BY <1>3, <2>1, <2>2
<1>6. StampsOf(g, i, Steps)' /\ MaskOf(g, i)'
  BY <1>1, <1>5 DEF StampsOf, MaskOf
<1>7. Agree(g, c, i)
  BY <1>1, <1>3, AgreeStep
<1>8. Follows'
  BY <1>1, <1>4, <1>6, <1>7 DEF Follows
<1>9. StepInv'
  <2>1. chain = PlanTo(c)[i]
    BY <1>1, <1>2, PlanTaken
  <2>2. CatOf(chain)'
    BY <1>1, <1>2 DEF CatOf
  <2> QED
    BY <1>1, <1>4, <1>8, <2>1, <2>2 DEF StepInv
<1> QED
  BY <1>1, <1>9 DEF FilesInv, LeftInv, TakeInv

(* The edit: the files are what the run's steps and this one leave. *)
LEMMA WorkStep ==
  ASSUME SetsFirst, ChangesRedone, ResumeTypeInv, FilesInv, Work
  PROVE  FilesInv'
<1>0. PICK c, i, chain, key : c = run.choice /\ i = run.i /\ chain = run.chain /\ key = KeyNow
  OBVIOUS
<1>1. /\ run.phase = "run" /\ Value # Void /\ UNCHANGED <<copy, stamp>>
      /\ cat' = CatAfter(i, c[i], cat, mask) /\ mask' = MaskAfter(i, c[i], mask)
      /\ run'.phase = "copy" /\ run'.i = i /\ run'.chain = chain
      /\ run'.choice = c /\ run'.resume = run.resume
  BY <1>0 DEF Work, Value, ResumeTypeInv
<1>2. /\ i \in Steps /\ c \in Choices /\ Value = c[i] /\ Taken(c[i])
      /\ chain = PlanTo(c)[i - 1] /\ key = PlanTo(c)[i]
      /\ Replayed(key).cat = CatAfter(i, c[i], Replayed(chain).cat, Replayed(chain).mask)
      /\ Replayed(key).mask = MaskAfter(i, c[i], Replayed(chain).mask)
      /\ chain = <<>> => Kinds[i] = "set"
  BY <1>0, <1>1, TakingFacts
<1>3. CatOf(chain) /\ mask = Replayed(chain).mask /\ Taking
  BY <1>0, <1>1 DEF FilesInv, TakeInv
<1>4. cat' = Replayed(key).cat
  <2>1. CASE chain = <<>>
    BY <1>1, <1>2, <1>3, <2>1 DEF CatAfter
  <2>2. CASE chain # <<>>
    BY <1>1, <1>2, <1>3, <2>2 DEF CatOf
  <2> QED
    BY <2>1, <2>2
<1>5. mask' = Replayed(key).mask /\ (Kinds[i] # "grow" => mask' = mask)
  BY <1>1, <1>2, <1>3 DEF MaskAfter
<1>6. PICK g \in Choices, n \in {i - 1, i} : Agree(g, c, i - 1) /\ StampsOf(g, n, Steps) /\ MaskOf(g, n)
  BY <1>0, <1>1, <1>3 DEF Taking
<1>7. StampsOf(g, n, Steps)' /\ (Kinds[i] # "grow" => MaskOf(g, n)')
  BY <1>1, <1>5, <1>6 DEF StampsOf, MaskOf
<1>8. Taking'
  BY <1>1, <1>6, <1>7 DEF Taking
<1>9. Value' = c[i] /\ KeyNow' = key
  BY <1>0, <1>1, <1>2 DEF Value, KeyNow, Key
<1>10. TakeInv'
  BY <1>1, <1>2, <1>4, <1>5, <1>8, <1>9 DEF TakeInv, Taken
<1> QED
  BY <1>1, <1>10 DEF FilesInv, LeftInv, StepInv

(* A step that fails does not touch the mask. *)
LEMMA FailStep ==
  ASSUME SetsFirst, ResumeTypeInv, FilesInv, Fail
  PROVE  FilesInv'
<1>0. PICK c, i : c = run.choice /\ i = run.i
  OBVIOUS
<1>1. run.phase = "run" /\ UNCHANGED <<mask, copy, stamp>> /\ run'.phase = "idle"
  BY DEF Fail, Idle
<1>2. i \in Steps /\ i \in 0..N /\ i - 1 \in 0..N
  BY <1>0, <1>1, ConstantTypes DEF ResumeTypeInv
<1>3. PICK g \in Choices, n \in {i - 1, i} : StampsOf(g, n, Steps) /\ MaskOf(g, n)
  BY <1>0, <1>1 DEF FilesInv, TakeInv, Taking
<1>4. StampsOf(g, n, Steps)' /\ MaskOf(g, n)'
  BY <1>1, <1>3 DEF StampsOf, MaskOf
<1>5. n \in 0..N
  BY <1>2, <1>3
<1> QED
  BY <1>1, <1>4, <1>5 DEF FilesInv, LeftInv, Left, StepInv, TakeInv

LEMMA CopyCatStep ==
  ASSUME SetsFirst, ResumeTypeInv, FilesInv, CopyCat
  PROVE  FilesInv'
<1>0. PICK c, i, chain, key : c = run.choice /\ i = run.i /\ chain = run.chain /\ key = KeyNow
  OBVIOUS
<1>1. /\ run.phase = "copy" /\ UNCHANGED <<cat, mask, stamp>>
      /\ copy' = IF cat = None THEN copy ELSE [copy EXCEPT ![i] = cat]
      /\ run'.phase = "stamp" /\ run'.i = i /\ run'.chain = chain
      /\ run'.choice = c /\ run'.resume = run.resume
  BY <1>0 DEF CopyCat, ResumeTypeInv
<1>2. /\ i \in Steps /\ c \in Choices /\ Value = c[i] /\ Taken(c[i])
      /\ chain = PlanTo(c)[i - 1] /\ Replayed(key).cat # None
  BY <1>0, <1>1, TakingFacts
<1>3. cat = Replayed(key).cat /\ mask = Replayed(key).mask /\ Taking
  BY <1>0, <1>1 DEF FilesInv, TakeInv
<1>4. copy' = [copy EXCEPT ![i] = cat] /\ copy \in [Steps -> Catalogs \cup {None}]
  BY <1>1, <1>2, <1>3 DEF ResumeTypeInv
<1>5. PICK g \in Choices, n \in {i - 1, i} :
        Agree(g, c, i - 1) /\ StampsOf(g, n, Steps) /\ (Kinds[i] # "grow" => MaskOf(g, n))
  BY <1>0, <1>1, <1>3 DEF Taking
<1>6. StampsOf(g, n, Steps \ {i})' /\ (Kinds[i] # "grow" => MaskOf(g, n)')
  BY <1>1, <1>4, <1>5 DEF StampsOf, MaskOf
<1>7. Taking'
  BY <1>1, <1>5, <1>6 DEF Taking
<1>8. Value' = c[i] /\ KeyNow' = key
  BY <1>0, <1>1, <1>2 DEF Value, KeyNow, Key
<1>9. copy'[i] = cat
  BY <1>2, <1>4
<1>10. TakeInv'
  BY <1>1, <1>2, <1>3, <1>7, <1>8, <1>9 DEF TakeInv, Taken
<1> QED
  BY <1>1, <1>10 DEF FilesInv, LeftInv, StepInv

(* With its stamp the step is one of the choice's. *)
LEMMA WriteStampStep ==
  ASSUME SetsFirst, ResumeTypeInv, FilesInv, WriteStamp
  PROVE  FilesInv'
<1>0. PICK c, i, key : c = run.choice /\ i = run.i /\ key = KeyNow
  OBVIOUS
<1>1. /\ run.phase = "stamp" /\ UNCHANGED <<cat, mask, copy>>
      /\ stamp' = [stamp EXCEPT ![i] = [key |-> key, outs |-> Changed(i)]]
      /\ run'.phase = "step" /\ run'.i = i + 1 /\ run'.chain = key
      /\ run'.choice = c /\ run'.resume = run.resume
  BY <1>0 DEF WriteStamp, ResumeTypeInv
<1>2. i \in Steps /\ c \in Choices /\ Taken(c[i]) /\ key = PlanTo(c)[i]
  BY <1>0, <1>1, TakingFacts
<1>3. cat = Replayed(key).cat /\ mask = Replayed(key).mask /\ copy[i] = cat /\ Taking
  BY <1>0, <1>1 DEF FilesInv, TakeInv
<1>4. PICK g \in Choices, n \in {i - 1, i} : Agree(g, c, i - 1) /\ StampsOf(g, n, Steps \ {i})
  BY <1>0, <1>1, <1>3 DEF Taking
<1>5. i \in Nat /\ i \in 0..N /\ i - 1 \in 0..N /\ Steps = 1..N /\ N \in Nat /\ (i + 1) - 1 = i
  BY <1>2, ConstantTypes
<1>6. stamp' = [stamp EXCEPT ![i] = StampOf(c, i)] /\ stamp \in [Steps -> Stamps \cup {None}]
  BY <1>1, <1>2 DEF StampOf, ResumeTypeInv
<1>7. ASSUME NEW j \in Steps, j # i
      PROVE  IF j <= i /\ Taken(c[j])
                THEN stamp[j] = StampOf(c, j) /\ copy[j] = Replayed(PlanTo(c)[j]).cat
                ELSE stamp[j] = None
  <2>1. CASE j > i
    <3>1. ~(j <= n) /\ ~(j <= i)
      BY <1>4, <1>5, <2>1
    <3> QED
      BY <1>4, <1>7, <3>1 DEF StampsOf
  <2>2. CASE j < i
    <3>1. j <= n /\ j <= i /\ j <= i - 1 /\ j \in 0..N
      BY <1>4, <1>5, <2>2
    <3>2. g[j] = c[j]
      BY <1>4, <3>1 DEF Agree
    <3>3. PlanTo(g)[j] = PlanTo(c)[j]
      BY <1>2, <1>4, <1>5, <3>1, PlanAgrees
    <3> QED
      BY <1>4, <1>7, <3>1, <3>2, <3>3 DEF StampsOf, StampOf
  <2> QED
    BY <1>5, <1>7, <2>1, <2>2
<1>8. StampsOf(c, i, Steps)'
  <2>1. stamp'[i] = StampOf(c, i) /\ copy'[i] = Replayed(PlanTo(c)[i]).cat
    BY <1>1, <1>2, <1>3, <1>6
  <2>2. \A j \in Steps : j # i => stamp'[j] = stamp[j] /\ copy'[j] = copy[j]
    BY <1>1, <1>6
  <2>3. i <= i
    BY <1>5
  <2> QED
    BY <1>2, <1>7, <2>1, <2>2, <2>3 DEF StampsOf
<1>9. MaskOf(c, i)'
  BY <1>1, <1>2, <1>3 DEF MaskOf
<1>10. Follows'
  <2>1. Agree(c, c, i) /\ i >= i
    BY <1>5 DEF Agree
  <2> QED
    BY <1>1, <1>2, <1>5, <1>8, <1>9, <2>1 DEF Follows
<1>11. StepInv'
  BY <1>1, <1>2, <1>3, <1>5, <1>10 DEF StepInv, CatOf
<1> QED
  BY <1>1, <1>11 DEF FilesInv, LeftInv, TakeInv

(* A run that ends or is killed leaves the stamps of some choice's first steps *)
(* and their mask.                                                             *)
LEMMA FinishStep ==
  ASSUME ResumeTypeInv, FilesInv, Finish
  PROVE  FilesInv'
<1>1. run.phase = "step" /\ UNCHANGED <<cat, mask, copy, stamp>> /\ run'.phase = "idle"
  BY DEF Finish, files, Idle
<1>2. PICK g \in Choices, n \in 0..N : StampsOf(g, n, Steps) /\ (MaskOf(g, n) \/ Emptied)
  BY <1>1 DEF FilesInv, StepInv, Follows
<1>3. (StampsOf(g, n, Steps) /\ (MaskOf(g, n) \/ Emptied))'
  BY <1>1, <1>2 DEF StampsOf, MaskOf, Emptied
<1> QED
  BY <1>1, <1>3 DEF FilesInv, LeftInv, Left, StepInv, TakeInv

LEMMA KillStep ==
  ASSUME SetsFirst, KillsSpareStamps, ResumeTypeInv, FilesInv, Kill
  PROVE  FilesInv'
<1>0. PICK i : i = run.i
  OBVIOUS
<1>1. /\ run.phase \in {"clean", "emptied", "step", "run", "copy"}
      /\ run.phase = "copy" => Kinds[i] # "grow"
      /\ UNCHANGED <<cat, mask, copy, stamp>> /\ run'.phase = "idle"
  BY <1>0, SessionResumeAssumption DEF Kill, KillsSpareStamps, Idle, Phases
<1>2. \E g \in Choices, n \in 0..N : StampsOf(g, n, Steps) /\ (MaskOf(g, n) \/ Emptied)
  <2>1. CASE run.phase \in {"clean", "emptied"}
    BY <2>1 DEF FilesInv, LeftInv, Left
  <2>2. CASE run.phase = "step"
    BY <2>2 DEF FilesInv, StepInv, Follows
  <2>3. CASE run.phase \in {"run", "copy"}
    <3>1. i \in 0..N /\ i - 1 \in 0..N
      BY <1>0, <2>3, ConstantTypes DEF ResumeTypeInv
    <3>2. \E g \in Choices : \E n \in {i - 1, i} : StampsOf(g, n, Steps) /\ MaskOf(g, n)
      BY <1>0, <1>1, <2>3 DEF FilesInv, TakeInv, Taking
    <3> QED
      BY <3>1, <3>2
  <2> QED
    BY <1>1, <2>1, <2>2, <2>3
<1>3. PICK g \in Choices, n \in 0..N : StampsOf(g, n, Steps) /\ (MaskOf(g, n) \/ Emptied)
  BY <1>2
<1>4. (StampsOf(g, n, Steps) /\ (MaskOf(g, n) \/ Emptied))'
  BY <1>1, <1>3 DEF StampsOf, MaskOf, Emptied
<1> QED
  BY <1>1, <1>4 DEF FilesInv, LeftInv, Left, StepInv, TakeInv

LEMMA FilesStep ==
  ASSUME SetsFirst, ChangesRedone, KillsSpareStamps
  PROVE  ResumeTypeInv /\ FilesInv /\ [ResumeNext]_resumeVars => FilesInv'
<1> SUFFICES ASSUME ResumeTypeInv, FilesInv, [ResumeNext]_resumeVars PROVE FilesInv'
  OBVIOUS
<1>1. CASE UNCHANGED resumeVars
  <2>1. UNCHANGED <<cat, mask, copy, stamp, run>>
    BY <1>1 DEF resumeVars, files
  <2>2. LeftInv'
    BY <2>1 DEF FilesInv, LeftInv, Left, StampsOf, MaskOf, Emptied
  <2>3. StepInv'
    BY <2>1 DEF FilesInv, StepInv, CatOf, Follows, StampsOf, MaskOf, Emptied
  <2>4. TakeInv'
    BY <2>1 DEF FilesInv, TakeInv, CatOf, Taking, StampsOf, MaskOf, Value, KeyNow, Key
  <2> QED
    BY <2>2, <2>3, <2>4 DEF FilesInv
<1> QED
  BY <1>1, StartStep, CleanWorkStep, CleanStepsStep, SkipStep, CachedStep, RewindStep, BeginStep,
     DeclineStep, WorkStep, FailStep, CopyCatStep, WriteStampStep, FinishStep, KillStep DEF ResumeNext

LEMMA FilesInit == ASSUME SetsFirst PROVE ResumeInit => FilesInv
<1> SUFFICES ASSUME ResumeInit PROVE FilesInv
  OBVIOUS
<1>1. PICK g \in Choices : run.choice = g
  BY DEF ResumeInit
<1>2. StampsOf(g, 0, Steps) /\ Emptied /\ 0 \in 0..N
  <2>1. \A i \in Steps : ~(i <= 0)
    BY ConstantTypes
  <2> QED
    BY <2>1, ConstantTypes DEF ResumeInit, StampsOf, Emptied
<1> QED
  BY <1>2, <1>1 DEF ResumeInit, FilesInv, LeftInv, Left, StepInv, TakeInv

(* The invariant that ties stamps, copies and mask to one choice is inductive. *)
THEOREM FilesFollowStamps ==
  ASSUME SetsFirst, ChangesRedone, KillsSpareStamps
  PROVE  ResumeSpec => []FilesInv
BY ResumeTypes, FilesInit, FilesStep, PTL DEF ResumeSpec

(* What --resume restores with a stamp is what the steps its key lists leave. *)
THEOREM CopiesAreOfTheirStamps ==
  ASSUME SetsFirst, ChangesRedone, KillsSpareStamps
  PROVE  ResumeSpec => []CopiesMatchStamps
<1>1. ResumeTypeInv /\ FilesInv => CopiesMatchStamps
  <2> SUFFICES ASSUME ResumeTypeInv, FilesInv, NEW i \in Steps, stamp[i] # None,
                      ~(run.phase = "stamp" /\ run.i = i)
               PROVE  copy[i] = Replayed(stamp[i].key).cat
    BY DEF CopiesMatchStamps
  <2>1. run.phase \in Phases
    BY DEF ResumeTypeInv
  <2>2. \E g \in Choices : \E n : \E S : i \in S /\ StampsOf(g, n, S)
    <3>1. CASE run.phase \in {"idle", "clean", "emptied"}
      BY <3>1 DEF FilesInv, LeftInv, Left
    <3>2. CASE run.phase = "step"
      BY <3>2 DEF FilesInv, StepInv, Follows
    <3>3. CASE run.phase \in {"run", "copy", "stamp"}
      BY <3>3 DEF FilesInv, TakeInv, Taking
    <3> QED
      BY <2>1, <3>1, <3>2, <3>3 DEF Phases
  <2>3. PICK g \in Choices : stamp[i] = StampOf(g, i) /\ copy[i] = Replayed(PlanTo(g)[i]).cat
    BY <2>2 DEF StampsOf
  <2>4. StampOf(g, i).key = PlanTo(g)[i]
    BY DEF StampOf
  <2> QED
    BY <2>3, <2>4
<1> QED
  BY <1>1, ResumeTypes, FilesFollowStamps, PTL

-----------------------------------------------------------------------------
(* A finished run. *)
OkInv ==
  run.status = "ok" =>
    /\ run.phase = "idle"
    /\ cat = Replayed(Plan(run.choice)).cat /\ mask = Replayed(Plan(run.choice)).mask

LEMMA PlanIsTaken ==
  ASSUME SetsFirst, NEW c \in Choices
  PROVE  Plan(c) = PlanTo(c)[N] /\ Plan(c) # <<>> /\ Replayed(Plan(c)).cat # None
<1>1. N \in 0..N /\ Steps = 1..N
  BY ConstantTypes
<1>2. PlanGood(c, N)
  BY <1>1, PlanIsGood
<1> QED
  BY <1>1, <1>2 DEF PlanGood, Plan, SetsFirst

(* At the end of a run the files are what its choice leaves, and the stamps are *)
(* those of its choice.                                                         *)
LEMMA FinishedFiles ==
  ASSUME SetsFirst, ResumeTypeInv, FilesInv, Finish
  PROVE  /\ run.choice \in Choices
         /\ cat = Replayed(Plan(run.choice)).cat /\ MaskOf(run.choice, N)
         /\ StampsOf(run.choice, N, Steps)
<1>0. PICK c : c = run.choice
  OBVIOUS
<1>1. run.phase = "step" /\ c \in Choices /\ N \in Nat /\ N \in 0..N /\ run.i - 1 = N
  BY <1>0, ConstantTypes DEF Finish, ResumeTypeInv
<1>2. run.chain = PlanTo(c)[N] /\ CatOf(run.chain) /\ Follows
  BY <1>0, <1>1 DEF FilesInv, StepInv
<1>3. run.chain = Plan(c) /\ run.chain # <<>>
  BY <1>1, <1>2, PlanIsTaken
<1>4. PICK g \in Choices, n \in 0..N :
        n >= N /\ Agree(g, c, N) /\ StampsOf(g, n, Steps) /\ MaskOf(g, n)
  BY <1>0, <1>1, <1>2, <1>3 DEF Follows
<1>5. n = N
  BY <1>1, <1>4
<1>6. PlanTo(g)[N] = PlanTo(c)[N]
  BY <1>1, <1>4, N <= N, PlanAgrees
<1>7. StampsOf(c, N, Steps)
  BY <1>1, <1>4, <1>5, StampsAgree
<1> QED
  BY <1>0, <1>1, <1>2, <1>3, <1>4, <1>5, <1>6, <1>7 DEF CatOf, MaskOf

LEMMA OkStep ==
  ASSUME SetsFirst
  PROVE  ResumeTypeInv /\ FilesInv /\ OkInv /\ [ResumeNext]_resumeVars => OkInv'
<1> SUFFICES ASSUME ResumeTypeInv, FilesInv, OkInv, [ResumeNext]_resumeVars PROVE OkInv'
  OBVIOUS
<1>1. CASE Finish
  <2>1. UNCHANGED <<cat, mask>> /\ run'.choice = run.choice /\ run'.phase = "idle"
    BY <1>1 DEF Finish, files, Idle
  <2>2. mask = Replayed(Plan(run.choice)).mask
    BY <1>1, FinishedFiles DEF MaskOf, Plan
  <2> QED
    BY <1>1, <2>1, <2>2, FinishedFiles DEF OkInv
<1>2. CASE UNCHANGED resumeVars
  BY <1>2 DEF resumeVars, files, OkInv
<1>3. CASE ~Finish /\ ~UNCHANGED resumeVars
  <2>1. run'.status # "ok"
    <3>1. CASE \E c \in Choices, resume \in BOOLEAN : Start(c, resume)
      BY <3>1 DEF Start
    <3>2. CASE Fail \/ Kill
      BY <3>2 DEF Fail, Kill, Idle
    <3>3. CASE CleanWork \/ CleanSteps \/ Skip \/ Cached \/ Rewind \/ Begin \/ Decline \/ Work \/ CopyCat \/ WriteStamp
      <4>1. run.phase # "idle"
        BY <3>3 DEF CleanWork, CleanSteps, Skip, Cached, Rewind, Begin, Decline, Work, CopyCat, WriteStamp, AtStep
      <4>2. run.status = "running"
        BY <4>1 DEF ResumeTypeInv
      <4>3. run'.status = run.status
        BY <3>3 DEF CleanWork, CleanSteps, Skip, Cached, Rewind, Begin, Decline, Work, CopyCat, WriteStamp, ResumeTypeInv
      <4> QED
        BY <4>2, <4>3
    <3> QED
      BY <1>3, <3>1, <3>2, <3>3 DEF ResumeNext
  <2> QED
    BY <2>1 DEF OkInv
<1> QED
  BY <1>1, <1>2, <1>3

(* A run that ends ok leaves what a first run of its choice would leave, catalog  *)
(* and mask, whatever was run, failed or killed in the directory before.          *)
THEOREM ResumedIsLikeFresh ==
  ASSUME SetsFirst, ChangesRedone, KillsSpareStamps
  PROVE  ResumeSpec => []ResumeLikeFresh
<1>1. ResumeInit => OkInv
  BY DEF ResumeInit, OkInv
<1>2. OkInv => ResumeLikeFresh
  BY DEF OkInv, ResumeLikeFresh
<1> QED
  BY <1>1, <1>2, OkStep, ResumeTypes, FilesFollowStamps, PTL DEF ResumeSpec
-----------------------------------------------------------------------------
(* A run that is resumed with the choice of the run before. *)
Whole(c) == StampsOf(c, N, Steps) /\ MaskOf(c, N) /\ cat # None

UnchangedInv ==
  last # None =>
    /\ run.phase = "idle" => Whole(last)
    /\ run.phase # "idle" /\ run.choice = last /\ run.asked /\ DeclinesLast(last) =>
          /\ run.phase = "step" \/ (run.phase = "run" /\ Value = Void)
          /\ run.resume /\ run.ran = {} /\ Whole(last)

LEMMA PlanMaskStays ==
  ASSUME SetsFirst, NEW c \in Choices, NEW k \in Steps, Kinds[k] = "grow", Taken(c[k])
  PROVE  Replayed(PlanTo(c)[N]).mask # None
<1> DEFINE S == {m \in 0..N : k <= m => Replayed(PlanTo(c)[m]).mask # None}
<1>1. 0 \in S
  BY ConstantTypes
<1>2. ASSUME NEW m \in Steps, m - 1 \in S PROVE m \in S
  <2>1. m \in 0..N /\ m \in Int /\ k \in Int
    BY ConstantTypes
  <2>2. CASE Kinds[m] = "grow" /\ Taken(c[m])
    BY <2>1, <2>2, PlanMask
  <2>3. CASE ~(Kinds[m] = "grow" /\ Taken(c[m]))
    <3>1. Replayed(PlanTo(c)[m]).mask = Replayed(PlanTo(c)[m - 1]).mask
      BY <2>3, PlanMask
    <3>2. m # k
      BY <2>3
    <3>3. k <= m => k <= m - 1
      BY <2>1, <3>2
    <3> QED
      BY <1>2, <2>1, <3>1, <3>3
  <2> QED
    BY <2>2, <2>3
<1> HIDE DEF S
<1>3. N \in S
  BY <1>1, <1>2, StepsInduction, ConstantTypes
<1> QED
  BY <1>3, ConstantTypes DEF S

(* Such a run takes every step over that it does not leave out. *)
LEMMA WholeIsTakenOver ==
  ASSUME SetsFirst, ResumeTypeInv, FilesInv, AtStep, run.resume, Taken(Value), Whole(run.choice)
  PROVE  TakenOver(run.i, KeyNow) /\ copy[run.i] # None
<1>0. PICK c, i : c = run.choice /\ i = run.i
  OBVIOUS
<1>1. run.phase = "step" /\ i \in Steps /\ c \in Choices /\ Taken(c[i]) /\ Value = c[i] /\ i <= N /\ i \in 0..N
  BY <1>0, ConstantTypes DEF AtStep, ResumeTypeInv, Value
<1>2. run.chain = PlanTo(c)[i - 1]
  BY <1>0, <1>1 DEF FilesInv, StepInv
<1>3. stamp[i] = StampOf(c, i) /\ copy[i] = Replayed(PlanTo(c)[i]).cat /\ MaskOf(c, N) /\ cat # None
  BY <1>0, <1>1 DEF Whole, StampsOf
<1>4. KeyNow = PlanTo(c)[i] /\ PlanTo(c)[i] # <<>>
  BY <1>0, <1>1, <1>2, KeyNowType, PlanTaken
<1>5. copy[i] # None
  BY <1>1, <1>3, <1>4, PlanIsGood DEF PlanGood
<1>6. stamp[i].key = KeyNow /\ stamp[i].outs = Changed(i)
  BY <1>3, <1>4 DEF StampOf
<1>7. stamp[i] # None
  BY <1>1, <1>3, StampIsNone
<1>8. Kinds[i] = "grow" => mask # None
  BY <1>1, <1>3, PlanMaskStays DEF MaskOf
<1>9. \A o \in Changed(i) : Exists(o)
  BY <1>3, <1>8 DEF Changed, Exists
<1> QED
  BY <1>0, <1>5, <1>6, <1>7, <1>9 DEF TakenOver

(* A step that finds nothing to do has no stamp, and none follows it. *)
LEMMA WholeEndsWithVoid ==
  ASSUME SetsFirst, ResumeTypeInv, AtStep, Value = Void, Whole(run.choice), DeclinesLast(run.choice)
  PROVE  ~TakenOver(run.i, KeyNow) /\ ~Later(run.i)
<1>0. PICK c, i : c = run.choice /\ i = run.i
  OBVIOUS
<1>1. i \in Steps /\ c \in Choices /\ c[i] = Void /\ ~Taken(c[i])
  BY <1>0 DEF AtStep, ResumeTypeInv, Value, Taken
<1>2. stamp[i] = None
  BY <1>0, <1>1 DEF Whole, StampsOf
<1>3. ASSUME NEW j \in Steps, j > i PROVE stamp[j] = None
  <2>1. i < j
    BY <1>1, <1>3, ConstantTypes
  <2>2. ~Taken(c[j])
    BY <1>0, <1>1, <2>1 DEF DeclinesLast, Taken
  <2> QED
    BY <1>0, <2>2 DEF Whole, StampsOf
<1> QED
  BY <1>0, <1>2, <1>3 DEF TakenOver, Later

LEMMA UnchangedStep ==
  ASSUME SetsFirst
  PROVE  ResumeTypeInv /\ FilesInv /\ UnchangedInv /\ [ResumeNext]_resumeVars => UnchangedInv'
<1> SUFFICES ASSUME ResumeTypeInv, FilesInv, UnchangedInv, [ResumeNext]_resumeVars PROVE UnchangedInv'
  OBVIOUS
<1>1. ASSUME NEW c \in Choices, NEW resume \in BOOLEAN, Start(c, resume) PROVE UnchangedInv'
  <2>1. /\ run.phase = "idle" /\ UNCHANGED <<cat, mask, copy, stamp, last>>
        /\ run'.choice = c /\ run'.asked = resume /\ run'.ran = {}
        /\ run'.phase # "idle"
        /\ resume /\ runs > 0 => run'.phase = "step" /\ run'.resume
    BY <1>1 DEF Start, files
  <2>2. last # None => runs > 0
    BY DEF ResumeTypeInv
  <2>3. last # None => Whole(last)'
    BY <2>1 DEF UnchangedInv, Whole, StampsOf, MaskOf
  <2> QED
    BY <2>1, <2>2, <2>3 DEF UnchangedInv
<1>2. CASE Finish
  <2>1. PICK c \in Choices : c = run.choice
    BY <1>2, FinishedFiles
  <2>2. UNCHANGED <<cat, mask, copy, stamp>> /\ run'.phase = "idle" /\ last' = c
    BY <1>2, <2>1 DEF Finish, files, Idle
  <2>3. Whole(c)
    BY <1>2, <2>1, FinishedFiles, PlanIsTaken DEF Whole
  <2>4. Whole(c)'
    BY <2>2, <2>3 DEF Whole, StampsOf, MaskOf
  <2> QED
    BY <2>2, <2>4 DEF UnchangedInv, Whole, StampsOf, MaskOf
<1>3. CASE Fail \/ Kill
  BY <1>3 DEF Fail, Kill, UnchangedInv
<1>4. CASE UNCHANGED resumeVars
  BY <1>4 DEF resumeVars, files, UnchangedInv, Whole, StampsOf, MaskOf, Value
<1>5. CASE CleanWork \/ CleanSteps \/ Work \/ CopyCat \/ WriteStamp
  <2>1. /\ run.phase \in {"clean", "emptied", "run", "copy", "stamp"} /\ run'.phase # "idle" /\ last' = last
        /\ run'.choice = run.choice /\ run'.asked = run.asked
    BY <1>5 DEF CleanWork, CleanSteps, Work, CopyCat, WriteStamp, ResumeTypeInv
  <2>2. ~(run.phase = "run" /\ Value = Void)
    BY <1>5, <2>1 DEF CleanWork, CleanSteps, Work, CopyCat, WriteStamp
  <2> QED
    BY <2>1, <2>2 DEF UnchangedInv
<1>6. CASE Decline
  <2>1. /\ run.phase = "run" /\ UNCHANGED <<cat, mask, copy, stamp, last>>
        /\ run'.phase = "step" /\ run'.choice = run.choice /\ run'.asked = run.asked
        /\ run'.ran = run.ran /\ run'.resume = run.resume
    BY <1>6 DEF Decline, files, ResumeTypeInv
  <2> QED
    BY <2>1 DEF UnchangedInv, Whole, StampsOf, MaskOf
<1>7. CASE Skip \/ Cached \/ Rewind \/ Begin
  <2>1. /\ AtStep /\ run.phase = "step" /\ last' = last /\ run'.choice = run.choice /\ run'.asked = run.asked
        /\ run'.ran = run.ran /\ run'.phase # "idle"
    BY <1>7 DEF Skip, Cached, Rewind, Begin, AtStep, ResumeTypeInv
  <2>2. SUFFICES ASSUME last # None, run.choice = last, run.asked, DeclinesLast(last)
                 PROVE  /\ run'.phase = "step" \/ (run'.phase = "run" /\ Value' = Void)
                        /\ run'.resume /\ run'.ran = {} /\ Whole(last)'
    BY <2>1 DEF UnchangedInv
  <2>3. PICK c \in Choices : c = last
    BY <2>2 DEF ResumeTypeInv
  <2>4. run.resume /\ run.ran = {} /\ Whole(run.choice)
    BY <2>1, <2>2 DEF UnchangedInv
  <2>5. CASE Skip
    <3>1. UNCHANGED <<cat, mask, copy, stamp>> /\ run'.phase = "step" /\ run'.resume
      BY <2>1, <2>4, <2>5 DEF Skip, files, ResumeTypeInv
    <3> QED
      BY <2>1, <2>2, <2>4, <3>1 DEF Whole, StampsOf, MaskOf
  <2>6. Taken(Value) => TakenOver(run.i, KeyNow) /\ copy[run.i] # None
    BY <2>1, <2>4, WholeIsTakenOver
  <2>7. Value = Void => ~TakenOver(run.i, KeyNow) /\ ~Later(run.i)
    BY <2>1, <2>2, <2>4, WholeEndsWithVoid
  <2>8. Runs(run.i, Value, cat) => Taken(Value) \/ Value = Void
    BY DEF Runs, Taken
  <2>9. CASE Cached
    <3>1. UNCHANGED <<mask, copy, stamp>> /\ cat' = copy[run.i] /\ cat' # None /\ run'.phase = "step" /\ run'.resume
      BY <2>1, <2>4, <2>6, <2>9, <2>7, <2>8 DEF Cached, ResumeTypeInv
    <3> QED
      BY <2>1, <2>2, <2>4, <3>1 DEF Whole, StampsOf, MaskOf
  <2>10. CASE Begin
    <3>1. Value = Void
      BY <2>6, <2>8, <2>10 DEF Begin
    <3>2. /\ UNCHANGED <<cat, mask, copy, stamp>> /\ run'.phase = "run" /\ run'.resume = run.resume
          /\ run'.i = run.i
      BY <2>1, <2>10 DEF Begin, files, ResumeTypeInv
    <3>3. Value' = Void
      BY <2>1, <3>1, <3>2 DEF Value
    <3> QED
      BY <2>1, <2>2, <2>4, <3>2, <3>3 DEF Whole, StampsOf, MaskOf
  <2>11. ~Rewind
    BY <2>6, <2>7, <2>8 DEF Rewind
  <2> QED
    BY <1>7, <2>5, <2>9, <2>10, <2>11
<1> QED
  BY <1>1, <1>2, <1>3, <1>4, <1>5, <1>6, <1>7 DEF ResumeNext

(* A run resumed with the choice of the run before, which ended ok, runs      *)
(* nothing, if no step that finds nothing to do comes before one that is run. *)
THEOREM NothingIsRunTwice ==
  ASSUME SetsFirst, ChangesRedone, KillsSpareStamps
  PROVE  ResumeSpec => NothingRunTwice
<1>1. ResumeInit => UnchangedInv
  BY DEF ResumeInit, UnchangedInv
<1>2. ResumeTypeInv /\ UnchangedInv =>
        (Finish /\ run.asked /\ last = run.choice /\ DeclinesLast(run.choice) => run.ran = {})
  BY ConstantTypes DEF ResumeTypeInv, UnchangedInv, Finish
<1>3. ResumeTypeInv /\ UnchangedInv /\ [ResumeNext]_resumeVars =>
        [Finish /\ run.asked /\ last = run.choice /\ DeclinesLast(run.choice) => run.ran = {}]_resumeVars
  BY <1>2
<1> QED
  BY <1>1, <1>3, UnchangedStep, ResumeTypes, FilesFollowStamps, PTL DEF ResumeSpec, NothingRunTwice
=============================================================================
