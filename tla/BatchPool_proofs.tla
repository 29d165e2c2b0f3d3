-------------------------- MODULE BatchPool_proofs --------------------------
(* Proofs about BatchPool, for every value of its constants. *)
EXTENDS BatchPool, TLAPS

(***************************************************************************)
(* The strengthening.  StatusKept needs the lock: its holder is the one    *)
(* worker between reading and writing, and what it read is still what the  *)
(* file holds.  OneWorkerPerField needs to know when workers can be busy   *)
(* and that a field in work is neither queued nor done.  FilesAgree needs  *)
(* what a returned result says about status.json, and how far summary.tsv  *)
(* is.                                                                     *)
(***************************************************************************)
Counted ==
  /\ \A w \in Workers : worker[w].at = "step" => worker[w].index < Steps
  /\ runner # "none" => run # 0

Locked ==
  \A w \in Workers :
    /\ worker[w].at = "write" <=> lock = w
    /\ lock = w => worker[w].read = status

Quiet ==
  /\ ~running => runner \in {"none", "done", "gone"}
  /\ runner \notin {"pool", "exiting"} => \A w \in Workers : worker[w] = Idle

Shared ==
  runner = "pool" =>
    /\ queue \subseteq Sel \ DOMAIN results
    /\ \A w \in Workers : worker[w] # Idle =>
         worker[w].field \in Sel \ DOMAIN results

Truthful ==
  runner \in {"pool", "rows"} =>
    \A f \in DOMAIN results \ missed :
      f \in DOMAIN status /\ status[f].state = results[f]

Tabled ==
  runner = "rows" =>
    /\ DOMAIN results = Sel
    /\ \A f \in DOMAIN tsv : f \in DOMAIN AllRows /\ tsv[f] = AllRows[f]

PoolInv ==
  /\ TypeOK /\ Counted /\ Locked /\ StatusKept /\ Quiet /\ Shared
  /\ OneWorkerPerField /\ Truthful /\ Tabled /\ FilesAgree

-----------------------------------------------------------------------------
(* A table is a function on some of the names. *)
LEMMA TableElim ==
  ASSUME NEW V, NEW T \in Tables(V)
  PROVE  /\ DOMAIN T \subseteq Names
         /\ T \in [DOMAIN T -> V]
BY DEF Tables

LEMMA TableIntro ==
  ASSUME NEW V, NEW S \in SUBSET Names, NEW T \in [S -> V]
  PROVE  T \in Tables(V)
BY DEF Tables

LEMMA EmptyTable ==
  ASSUME NEW V
  PROVE  << >> \in Tables(V) /\ DOMAIN << >> = {}
<1>1. << >> \in [{} -> V] /\ DOMAIN << >> = {}
  OBVIOUS
<1> QED BY <1>1, TableIntro

(* Setting an entry of a table. *)
LEMMA WithFacts ==
  ASSUME NEW V, NEW T \in Tables(V), NEW f \in Names, NEW v \in V
  PROVE  /\ With(T, f, v) \in Tables(V)
         /\ DOMAIN With(T, f, v) = DOMAIN T \cup {f}
         /\ With(T, f, v)[f] = v
         /\ \A g \in DOMAIN T \ {f} : With(T, f, v)[g] = T[g]
<1>1. DOMAIN T \subseteq Names /\ \A g \in DOMAIN T : T[g] \in V
  BY TableElim
<1>2. With(T, f, v) \in [DOMAIN T \cup {f} -> V]
  BY <1>1 DEF With
<1>3. With(T, f, v) \in Tables(V)
  BY <1>1, <1>2, TableIntro
<1> QED BY <1>3 DEF With

(* A worker that is anywhere in a task has a task. *)
LEMMA TaskFacts ==
  ASSUME TypeOK, NEW w \in Workers
  PROVE  /\ worker[w] \in Tasks \cup {Idle}
         /\ worker[w] # Idle <=> worker[w] \in Tasks
         /\ worker[w] # Idle <=> worker[w].at \in {"report", "write", "step"}
         /\ worker[w] \in Tasks =>
              /\ worker[w].field \in Names /\ worker[w].index \in 0 .. Steps
              /\ worker[w].outcome \in Outcomes /\ worker[w].read \in Tables(Reports)
<1>1. worker[w] \in Tasks \cup {Idle}
  BY DEF TypeOK
<1>2. Idle.at = "idle"
  BY DEF Idle
<1>3. \A t \in Tasks :
        /\ t.at \in {"report", "write", "step"} /\ t.field \in Names
        /\ t.index \in 0 .. Steps /\ t.outcome \in Outcomes
        /\ t.read \in Tables(Reports)
  BY DEF Tasks
<1> QED BY <1>1, <1>2, <1>3

(* What a worker reports is a report, and its last report is its outcome. *)
LEMMA ReportFacts ==
  ASSUME NEW t \in Tasks
  PROVE  /\ Report(t) \in Reports
         /\ ~(t.index < Steps) => Report(t).state = t.outcome
BY StepsAssumption DEF Report, Reports, Tasks, Outcomes

(***************************************************************************)
(* What each kind of step makes of the task of the worker that takes it.   *)
(* Other workers keep theirs, by the form of the actions.                  *)
(***************************************************************************)
OthersSame(w) == \A v \in Workers \ {w} : worker'[v] = worker[v]

LEMMA NewTask ==
  ASSUME TypeOK, NEW w \in Workers, NEW t, worker' = [worker EXCEPT ![w] = t]
  PROVE  /\ worker'[w] = t /\ OthersSame(w)
         /\ t \in Tasks \cup {Idle} => worker' \in [Workers -> Tasks \cup {Idle}]
BY DEF TypeOK, OthersSame

LEMMA IdleFacts == Idle \notin Tasks /\ Idle.at = "idle"
BY DEF Idle, Tasks


LEMMA TakeTask ==
  ASSUME TypeOK, NEW w \in Workers, Take(w)
  PROVE  \E f \in queue :
           /\ queue' = queue \ {f}
           /\ worker'[w] \in Tasks /\ worker'[w].at = "report"
           /\ worker'[w].field = f /\ OthersSame(w)
           /\ worker' \in [Workers -> Tasks \cup {Idle}]
<1>1. PICK f \in queue :
        /\ queue' = queue \ {f}
        /\ worker' = [worker EXCEPT
              ![w] = [at |-> "report", field |-> f, index |-> 0,
                      outcome |-> "ok", read |-> << >>]]
  BY DEF Take
<1> DEFINE t == [at |-> "report", field |-> f, index |-> 0,
                 outcome |-> "ok", read |-> << >>]
<1>2. t \in Tasks /\ t.at = "report" /\ t.field = f
  BY EmptyTable, StepsAssumption DEF Tasks, TypeOK, Outcomes
<1> HIDE DEF t
<1>3. worker'[w] = t /\ OthersSame(w) /\ worker' \in [Workers -> Tasks \cup {Idle}]
  BY <1>1, <1>2, NewTask DEF t
<1> QED BY <1>1, <1>2, <1>3

LEMMA ReadTask ==
  ASSUME TypeOK, NEW w \in Workers, ReadStatus(w)
  PROVE  /\ worker[w] \in Tasks
         /\ worker'[w] \in Tasks /\ worker'[w].at = "write"
         /\ worker'[w].field = worker[w].field
         /\ worker'[w].read = status /\ OthersSame(w)
         /\ worker' \in [Workers -> Tasks \cup {Idle}]
<1>1. worker[w] \in Tasks
  BY TaskFacts DEF ReadStatus
<1> DEFINE t == [worker[w] EXCEPT !.at = "write", !.read = status]
<1>2. t \in Tasks /\ t.at = "write" /\ t.field = worker[w].field /\ t.read = status
  BY <1>1 DEF Tasks, TypeOK
<1>3. worker' = [worker EXCEPT ![w] = t]
  BY <1>1 DEF ReadStatus, TypeOK
<1> HIDE DEF t
<1> QED BY <1>1, <1>2, <1>3, NewTask

LEMMA StepTask ==
  ASSUME TypeOK, Counted, NEW w \in Workers, RunStep(w)
  PROVE  /\ worker[w] \in Tasks
         /\ worker'[w] \in Tasks /\ worker'[w].at = "report"
         /\ worker'[w].field = worker[w].field /\ OthersSame(w)
         /\ worker' \in [Workers -> Tasks \cup {Idle}]
<1>1. worker[w] \in Tasks /\ worker[w].index < Steps
  BY TaskFacts DEF RunStep, Counted
<1>2. PICK o \in Outcomes :
        worker' = [worker EXCEPT ![w].at = "report", ![w].index = @ + 1,
                                 ![w].outcome = o]
  BY DEF RunStep, Outcomes
<1> DEFINE t == [worker[w] EXCEPT !.at = "report", !.index = @ + 1, !.outcome = o]
<1>3. worker[w].index + 1 \in 0 .. Steps
  BY <1>1, StepsAssumption DEF Tasks
<1>4. t \in Tasks /\ t.at = "report" /\ t.field = worker[w].field
  BY <1>1, <1>3 DEF Tasks
<1>5. worker' = [worker EXCEPT ![w] = t]
  BY <1>1, <1>2 DEF TypeOK
<1> HIDE DEF t
<1> QED BY <1>1, <1>4, <1>5, NewTask

(* After a report: on to the next entry, or idle with a result. *)
LEMMA AfterTask ==
  ASSUME TypeOK, NEW w \in Workers, worker[w] \in Tasks, AfterReport(w)
  PROVE  /\ OthersSame(w) /\ worker' \in [Workers -> Tasks \cup {Idle}]
         /\ \/ /\ worker[w].index < Steps /\ results' = results
               /\ worker'[w] \in Tasks /\ worker'[w].at = "step"
               /\ worker'[w].field = worker[w].field
               /\ worker'[w].index = worker[w].index
            \/ /\ ~(worker[w].index < Steps) /\ worker'[w] = Idle
               /\ results' = With(results, worker[w].field, worker[w].outcome)
<1>1. CASE worker[w].index < Steps
  <2> DEFINE t == [worker[w] EXCEPT !.at = "step", !.read = << >>]
  <2>1. t \in Tasks /\ t.at = "step" /\ t.field = worker[w].field
        /\ t.index = worker[w].index
    BY EmptyTable DEF Tasks
  <2>2. worker' = [worker EXCEPT ![w] = t] /\ results' = results
    BY <1>1 DEF AfterReport, TypeOK
  <2> HIDE DEF t
  <2> QED BY <1>1, <2>1, <2>2, NewTask
<1>2. CASE ~(worker[w].index < Steps)
  <2>1. worker' = [worker EXCEPT ![w] = Idle]
        /\ results' = With(results, worker[w].field, worker[w].outcome)
    BY <1>2 DEF AfterReport
  <2> QED BY <1>2, <2>1, NewTask
<1> QED BY <1>1, <1>2

-----------------------------------------------------------------------------
(* The invariant holds at the start and every action keeps it. *)
LEMMA PoolInit == Init => PoolInv
<1> SUFFICES ASSUME Init PROVE PoolInv
  OBVIOUS
<1>1. /\ status \in Tables(Reports) /\ told \in Tables(Reports)
      /\ results \in Tables(Outcomes) /\ tsv \in Tables(Rows) /\ json \in Tables(Rows)
  BY EmptyTable DEF Init
<1>2. TypeOK
  <2>1. run \in 0 .. MaxRuns
    BY MaxRunsAssumption DEF Init
  <2>2. worker \in [Workers -> Tasks \cup {Idle}]
    BY DEF Init
  <2> QED BY <1>1, <2>1, <2>2 DEF Init, TypeOK
<1>3. \A w \in Workers : worker[w] = Idle /\ worker[w].at = "idle" /\ lock # w
  BY WorkersAssumption DEF Init, Idle
<1>4. Counted /\ Locked /\ StatusKept /\ Quiet /\ OneWorkerPerField
  BY <1>3 DEF Init, Counted, Locked, StatusKept, Quiet, OneWorkerPerField
<1>5. Shared /\ Truthful /\ Tabled /\ FilesAgree
  BY DEF Init, Shared, Truthful, Tabled, FilesAgree
<1> QED BY <1>2, <1>4, <1>5 DEF PoolInv

(* The panel starts a runner when the last one is gone, and so are its workers. *)
LEMMA StartKeeps == PoolInv /\ Start => PoolInv'
<1> SUFFICES ASSUME PoolInv, Start PROVE PoolInv'
  OBVIOUS
<1>1. \A w \in Workers : worker[w] = Idle
  BY DEF PoolInv, Quiet, Start
<1>2. run' \in 0 .. MaxRuns /\ run' # 0
  BY MaxRunsAssumption DEF PoolInv, TypeOK, Start
<1>3. listed' \subseteq Names /\ only' \subseteq Names
  BY OnlysAssumption DEF Start
<1>4. TypeOK'
  BY <1>2, <1>3 DEF PoolInv, TypeOK, Start, files
<1>5. Counted' /\ Locked' /\ StatusKept'
  BY <1>2 DEF PoolInv, Counted, Locked, StatusKept, Start
<1>6. Quiet' /\ OneWorkerPerField'
  BY <1>1 DEF Quiet, OneWorkerPerField, Start
<1>7. Shared' /\ Truthful' /\ Tabled' /\ FilesAgree'
  BY DEF Start, Shared, Truthful, Tabled, FilesAgree
<1> QED BY <1>4, <1>5, <1>6, <1>7 DEF PoolInv

(* Steps that only move the runner: to its end, or into a cancelled exit. *)
LEMMA RunnerMoves ==
  ASSUME PoolInv, runner # "none",
         runner' \in {"exiting", "gone"},
         runner' = "gone" => \A w \in Workers : worker[w] = Idle,
         UNCHANGED <<running, args, queue, worker, lock, status, results, files,
                     told, missed>>,
         runner' = "exiting" => running
  PROVE  PoolInv'
<1>1. TypeOK'
  BY DEF PoolInv, TypeOK, args, files
<1>2. Counted' /\ Locked' /\ StatusKept' /\ OneWorkerPerField'
  BY DEF PoolInv, Counted, Locked, StatusKept, OneWorkerPerField, args
<1>3. Quiet'
  BY DEF PoolInv, Quiet
<1>4. Shared' /\ Truthful' /\ Tabled' /\ FilesAgree'
  BY DEF Shared, Truthful, Tabled, FilesAgree
<1> QED BY <1>1, <1>2, <1>3, <1>4 DEF PoolInv

LEMMA CancelKeeps == PoolInv /\ Cancel => PoolInv'
BY RunnerMoves DEF Cancel

LEMMA RefuseKeeps == PoolInv /\ Refuse => PoolInv'
<1> SUFFICES ASSUME PoolInv, Refuse PROVE PoolInv'
  OBVIOUS
<1>1. \A w \in Workers : worker[w] = Idle
  BY DEF PoolInv, Quiet, Refuse
<1> QED BY <1>1, RunnerMoves DEF Refuse

LEMMA ExitKeeps == PoolInv /\ Exit => PoolInv'
BY RunnerMoves DEF Exit

LEMMA EofKeeps == PoolInv /\ Eof => PoolInv'
<1> SUFFICES ASSUME PoolInv, Eof PROVE PoolInv'
  OBVIOUS
<1>1. TypeOK'
  BY DEF PoolInv, TypeOK, Eof, args, files
<1>2. Counted' /\ Locked' /\ StatusKept'
  BY DEF PoolInv, Counted, Locked, StatusKept, Eof, args
<1>3. Quiet' /\ OneWorkerPerField'
  BY DEF PoolInv, Quiet, OneWorkerPerField, Eof
<1>4. Shared' /\ Truthful' /\ Tabled'
  BY DEF Shared, Truthful, Tabled, Eof
<1>5. FilesAgree'
  BY DEF PoolInv, FilesAgree, Eof, args, files, Sel
<1> QED BY <1>1, <1>2, <1>3, <1>4, <1>5 DEF PoolInv

LEMMA BeginKeeps == PoolInv /\ Begin => PoolInv'
<1> SUFFICES ASSUME PoolInv, Begin PROVE PoolInv'
  OBVIOUS
<1>1. \A w \in Workers : worker[w] = Idle
  BY DEF PoolInv, Quiet, Begin
<1>2. Sel \subseteq Names /\ Sel' = Sel
  BY DEF PoolInv, TypeOK, Sel, Begin, args
<1>3. [f \in Sel |-> Queued] \in Tables(Reports)
  <2>1. Queued \in Reports
    BY StepsAssumption DEF Queued, Reports
  <2>2. [f \in Sel |-> Queued] \in [Sel -> Reports]
    BY <2>1
  <2> QED BY <2>2, <1>2, TableIntro
<1>4. results' \in Tables(Outcomes) /\ DOMAIN results' = {}
  BY EmptyTable DEF Begin
<1>5. TypeOK'
  BY <1>2, <1>3, <1>4 DEF PoolInv, TypeOK, Begin, args, files
<1>6. Counted' /\ Locked' /\ StatusKept'
  <2>1. Counted'
    BY DEF PoolInv, Counted, Begin, args
  <2>2. Locked'
    BY <1>1 DEF PoolInv, Locked, Begin, Idle
  <2> QED BY <2>1, <2>2 DEF Begin, StatusKept
<1>7. Quiet' /\ OneWorkerPerField'
  BY <1>1 DEF PoolInv, Quiet, OneWorkerPerField, Begin
<1>8. Shared' /\ Truthful'
  BY <1>1, <1>2, <1>4 DEF Shared, Truthful, Begin
<1>9. Tabled' /\ FilesAgree'
  BY DEF Tabled, FilesAgree, Begin
<1> QED BY <1>5, <1>6, <1>7, <1>8, <1>9 DEF PoolInv

(* When every selected field has a result nobody is working any more. *)
LEMMA CollectKeeps == PoolInv /\ Collect => PoolInv'
<1> SUFFICES ASSUME PoolInv, Collect PROVE PoolInv'
  OBVIOUS
<1>1. \A w \in Workers : worker[w] = Idle
  BY DEF PoolInv, Shared, Collect
<1>2. tsv' \in Tables(Rows) /\ DOMAIN tsv' = {}
  BY EmptyTable DEF Collect
<1>3. TypeOK'
  BY <1>2 DEF PoolInv, TypeOK, Collect, args
<1>4. Counted' /\ Locked' /\ StatusKept'
  BY DEF PoolInv, Counted, Locked, StatusKept, Collect, args
<1>5. Quiet' /\ OneWorkerPerField'
  BY <1>1 DEF PoolInv, Quiet, OneWorkerPerField, Collect
<1>6. Shared' /\ FilesAgree'
  BY DEF Shared, FilesAgree, Collect
<1>7. Truthful'
  BY DEF PoolInv, Truthful, Collect
<1>8. Tabled'
  BY <1>2 DEF Tabled, Collect, args, Sel
<1> QED BY <1>3, <1>4, <1>5, <1>6, <1>7, <1>8 DEF PoolInv

(* Every row of the summary is a row, and a selected field has one of this run. *)
LEMMA RowFacts ==
  ASSUME PoolInv, runner = "rows"
  PROVE  /\ AllRows \in Tables(Rows)
         /\ \A f \in Sel : f \in DOMAIN AllRows /\ AllRows[f] = Row(results[f])
<1>1. Earlier \in Tables(Rows)
  BY EmptyTable DEF PoolInv, TypeOK, Earlier
<1>2. \A f \in DOMAIN Earlier : Earlier[f] \in Rows
  BY <1>1, TableElim
<1>3. \A f \in DOMAIN results : Row(results[f]) \in Rows
  <2>1. \A f \in DOMAIN results : results[f] \in Outcomes
    BY TableElim DEF PoolInv, TypeOK
  <2>2. run \in 1 .. MaxRuns
    BY MaxRunsAssumption DEF PoolInv, TypeOK, Counted
  <2> QED BY <2>1, <2>2 DEF Row, Rows
<1>4. AllRows \in [listed \cap (DOMAIN Earlier \cup DOMAIN results) -> Rows]
  BY <1>2, <1>3 DEF AllRows
<1>5. AllRows \in Tables(Rows)
  BY <1>4, TableIntro DEF PoolInv, TypeOK
<1>6. Sel \subseteq listed /\ Sel = DOMAIN results
  BY DEF PoolInv, Tabled, Sel
<1> QED BY <1>4, <1>5, <1>6 DEF AllRows

LEMMA WriteRowKeeps == PoolInv /\ WriteRow => PoolInv'
<1> SUFFICES ASSUME PoolInv, WriteRow PROVE PoolInv'
  OBVIOUS
<1>1. PICK f \in DOMAIN AllRows \ DOMAIN tsv : tsv' = With(tsv, f, AllRows[f])
  BY DEF WriteRow
<1>2. f \in Names /\ AllRows[f] \in Rows
  BY <1>1, RowFacts, TableElim DEF WriteRow
<1>3. tsv \in Tables(Rows)
  BY DEF PoolInv, TypeOK
<1>4. /\ tsv' \in Tables(Rows) /\ DOMAIN tsv' = DOMAIN tsv \cup {f}
      /\ tsv'[f] = AllRows[f] /\ \A g \in DOMAIN tsv \ {f} : tsv'[g] = tsv[g]
  <2>1. With(tsv, f, AllRows[f]) \in Tables(Rows)
    BY <1>2, <1>3, WithFacts
  <2> QED BY <1>1, <2>1 DEF With
<1>5. AllRows' = AllRows /\ Sel' = Sel
  BY DEF WriteRow, AllRows, Earlier, Row, Sel, args
<1>6. TypeOK'
  BY <1>4 DEF PoolInv, TypeOK, WriteRow, args
<1>7. Counted' /\ Locked' /\ StatusKept'
  BY DEF PoolInv, Counted, Locked, StatusKept, WriteRow, args
<1>8. Quiet' /\ OneWorkerPerField' /\ Truthful'
  BY DEF PoolInv, Quiet, OneWorkerPerField, Truthful, WriteRow
<1>9. Shared' /\ FilesAgree'
  BY DEF Shared, FilesAgree, WriteRow
<1>10. Tabled'
  BY <1>1, <1>4, <1>5 DEF PoolInv, Tabled, WriteRow
<1> QED BY <1>6, <1>7, <1>8, <1>9, <1>10 DEF PoolInv

LEMMA WriteJsonKeeps == PoolInv /\ WriteJson => PoolInv'
<1> SUFFICES ASSUME PoolInv, WriteJson PROVE PoolInv'
  OBVIOUS
<1>1. /\ json' \in Tables(Rows)
      /\ \A f \in Sel : f \in DOMAIN json' /\ json'[f] = Row(results[f])
  BY RowFacts DEF WriteJson
<1>2. TypeOK'
  BY <1>1 DEF PoolInv, TypeOK, WriteJson, args
<1>3. Counted' /\ Locked' /\ StatusKept'
  BY DEF PoolInv, Counted, Locked, StatusKept, WriteJson, args
<1>4. Quiet' /\ OneWorkerPerField'
  BY DEF PoolInv, Quiet, OneWorkerPerField, WriteJson
<1>5. Shared' /\ Truthful' /\ Tabled'
  BY DEF Shared, Truthful, Tabled, WriteJson
<1>6. tsv' = json'
  <2>1. DOMAIN tsv = DOMAIN AllRows /\ \A f \in DOMAIN tsv : tsv[f] = AllRows[f]
    BY DEF PoolInv, Tabled, WriteJson
  <2>2. tsv = [f \in DOMAIN tsv |-> tsv[f]] /\ AllRows = [f \in DOMAIN AllRows |-> AllRows[f]]
    BY RowFacts, TableElim DEF PoolInv, TypeOK, WriteJson
  <2>3. tsv = AllRows
    BY <2>1, <2>2
  <2> QED BY <2>3 DEF WriteJson
<1>7. FilesAgree'
  <2>1. Sel' = Sel /\ run' = run /\ status' = status /\ missed' = missed
    BY DEF WriteJson, Sel, args
  <2>2. \A f \in Sel : json'[f].run = run /\ json'[f].outcome = results[f]
    <3>1. \A x : Row(x).run = run /\ Row(x).outcome = x
      BY DEF Row
    <3> QED BY <1>1, <3>1
  <2>3. \A f \in Sel \ missed : status[f].state = results[f]
    BY DEF PoolInv, Truthful, Tabled, WriteJson
  <2> QED BY <1>1, <1>6, <2>1, <2>2, <2>3 DEF FilesAgree
<1> QED BY <1>2, <1>3, <1>4, <1>5, <1>7 DEF PoolInv


-----------------------------------------------------------------------------
(* The steps of the workers.  A busy worker means a live runner. *)
LEMMA BusyMeans ==
  ASSUME PoolInv, NEW w \in Workers, worker[w] # Idle
  PROVE  running /\ runner \in {"pool", "exiting"}
BY DEF PoolInv, Quiet

(* A worker that keeps its field, or lets go of it, disturbs nobody. *)
LEMMA FieldKept ==
  ASSUME PoolInv, NEW w \in Workers, OthersSame(w), running' = running, queue' = queue,
         \/ worker'[w] = Idle
         \/ worker[w] # Idle /\ worker'[w].field = worker[w].field
  PROVE  OneWorkerPerField'
BY DEF PoolInv, OneWorkerPerField, OthersSame

(* What is vacuous while the pool works. *)
LEMMA PoolOnly ==
  ASSUME runner' \in {"pool", "exiting"}, running'
  PROVE  Tabled' /\ FilesAgree' /\ Quiet'
BY DEF Tabled, FilesAgree, Quiet

LEMMA TakeKeeps == ASSUME NEW w \in Workers PROVE PoolInv /\ Take(w) => PoolInv'
<1> SUFFICES ASSUME PoolInv, Take(w) PROVE PoolInv'
  OBVIOUS
<1>0. TypeOK /\ running /\ runner = "pool" /\ runner' = "pool" /\ running' /\ worker[w] = Idle
  BY DEF PoolInv, Quiet, Take
<1>1. PICK f \in queue :
        /\ queue' = queue \ {f}
        /\ worker'[w] \in Tasks /\ worker'[w].at = "report"
        /\ worker'[w].field = f /\ OthersSame(w)
        /\ worker' \in [Workers -> Tasks \cup {Idle}]
  BY <1>0, TakeTask
<1>2. TypeOK'
  BY <1>0, <1>1 DEF TypeOK, Take, args, files
<1>3. Counted'
  BY <1>0, <1>1 DEF PoolInv, Counted, Take, args, OthersSame
<1>4. Locked' /\ StatusKept'
  <2>1. lock # w /\ lock' = lock /\ status' = status /\ told' = told
    BY <1>0, IdleFacts DEF PoolInv, Locked, Take
  <2> QED BY <1>1, <2>1 DEF PoolInv, Locked, StatusKept, OthersSame
<1>5. f \in Sel \ DOMAIN results /\ Sel' = Sel /\ results' = results
  BY <1>0 DEF PoolInv, Shared, Take, args, Sel
<1>6. OneWorkerPerField'
  <2>1. \A v \in Workers \ {w} : worker[v] # Idle =>
          worker[v].field \notin queue' /\ worker[v].field # f
    BY <1>1 DEF PoolInv, OneWorkerPerField
  <2> QED BY <1>0, <1>1, <2>1 DEF PoolInv, OneWorkerPerField, OthersSame
<1>7. Shared'
  BY <1>0, <1>1, <1>5 DEF PoolInv, Shared, OthersSame
<1>8. Truthful'
  BY <1>0 DEF PoolInv, Truthful, Take
<1> QED BY <1>0, <1>2, <1>3, <1>4, <1>6, <1>7, <1>8, PoolOnly DEF PoolInv

LEMMA ReadKeeps == ASSUME NEW w \in Workers PROVE PoolInv /\ ReadStatus(w) => PoolInv'
<1> SUFFICES ASSUME PoolInv, ReadStatus(w) PROVE PoolInv'
  OBVIOUS
<1>1. /\ worker[w] \in Tasks /\ worker'[w] \in Tasks
      /\ worker'[w].at = "write" /\ worker'[w].field = worker[w].field
      /\ worker'[w].read = status /\ OthersSame(w)
      /\ worker' \in [Workers -> Tasks \cup {Idle}]
  BY ReadTask DEF PoolInv
<1>2. worker[w] # Idle /\ running' /\ runner' \in {"pool", "exiting"}
  BY <1>1, IdleFacts, BusyMeans DEF ReadStatus
<1>3. TypeOK'
  BY <1>1 DEF PoolInv, TypeOK, ReadStatus, args, files
<1>4. Counted'
  BY <1>1 DEF PoolInv, Counted, ReadStatus, args, OthersSame
<1>5. Locked' /\ StatusKept'
  <2>1. lock = Free /\ lock' = w /\ \A v \in Workers : worker[v].at # "write"
    BY WorkersAssumption DEF PoolInv, Locked, ReadStatus
  <2> QED BY <1>1, <2>1 DEF PoolInv, Locked, StatusKept, ReadStatus, OthersSame
<1>6. OneWorkerPerField'
  BY <1>1, <1>2, FieldKept DEF ReadStatus
<1>7. Shared'
  BY <1>1, <1>2 DEF PoolInv, Shared, ReadStatus, args, Sel, OthersSame
<1>8. Truthful'
  BY DEF PoolInv, Truthful, ReadStatus
<1> QED BY <1>2, <1>3, <1>4, <1>5, <1>6, <1>7, <1>8, PoolOnly DEF PoolInv

(* What holds of the results and the fields after a report, made or not. *)
LEMMA AfterKeeps ==
  ASSUME PoolInv, NEW w \in Workers, worker[w] \in Tasks, AfterReport(w),
         running' = running, queue' = queue, runner' = runner, args' = args
  PROVE  /\ results' \in Tables(Outcomes) /\ Counted' /\ OneWorkerPerField' /\ Shared'
         /\ worker'[w].at \in {"step", "idle"} /\ OthersSame(w)
         /\ worker' \in [Workers -> Tasks \cup {Idle}]
         /\ \A g \in DOMAIN results' :
              \/ g \in DOMAIN results /\ results'[g] = results[g]
              \/ /\ g = worker[w].field /\ ~(worker[w].index < Steps)
                 /\ results'[g] = worker[w].outcome
<1>0. TypeOK /\ worker[w] # Idle
  BY IdleFacts DEF PoolInv
<1>1. /\ OthersSame(w) /\ worker' \in [Workers -> Tasks \cup {Idle}]
      /\ \/ /\ worker[w].index < Steps /\ results' = results
            /\ worker'[w] \in Tasks /\ worker'[w].at = "step"
            /\ worker'[w].field = worker[w].field
            /\ worker'[w].index = worker[w].index
         \/ /\ ~(worker[w].index < Steps) /\ worker'[w] = Idle
            /\ results' = With(results, worker[w].field, worker[w].outcome)
  BY <1>0, AfterTask
<1>2. worker'[w].at \in {"step", "idle"}
  BY <1>1, IdleFacts
<1>3. worker[w].field \in Names /\ worker[w].outcome \in Outcomes
  BY <1>0, TaskFacts
<1>4. results' \in Tables(Outcomes)
  <2>1. results \in Tables(Outcomes)
    BY <1>0 DEF TypeOK
  <2>2. With(results, worker[w].field, worker[w].outcome) \in Tables(Outcomes)
    BY <1>3, <2>1, WithFacts
  <2> QED BY <1>1, <2>1, <2>2
<1>5. Counted'
  BY <1>1, IdleFacts DEF PoolInv, Counted, OthersSame, args
<1>6. OneWorkerPerField'
  BY <1>0, <1>1, FieldKept
<1>7. /\ DOMAIN results' \subseteq DOMAIN results \cup {worker[w].field}
      /\ worker'[w] # Idle => DOMAIN results' = DOMAIN results
      /\ \A g \in DOMAIN results' :
           \/ g \in DOMAIN results /\ results'[g] = results[g]
           \/ /\ g = worker[w].field /\ ~(worker[w].index < Steps)
              /\ results'[g] = worker[w].outcome
  BY <1>1, IdleFacts DEF With
<1>8. Shared'
  <2> SUFFICES ASSUME runner = "pool" PROVE Shared'
    BY DEF Shared
  <2>1. Sel' = Sel
    BY DEF args, Sel
  <2>2. /\ worker[w].field \notin queue
        /\ \A v \in Workers \ {w} : worker[v] # Idle => worker[v].field # worker[w].field
    BY <1>0 DEF PoolInv, OneWorkerPerField
  <2>3. queue' \subseteq Sel' \ DOMAIN results'
    BY <1>7, <2>1, <2>2 DEF PoolInv, Shared
  <2>4. \A v \in Workers \ {w} : worker'[v] # Idle => worker'[v].field \in Sel' \ DOMAIN results'
    BY <1>1, <1>7, <2>1, <2>2 DEF PoolInv, Shared, OthersSame
  <2>5. worker'[w] # Idle => worker'[w].field \in Sel' \ DOMAIN results'
    BY <1>0, <1>1, <1>7, <2>1 DEF PoolInv, Shared
  <2> QED BY <2>3, <2>4, <2>5 DEF Shared
<1> QED BY <1>1, <1>2, <1>4, <1>5, <1>6, <1>7, <1>8

(* The holder of the lock writes what it read plus its own report. *)
LEMMA WriteKeeps == ASSUME NEW w \in Workers PROVE PoolInv /\ WriteStatus(w) => PoolInv'
<1> SUFFICES ASSUME PoolInv, WriteStatus(w) PROVE PoolInv'
  OBVIOUS
<1> DEFINE f == worker[w].field
           r == Report(worker[w])
<1>0. worker[w] \in Tasks /\ worker[w] # Idle
  BY TaskFacts DEF PoolInv, WriteStatus
<1>1. lock = w /\ worker[w].read = status /\ status = told
  BY DEF PoolInv, Locked, StatusKept, WriteStatus
<1>2. status' = With(status, f, r) /\ told' = status' /\ lock' = Free
  BY <1>1 DEF WriteStatus
<1>3. /\ f \in Names /\ r \in Reports
      /\ ~(worker[w].index < Steps) => r.state = worker[w].outcome
  BY <1>0, TaskFacts, ReportFacts DEF PoolInv
<1> HIDE DEF r, f
<1>4. /\ results' \in Tables(Outcomes) /\ Counted' /\ OneWorkerPerField' /\ Shared'
      /\ worker'[w].at \in {"step", "idle"} /\ OthersSame(w)
      /\ worker' \in [Workers -> Tasks \cup {Idle}]
      /\ \A g \in DOMAIN results' :
           \/ g \in DOMAIN results /\ results'[g] = results[g]
           \/ /\ g = f /\ ~(worker[w].index < Steps)
              /\ results'[g] = worker[w].outcome
  BY <1>0, AfterKeeps DEF WriteStatus, f
<1>5. status' \in Tables(Reports)
  BY <1>2, <1>3, WithFacts DEF PoolInv, TypeOK
<1>6. TypeOK'
  BY <1>2, <1>4, <1>5 DEF PoolInv, TypeOK, WriteStatus, args, files
<1>7. Locked' /\ StatusKept'
  <2>1. \A v \in Workers \ {w} : worker[v].at # "write"
    BY <1>1 DEF PoolInv, Locked
  <2> QED BY <1>2, <1>4, <2>1, WorkersAssumption DEF Locked, StatusKept, OthersSame
<1>8. running' /\ runner' = runner /\ runner \in {"pool", "exiting"}
  BY <1>0, BusyMeans DEF WriteStatus
<1>9. Truthful'
  <2> SUFFICES ASSUME runner = "pool", NEW g \in DOMAIN results' \ missed
               PROVE  g \in DOMAIN status' /\ status'[g].state = results'[g]
    BY <1>8 DEF Truthful, WriteStatus
  <2>1. g = f => status'[g] = r /\ g \in DOMAIN status'
    BY <1>2 DEF With
  <2>2. g # f /\ g \in DOMAIN status => status'[g] = status[g] /\ g \in DOMAIN status'
    BY <1>2 DEF With
  <2>3. f \notin DOMAIN results
    BY <1>0 DEF PoolInv, Shared, f
  <2>4. g \in DOMAIN results => g \in DOMAIN status /\ status[g].state = results[g]
    BY DEF PoolInv, Truthful
  <2> QED BY <1>3, <1>4, <2>1, <2>2, <2>3, <2>4
<1> QED BY <1>4, <1>6, <1>7, <1>8, <1>9, PoolOnly DEF PoolInv

LEMMA FailsKeeps == ASSUME NEW w \in Workers PROVE PoolInv /\ StatusFails(w) => PoolInv'
<1> SUFFICES ASSUME PoolInv, StatusFails(w) PROVE PoolInv'
  OBVIOUS
<1> DEFINE f == worker[w].field
<1>0. worker[w] \in Tasks /\ worker[w] # Idle /\ f \in Names
  BY TaskFacts DEF PoolInv, StatusFails
<1>1. missed' = missed \cup {f} /\ status' = status /\ told' = told
  BY DEF StatusFails
<1> HIDE DEF f
<1>2. /\ results' \in Tables(Outcomes) /\ Counted' /\ OneWorkerPerField' /\ Shared'
      /\ worker'[w].at \in {"step", "idle"} /\ OthersSame(w)
      /\ worker' \in [Workers -> Tasks \cup {Idle}]
      /\ \A g \in DOMAIN results' :
           \/ g \in DOMAIN results /\ results'[g] = results[g]
           \/ g = f
  BY <1>0, AfterKeeps DEF StatusFails, f
<1>3. lock' # w /\ lock' \in {lock, Free} /\ \A v \in Workers \ {w} : lock' = v <=> lock = v
  BY WorkersAssumption DEF PoolInv, Locked, StatusFails
<1>4. TypeOK'
  BY <1>0, <1>1, <1>2, <1>3 DEF PoolInv, TypeOK, StatusFails, args, files
<1>5. Locked' /\ StatusKept'
  BY <1>1, <1>2, <1>3 DEF PoolInv, Locked, StatusKept, OthersSame
<1>6. running' /\ runner' = runner /\ runner \in {"pool", "exiting"}
  BY <1>0, BusyMeans DEF StatusFails
<1>7. Truthful'
  BY <1>1, <1>2, <1>6 DEF PoolInv, Truthful
<1> QED BY <1>2, <1>4, <1>5, <1>6, <1>7, PoolOnly DEF PoolInv

LEMMA StepKeeps == ASSUME NEW w \in Workers PROVE PoolInv /\ RunStep(w) => PoolInv'
<1> SUFFICES ASSUME PoolInv, RunStep(w) PROVE PoolInv'
  OBVIOUS
<1>1. /\ worker[w] \in Tasks /\ worker'[w] \in Tasks /\ worker'[w].at = "report"
      /\ worker'[w].field = worker[w].field /\ OthersSame(w)
      /\ worker' \in [Workers -> Tasks \cup {Idle}]
  BY StepTask DEF PoolInv
<1>2. worker[w] # Idle /\ running' /\ runner' \in {"pool", "exiting"}
  BY <1>1, IdleFacts, BusyMeans DEF RunStep
<1>3. TypeOK'
  BY <1>1 DEF PoolInv, TypeOK, RunStep, args, files
<1>4. Counted'
  BY <1>1 DEF PoolInv, Counted, RunStep, args, OthersSame
<1>5. Locked' /\ StatusKept'
  BY <1>1 DEF PoolInv, Locked, StatusKept, RunStep, OthersSame
<1>6. OneWorkerPerField'
  BY <1>1, <1>2, FieldKept DEF RunStep
<1>7. Shared'
  BY <1>1, <1>2 DEF PoolInv, Shared, RunStep, args, Sel, OthersSame
<1>8. Truthful'
  BY DEF PoolInv, Truthful, RunStep
<1> QED BY <1>2, <1>3, <1>4, <1>5, <1>6, <1>7, <1>8, PoolOnly DEF PoolInv

LEMMA RaiseKeeps == ASSUME NEW w \in Workers PROVE PoolInv /\ Raise(w) => PoolInv'
<1> SUFFICES ASSUME PoolInv, Raise(w) PROVE PoolInv'
  OBVIOUS
<1> DEFINE f == worker[w].field
<1>0. worker[w] # Idle /\ f \in Names
  BY TaskFacts DEF PoolInv, Raise
<1>1. /\ worker'[w] = Idle /\ OthersSame(w)
      /\ worker' \in [Workers -> Tasks \cup {Idle}]
  BY NewTask DEF PoolInv, Raise
<1>2. results' = With(results, f, "failed") /\ missed' = missed \cup {f}
  BY DEF Raise
<1>3. results' \in Tables(Outcomes)
  BY <1>0, <1>2, WithFacts DEF PoolInv, TypeOK, Outcomes
<1>4. TypeOK'
  BY <1>0, <1>1, <1>2, <1>3 DEF PoolInv, TypeOK, Raise, args, files
<1>5. Counted'
  BY <1>1, IdleFacts DEF PoolInv, Counted, Raise, args, OthersSame
<1>6. Locked' /\ StatusKept'
  BY <1>1, IdleFacts DEF PoolInv, Locked, StatusKept, Raise, OthersSame
<1>7. OneWorkerPerField'
  BY <1>1, FieldKept DEF Raise
<1>8. running' /\ runner' = runner /\ runner \in {"pool", "exiting"}
  BY <1>0, BusyMeans DEF Raise
<1>9. DOMAIN results' = DOMAIN results \cup {f} /\ \A g \in DOMAIN results \ {f} : results'[g] = results[g]
  BY <1>2 DEF With
<1>10. Shared'
  <2> SUFFICES ASSUME runner = "pool" PROVE Shared'
    BY DEF Shared, Raise
  <2>1. Sel' = Sel /\ queue' = queue
    BY DEF Raise, args, Sel
  <2>2. /\ f \notin queue
        /\ \A v \in Workers \ {w} : worker[v] # Idle => worker[v].field # f
    BY <1>0 DEF PoolInv, OneWorkerPerField
  <2> QED BY <1>1, <1>9, <2>1, <2>2 DEF PoolInv, Shared, OthersSame
<1>11. Truthful'
  BY <1>2, <1>9 DEF PoolInv, Truthful, Raise
<1> QED BY <1>4, <1>5, <1>6, <1>7, <1>8, <1>10, <1>11, PoolOnly DEF PoolInv

(* The lock goes with the worker that held it. *)
LEMMA TerminateKeeps == ASSUME NEW w \in Workers PROVE PoolInv /\ Terminate(w) => PoolInv'
<1> SUFFICES ASSUME PoolInv, Terminate(w) PROVE PoolInv'
  OBVIOUS
<1>1. /\ worker'[w] = Idle /\ OthersSame(w)
      /\ worker' \in [Workers -> Tasks \cup {Idle}]
  BY NewTask DEF PoolInv, Terminate
<1>2. lock' # w /\ lock' \in {lock, Free} /\ \A v \in Workers \ {w} : lock' = v <=> lock = v
  BY WorkersAssumption DEF Terminate
<1>3. running' /\ runner' = "exiting"
  BY BusyMeans DEF Terminate
<1>4. TypeOK'
  BY <1>1, <1>2 DEF PoolInv, TypeOK, Terminate, args, files
<1>5. Counted'
  BY <1>1, IdleFacts DEF PoolInv, Counted, Terminate, args, OthersSame
<1>6. Locked' /\ StatusKept'
  BY <1>1, <1>2, IdleFacts DEF PoolInv, Locked, StatusKept, Terminate, OthersSame
<1>7. OneWorkerPerField'
  BY <1>1, FieldKept DEF Terminate
<1>8. Shared' /\ Truthful'
  BY <1>3 DEF Shared, Truthful
<1> QED BY <1>3, <1>4, <1>5, <1>6, <1>7, <1>8, PoolOnly DEF PoolInv

-----------------------------------------------------------------------------
LEMMA PoolStutters == PoolInv /\ UNCHANGED vars => PoolInv'
<1> SUFFICES ASSUME PoolInv, UNCHANGED vars PROVE PoolInv'
  OBVIOUS
<1>1. TypeOK' /\ Counted' /\ Locked' /\ StatusKept'
  BY DEF PoolInv, vars, TypeOK, Counted, Locked, StatusKept
<1>2. Quiet' /\ Shared' /\ OneWorkerPerField' /\ Truthful'
  BY DEF PoolInv, vars, Quiet, Shared, Sel, OneWorkerPerField, Truthful
<1>3. Tabled' /\ FilesAgree'
  BY DEF PoolInv, vars, Tabled, FilesAgree, AllRows, Earlier, Row, Sel
<1> QED BY <1>1, <1>2, <1>3 DEF PoolInv

(* PoolInv is an inductive invariant of the batch runner. *)
THEOREM PoolInvariant == Spec => []PoolInv
<1>1. ASSUME PoolInv, [Next]_vars PROVE PoolInv'
  <2>1. CASE Start \/ Cancel \/ Eof
    BY <1>1, <2>1, StartKeeps, CancelKeeps, EofKeeps
  <2>2. CASE RunnerStep
    BY <1>1, <2>2, RefuseKeeps, BeginKeeps, CollectKeeps, WriteRowKeeps,
       WriteJsonKeeps, ExitKeeps DEF RunnerStep
  <2>3. CASE \E w \in Workers : WorkerStep(w)
    BY <1>1, <2>3, TakeKeeps, ReadKeeps, WriteKeeps, StepKeeps DEF WorkerStep
  <2>4. CASE \E w \in Workers : WorkerFault(w)
    BY <1>1, <2>4, FailsKeeps, RaiseKeeps DEF WorkerFault
  <2>5. CASE \E w \in Workers : Terminate(w)
    BY <1>1, <2>5, TerminateKeeps
  <2>6. CASE UNCHANGED vars
    BY <1>1, <2>6, PoolStutters
  <2> QED BY <1>1, <2>1, <2>2, <2>3, <2>4, <2>5, <2>6 DEF Next
<1> QED BY PoolInit, <1>1, PTL DEF Spec

(* Every variable of the batch runner keeps its type, and so do the files  *)
(* it leaves behind, for any number of names, workers, steps and runs.     *)
THEOREM PoolTypeCorrect == Spec => []TypeOK
<1>1. PoolInv => TypeOK
  BY DEF PoolInv
<1> QED BY PoolInvariant, <1>1, PTL

(* The lock of _status_update loses no report, whatever the number of      *)
(* workers and however they interleave or are terminated.                  *)
THEOREM NoReportLost == Spec => []StatusKept
<1>1. PoolInv => StatusKept
  BY DEF PoolInv
<1> QED BY PoolInvariant, <1>1, PTL

(* One worker per field: no two workers, of this run or of a cancelled     *)
(* one, are ever in the same field's directory.                            *)
THEOREM FieldsNotShared == Spec => []OneWorkerPerField
<1>1. PoolInv => OneWorkerPerField
  BY DEF PoolInv
<1> QED BY PoolInvariant, <1>1, PTL

(* A run that ends by itself leaves status.json and both summaries in      *)
(* agreement about every field it selected.                                *)
THEOREM SummaryAgrees == Spec => []FilesAgree
<1>1. PoolInv => FilesAgree
  BY DEF PoolInv
<1> QED BY PoolInvariant, <1>1, PTL

(* The steps other than WriteJson leave summary.json as it is.             *)
LEMMA OnlyWriteJson ==
  ASSUME [Next]_vars, ~ WriteJson
  PROVE  json' = json
<1>1. ASSUME Start \/ Cancel \/ Eof \/ RunnerStep PROVE json' = json
  BY <1>1 DEF Start, Cancel, Eof, RunnerStep, Begin, Refuse, Collect, WriteRow, Exit, files
<1>2. ASSUME NEW w \in Workers, WorkerStep(w) PROVE json' = json
  BY <1>2 DEF WorkerStep, Take, ReadStatus, WriteStatus, RunStep, AfterReport, AfterReportPastPlan, files
<1>3. ASSUME NEW w \in Workers, WorkerFault(w) \/ Terminate(w) PROVE json' = json
  BY <1>3 DEF WorkerFault, StatusFails, Raise, Terminate, AfterReport, AfterReportPastPlan, files
<1> QED BY <1>1, <1>2, <1>3 DEF Next, vars

(* A run over some of the fields leaves the rows of the others alone, and  *)
(* no run drops the row of a field that is still listed.                   *)
THEOREM RowsOfOthersKept == Spec => OthersKept
<1>1. ASSUME PoolInv, WriteJson, NEW f \in DOMAIN json
      PROVE  /\ f \in listed => f \in DOMAIN json'
             /\ f \notin Sel /\ f \in DOMAIN json' => json'[f] = json[f]
  <2>1. json' = AllRows /\ DOMAIN results = Sel
    BY <1>1 DEF WriteJson, PoolInv, Tabled
  <2>2. DOMAIN AllRows = listed \cap (DOMAIN Earlier \cup Sel)
    BY <2>1 DEF AllRows
  <2>3. CASE only = {}
    BY <2>1, <2>2, <2>3 DEF Sel, Earlier
  <2>4. CASE only # {}
    BY <1>1, <2>1, <2>2, <2>4 DEF Earlier, AllRows
  <2> QED BY <2>3, <2>4
<1>2. ASSUME PoolInv, [Next]_vars, NEW f \in DOMAIN json
      PROVE  /\ f \in listed => f \in DOMAIN json'
             /\ f \notin Sel /\ f \in DOMAIN json' => json'[f] = json[f]
  BY <1>1, <1>2, OnlyWriteJson
<1>3. PoolInv /\ [Next]_vars =>
        [\A f \in DOMAIN json :
           /\ f \in listed => f \in DOMAIN json'
           /\ f \notin Sel /\ f \in DOMAIN json' => json'[f] = json[f]]_vars
  BY <1>2
<1> QED BY <1>3, PoolInvariant, PTL DEF Spec, OthersKept
=============================================================================
