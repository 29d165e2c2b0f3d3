----------------------------- MODULE BatchPool -----------------------------
(***************************************************************************)
(* The batch runner around the fields: run_batch and _worker of            *)
(* src/ogfkit/batchrun.py, the signal handling of batch.py, and the panel  *)
(* of batch.tcl that starts, cancels and resumes it.  A pool of workers    *)
(* takes the selected fields one by one; each worker reports its progress  *)
(* into one shared status.json with a read-modify-write under a file lock; *)
(* the runner then writes summary.tsv row by row and summary.json at once. *)
(*                                                                         *)
(* What a field does inside its directory is the module BatchField; here a *)
(* step either succeeds or fails.                                          *)
(***************************************************************************)
EXTENDS Naturals

CONSTANTS
    Names,      \* the names a fields file may list
    Workers,    \* the worker processes of the pool (one stands for --jobs 1)
    Steps,      \* entries of a field's plan
    Onlys,      \* the values of --only the user passes; {} is "not given"
    Faults,     \* which errors strike: "raise" in a field, "status" in a report
    MaxRuns     \* bound: how often the panel starts the runner

ASSUME StepsAssumption == Steps \in Nat
ASSUME OnlysAssumption == Onlys \subseteq SUBSET Names
ASSUME FaultsAssumption == Faults \subseteq {"raise", "status"}
ASSUME MaxRunsAssumption == MaxRuns \in Nat

Free == "free"  \* the lock when nobody holds it

ASSUME WorkersAssumption == Free \notin Workers

VARIABLES
    running,    \* ::ogf::batch::running, what the panel believes
    runner,     \* where the process of batch.py is
    run,        \* how many runs were started
    listed,     \* the names of the fields file of this run
    only,       \* --only of this run
    queue,      \* selected fields no worker has taken
    worker,     \* what each worker is at
    lock,       \* who holds status.json.lock
    status,     \* status.json
    results,    \* the results the workers have returned
    tsv,        \* summary.tsv
    json,       \* summary.json
    told,       \* history: the last report of each field of this run that was made
    missed      \* history: fields of this run with a report that was never made

vars == <<running, runner, run, listed, only, queue, worker, lock, status,
          results, tsv, json, told, missed>>
files == <<tsv, json>>
args == <<run, listed, only>>

Idle == [at |-> "idle"]
Outcomes == {"ok", "failed"}
Queued == [state |-> "queued", index |-> 0]

Sel == IF only = {} THEN listed ELSE listed \cap only

(* The mistake of a last report that never looks at the outcome.           *)
ReportOk(t) == [state |-> IF t.index < Steps THEN "running" ELSE "ok",
                index |-> t.index]

(* What a worker reports: a field stays "running" to the end of its plan,  *)
(* also past a failed step, and only the last report tells the outcome.    *)
Report(t) == [state |-> IF t.index < Steps THEN "running" ELSE t.outcome,
              index |-> t.index]

(* A function with f set to v, whether f was in its domain or not.         *)
With(file, f, v) == [g \in DOMAIN file \cup {f} |-> IF g = f THEN v ELSE file[g]]

(* The mistake of a test of --only the wrong way round.                    *)
EarlierForgotten == IF only = {} THEN json ELSE << >>

(* The results of earlier runs that the summary of this one starts from.   *)
Earlier == IF only # {} THEN json ELSE << >>

Row(outcome) == [run |-> run, outcome |-> outcome]

(* The rows of both summary files, for the names of the fields file.       *)
AllRows ==
    [f \in listed \cap (DOMAIN Earlier \cup DOMAIN results) |->
        IF f \in DOMAIN results THEN Row(results[f]) ELSE Earlier[f]]

-----------------------------------------------------------------------------
Init ==
    /\ running = FALSE /\ runner = "none"
    /\ run = 0 /\ listed = {} /\ only = {}
    /\ queue = {} /\ worker = [w \in Workers |-> Idle] /\ lock = Free
    /\ status = << >> /\ results = << >> /\ tsv = << >> /\ json = << >>
    /\ told = << >> /\ missed = {}

(* The mistake of a Resume button that does not look at running.           *)
StartAnyTime ==
    /\ run < MaxRuns
    /\ run' = run + 1
    /\ running' = TRUE
    /\ runner' = "starting"
    /\ listed' \in SUBSET Names
    /\ only' \in Onlys
    /\ UNCHANGED <<queue, worker, lock, status, results, files, told, missed>>

(* The Run and the Resume button of the panel.                             *)
Start ==
    /\ ~running
    /\ run < MaxRuns
    /\ run' = run + 1
    /\ running' = TRUE
    /\ runner' = "starting"
    /\ listed' \in SUBSET Names
    /\ only' \in Onlys
    /\ UNCHANGED <<queue, worker, lock, status, results, files, told, missed>>

(* The Cancel button: a SIGTERM, which the runner turns into an exit that  *)
(* terminates its pool.  The panel goes on waiting for the end of output.  *)
Cancel ==
    /\ running
    /\ runner \in {"starting", "pool", "rows"}
    /\ runner' = "exiting"
    /\ UNCHANGED <<running, args, queue, worker, lock, status, results, files,
                   told, missed>>

(* The panel reads the end of the runner's output.                         *)
Eof ==
    /\ running
    /\ runner \in {"done", "gone"}
    /\ running' = FALSE
    /\ UNCHANGED <<runner, args, queue, worker, lock, status, results, files,
                   told, missed>>

-----------------------------------------------------------------------------
(* A recipe or an argument batch.py refuses before anything runs.          *)
Refuse ==
    /\ runner = "starting"
    /\ runner' = "gone"
    /\ UNCHANGED <<running, args, queue, worker, lock, status, results, files,
                   told, missed>>

(* run_batch up to the pool: status.json starts over with the selected     *)
(* fields.                                                                 *)
Begin ==
    /\ runner = "starting"
    /\ runner' = "pool"
    /\ queue' = Sel
    /\ status' = [f \in Sel |-> Queued]
    /\ told' = [f \in Sel |-> Queued]
    /\ results' = << >>
    /\ missed' = {}
    /\ UNCHANGED <<running, args, worker, lock, files>>

(* The pool has every result: the runner opens summary.tsv for writing.    *)
Collect ==
    /\ runner = "pool"
    /\ DOMAIN results = Sel
    /\ runner' = "rows"
    /\ tsv' = << >>
    /\ UNCHANGED <<running, args, queue, worker, lock, status, results, json,
                   told, missed>>

WriteRow ==
    /\ runner = "rows"
    /\ \E f \in DOMAIN AllRows \ DOMAIN tsv : tsv' = With(tsv, f, AllRows[f])
    /\ UNCHANGED <<running, runner, args, queue, worker, lock, status, results,
                   json, told, missed>>

WriteJson ==
    /\ runner = "rows"
    /\ DOMAIN tsv = DOMAIN AllRows
    /\ json' = AllRows
    /\ runner' = "done"
    /\ UNCHANGED <<running, args, queue, worker, lock, status, results, tsv,
                   told, missed>>

(* The mistake of a lock that outlives its holder, one made by creating    *)
(* the file, say: a runner with that lock is killed, the next one waits.   *)
TerminateLocked(w) ==
    /\ runner = "exiting"
    /\ worker[w] # Idle
    /\ worker' = [worker EXCEPT ![w] = Idle]
    /\ UNCHANGED <<running, runner, args, queue, lock, status, results, files,
                   told, missed>>

(* The exit of a cancelled runner: the pool gives out no more tasks and    *)
(* its workers are terminated, whatever they are doing; a lock goes with   *)
(* the process that holds it.                                              *)
Terminate(w) ==
    /\ runner = "exiting"
    /\ worker[w] # Idle
    /\ worker' = [worker EXCEPT ![w] = Idle]
    /\ lock' = IF lock = w THEN Free ELSE lock
    /\ UNCHANGED <<running, runner, args, queue, status, results, files, told,
                   missed>>

Exit ==
    /\ runner = "exiting"
    /\ \A w \in Workers : worker[w] = Idle
    /\ runner' = "gone"
    /\ UNCHANGED <<running, args, queue, worker, lock, status, results, files,
                   told, missed>>

-----------------------------------------------------------------------------
(* The mistake of a pool that gives up after a failed field.               *)
TakeUnlessFailed(w) ==
    /\ runner = "pool"
    /\ worker[w] = Idle
    /\ \A f \in DOMAIN results : results[f] = "ok"
    /\ \E f \in queue :
        /\ queue' = queue \ {f}
        /\ worker' = [worker EXCEPT
              ![w] = [at |-> "report", field |-> f, index |-> 0,
                      outcome |-> "ok", read |-> << >>]]
    /\ UNCHANGED <<running, runner, args, lock, status, results, files, told,
                   missed>>

(* A free worker takes the next field (chunksize 1) and begins with a      *)
(* report.                                                                 *)
Take(w) ==
    /\ runner = "pool"
    /\ worker[w] = Idle
    /\ \E f \in queue :
        /\ queue' = queue \ {f}
        /\ worker' = [worker EXCEPT
              ![w] = [at |-> "report", field |-> f, index |-> 0,
                      outcome |-> "ok", read |-> << >>]]
    /\ UNCHANGED <<running, runner, args, lock, status, results, files, told,
                   missed>>

(* The mistake of _status_update without its lock file.                    *)
ReadStatusUnlocked(w) ==
    /\ worker[w].at = "report"
    /\ worker' = [worker EXCEPT ![w].at = "write", ![w].read = status]
    /\ UNCHANGED <<running, runner, args, queue, lock, status, results, files,
                   told, missed>>

(* _status_update, first half: take the lock and read the file.            *)
ReadStatus(w) ==
    /\ worker[w].at = "report"
    /\ lock = Free
    /\ lock' = w
    /\ worker' = [worker EXCEPT ![w].at = "write", ![w].read = status]
    /\ UNCHANGED <<running, runner, args, queue, status, results, files, told,
                   missed>>

(* The mistake of a test that is off by one: one entry past the plan.      *)
AfterReportPastPlan(w) ==
    LET t == worker[w] IN
    IF t.index <= Steps
    THEN /\ worker' = [worker EXCEPT ![w].at = "step", ![w].read = << >>]
         /\ UNCHANGED results
    ELSE /\ worker' = [worker EXCEPT ![w] = Idle]
         /\ results' = With(results, t.field, t.outcome)

(* What comes after a report: the next entry of the plan, or the result.   *)
AfterReport(w) ==
    LET t == worker[w] IN
    IF t.index < Steps
    THEN /\ worker' = [worker EXCEPT ![w].at = "step", ![w].read = << >>]
         /\ UNCHANGED results
    ELSE /\ worker' = [worker EXCEPT ![w] = Idle]
         /\ results' = With(results, t.field, t.outcome)

(* _status_update, second half: replace the file and let the lock go.      *)
WriteStatus(w) ==
    /\ worker[w].at = "write"
    /\ status' = With(worker[w].read, worker[w].field, Report(worker[w]))
    /\ told' = With(told, worker[w].field, Report(worker[w]))
    /\ lock' = Free
    /\ AfterReport(w)
    /\ UNCHANGED <<running, runner, args, queue, files, missed>>

(* A report that raises is swallowed, and the field goes on.               *)
StatusFails(w) ==
    /\ "status" \in Faults
    /\ worker[w].at \in {"report", "write"}
    /\ lock' = IF worker[w].at = "write" THEN Free ELSE lock
    /\ missed' = missed \cup {worker[w].field}
    /\ AfterReport(w)
    /\ UNCHANGED <<running, runner, args, queue, status, files, told>>

(* One entry of the plan; past a failed one the rest is skipped, entry by  *)
(* entry.                                                                  *)
RunStep(w) ==
    /\ worker[w].at = "step"
    /\ \E outcome \in IF worker[w].outcome = "ok" THEN Outcomes ELSE {"failed"} :
        worker' = [worker EXCEPT ![w].at = "report", ![w].index = @ + 1,
                                 ![w].outcome = outcome]
    /\ UNCHANGED <<running, runner, args, queue, lock, status, results, files,
                   told, missed>>

(* A field that raises outside a report: its worker returns a failed       *)
(* result and reports nothing.                                             *)
Raise(w) ==
    /\ "raise" \in Faults
    /\ \/ worker[w].at = "step"
       \/ worker[w].at = "report" /\ worker[w].index = 0
    /\ worker' = [worker EXCEPT ![w] = Idle]
    /\ results' = With(results, worker[w].field, "failed")
    /\ missed' = missed \cup {worker[w].field}
    /\ UNCHANGED <<running, runner, args, queue, lock, status, files, told>>

WorkerStep(w) == Take(w) \/ ReadStatus(w) \/ WriteStatus(w) \/ RunStep(w)

WorkerFault(w) == StatusFails(w) \/ Raise(w)

RunnerStep == Refuse \/ Begin \/ Collect \/ WriteRow \/ WriteJson \/ Exit

Next ==
    \/ Start \/ Cancel \/ Eof \/ RunnerStep
    \/ \E w \in Workers : WorkerStep(w) \/ WorkerFault(w) \/ Terminate(w)

Spec == Init /\ [][Next]_vars

(* Processes run, and the panel reads what there is to read; no error has  *)
(* to happen, and nobody has to press Cancel.                              *)
FairSpec ==
    /\ Spec
    /\ WF_vars(RunnerStep) /\ WF_vars(Eof)
    /\ \A w \in Workers : WF_vars(WorkerStep(w)) /\ WF_vars(Terminate(w))

-----------------------------------------------------------------------------
Reports == [state : {"queued", "running"} \cup Outcomes, index : 0 .. Steps]
Rows == [run : 1 .. MaxRuns, outcome : Outcomes]

(* The files and tables: an entry of V for some of the names.              *)
Tables(V) == UNION {[S -> V] : S \in SUBSET Names}

Tasks == [at : {"report", "write", "step"}, field : Names, index : 0 .. Steps,
          outcome : Outcomes, read : Tables(Reports)]

(* Every variable, and every file a run leaves behind, keeps its type.     *)
TypeOK ==
    /\ running \in BOOLEAN
    /\ runner \in {"none", "starting", "pool", "rows", "exiting", "done", "gone"}
    /\ run \in 0 .. MaxRuns /\ listed \subseteq Names /\ only \subseteq Names
    /\ queue \subseteq Names /\ missed \subseteq Names
    /\ worker \in [Workers -> Tasks \cup {Idle}]
    /\ lock \in Workers \cup {Free}
    /\ status \in Tables(Reports) /\ told \in Tables(Reports)
    /\ results \in Tables(Outcomes)
    /\ tsv \in Tables(Rows) /\ json \in Tables(Rows)

(* No report is lost: whatever the workers' reads and writes of the shared *)
(* file interleave to, status.json holds for every selected field exactly  *)
(* the last report made for it, and nothing about another field.           *)
StatusKept == status = told

(* No two workers are in one field's directory, a field being worked on is *)
(* not in the queue, and nobody works for a run the panel has written off. *)
OneWorkerPerField ==
    \A w \in Workers : worker[w] # Idle =>
        /\ running
        /\ worker[w].field \notin queue
        /\ \A v \in Workers \ {w} :
            worker[v] # Idle => worker[v].field # worker[w].field

(* A run that ends by itself leaves three files that tell one story: both  *)
(* summaries have the same rows, every selected field has a row of this    *)
(* run, and the state the panel shows is the state of the row, unless a    *)
(* report of the field was never made.                                     *)
FilesAgree ==
    runner = "done" =>
        /\ tsv = json
        /\ \A f \in Sel :
            /\ f \in DOMAIN json /\ json[f].run = run
            /\ f \notin missed => status[f].state = json[f].outcome

(* A run over some of the fields leaves the rows of the others alone, and  *)
(* no run at all drops the row of a field that is still listed.            *)
OthersKept ==
    [][\A f \in DOMAIN json :
          /\ f \in listed => f \in DOMAIN json'
          /\ f \notin Sel /\ f \in DOMAIN json' => json'[f] = json[f]]_vars

(* A failing field never stops the others: every field a run selects gets  *)
(* its row in the summary unless the run is cancelled.                     *)
EveryFieldReported ==
    \A f \in Names :
        (runner = "pool" /\ f \in Sel)
            ~> (runner = "exiting" \/ (f \in DOMAIN json /\ json[f].run = run))

(* However a run goes, cancelled or not, the panel becomes usable again.   *)
PanelFrees == running ~> ~running
=============================================================================
