--------------------------- MODULE Research_proofs --------------------------
(***************************************************************************)
(* Proofs about the tools that run beside the detection and measurement    *)
(* steps: the runs of the AI service bridge (AIBridge), for any            *)
(* selections, batch size, retries and number of runs, and the checkpoints *)
(* of a work directory (Checkpoint), for any writers, outputs, contents,   *)
(* calls and damage.                                                       *)
(***************************************************************************)
EXTENDS AIBridge, Checkpoint, TLAPS

-----------------------------------------------------------------------------
(* The runs of the service bridge (AIBridge) *)

BridgePhases == {"idle", "batch", "send", "answered", "mapped"}

Rows == {Absent, Error} \union Answers

Runs ==
  [phase : BridgePhases, sel : Selections, resume : BOOLEAN, caching : BOOLEAN,
   input : Inputs \union {Absent}, table : [Objects -> Rows],
   todo : SUBSET Objects, batch : SUBSET Objects, tries : Nat,
   request : Requests \union {Absent}, from : Requests \union {Absent},
   mapped : SUBSET Objects, cells : [Objects -> Kinds], sent : Nat,
   asked : SUBSET Objects, unmade : SUBSET Objects]

Cached ==
  [key : Requests, from : Requests, mapped : SUBSET Objects, cells : [Objects -> Kinds]]

TypeInv ==
  /\ input \in Inputs /\ output \in [Objects -> Rows]
  /\ cache \subseteq Cached /\ served \subseteq Requests
  /\ run \in Runs /\ runs \in Nat /\ steady \in BOOLEAN

(* An answer in the cache was given to the very request it is kept under,   *)
(* for some of its objects, and no stored answer is ever lost.              *)
CacheInv ==
  /\ \A c \in cache : c.from = c.key /\ c.mapped # {} /\ c.mapped \subseteq c.key.objects
  /\ \A r \in served : \E c \in cache : c.key = r

(* Where a run is in its batches: no two requests of a run are the same, a  *)
(* request that is sent has no answer in the cache.                         *)
BatchInv ==
  /\ run.phase = "idle" => run.sent = 0
  /\ run.phase # "idle" => run.input \in Inputs /\ run.todo \subseteq run.sel
  /\ run.phase = "batch" =>
       /\ run.tries = 0
       /\ run.request # Absent => run.request.objects \intersect run.todo = {}
  /\ run.phase \in {"send", "answered", "mapped"} =>
       /\ run.batch # {} /\ run.batch \subseteq run.todo
       /\ run.request = Request(run.input, run.batch)
  /\ run.phase = "send" =>
       /\ run.sent = run.tries /\ run.tries <= Retries
       /\ run.caching => \A c \in cache : c.key # run.request
  /\ run.phase \in {"answered", "mapped"} =>
       run.from = run.request /\ run.mapped \subseteq run.batch

(* What the output has was written, not read. *)
OutputInv == \A o \in Objects : IsOk(output[o]) => output[o].read = FALSE

(* The rows gathered so far: those --resume keeps are the output's, read,   *)
(* and no longer asked for, all others are answers to this run's requests.  *)
RowsInv ==
  run.phase # "idle" =>
    \A o \in run.sel :
      IF run.resume /\ IsOk(output[o])
      THEN o \notin run.todo /\ run.table[o] = Read(output[o])
      ELSE IsOk(run.table[o]) => /\ run.table[o].from.input = run.input
                                 /\ o \in run.table[o].from.objects

BridgeInv == TypeInv /\ CacheInv /\ OutputInv /\ BatchInv /\ RowsInv

-----------------------------------------------------------------------------
LEMMA OkRows ==
  ASSUME NEW row \in Rows
  PROVE  IsOk(row) <=> row \in Answers
<1>1. CASE row = Absent \/ row = Error
  <2>1. ~ IsOk(row)
    BY <1>1 DEF IsOk, Error
  <2>2. row \notin Answers
    <3>1. row.ok = FALSE \/ row = Absent
      BY <1>1 DEF Error
    <3> QED BY <3>1, AbsentAssumption DEF Answers
  <2> QED BY <2>1, <2>2
<1>2. CASE row \in Answers
  <2>1. row.ok = TRUE /\ row # Absent
    BY <1>2, AbsentAssumption DEF Answers
  <2> QED BY <1>2, <2>1 DEF IsOk
<1> QED BY <1>1, <1>2 DEF Rows

(* A row of the output that is read, and one that is written. *)
LEMMA ReadRows ==
  ASSUME NEW row \in Answers
  PROVE  Read(row) \in Answers /\ Read(row).cell = row.cell /\ Read(row).read = TRUE
BY DEF Answers, Read

LEMMA FormattedRows ==
  ASSUME NEW row \in Answers
  PROVE  /\ Formatted(row) \in Answers /\ Formatted(row).from = row.from
         /\ Formatted(row).read = FALSE
BY DEF Answers, Kinds, Formatted, Retyped

(* A row that was written once comes back with its values by type. *)
LEMMA ReadAndWritten ==
  ASSUME NEW row \in Answers, row.read = FALSE
  PROVE  Formatted(Read(row)) = [row EXCEPT !.cell = Retyped(@)]
BY DEF Answers, Formatted, Read

LEMMA RetriesNat == Retries \in Nat
BY AIBridgeAssumption

(* What a service gives, of the objects an answer maps for. *)
LEMMA GivenCells ==
  ASSUME NEW cells \in Cells, NEW mapped
  PROVE  [o \in Objects |-> IF o \in mapped THEN cells[o] ELSE "plain"] \in [Objects -> Kinds]
<1>1. cells \in [Objects -> Kinds]
  BY AIBridgeAssumption DEF Kinds
<1>2. "plain" \in Kinds
  BY DEF Kinds
<1> QED BY <1>1, <1>2

(* A kept row that is read. *)
LEMMA KeptRows ==
  ASSUME TypeInv, NEW o \in Objects, IsOk(output[o])
  PROVE  output[o] \in Answers /\ Read(output[o]) \in Rows /\ IsOk(Read(output[o]))
<1>1. output[o] \in Answers
  BY OkRows DEF TypeInv
<1>2. Read(output[o]) \in Answers
  BY <1>1, ReadRows
<1> QED BY <1>1, <1>2, OkRows DEF Rows

LEMMA BatchFacts ==
  ASSUME NEW left \in SUBSET Objects, NEW batch \in Batches(left)
  PROVE  batch # {} /\ batch \subseteq left /\ batch \subseteq Objects
<1> QED BY DEF Batches

LEMMA SelFacts == ASSUME NEW sel \in Selections PROVE sel \subseteq Objects
BY DEF Objects

(* A run that is not under way has the type of one. *)
LEMMA NoRunType == ASSUME NEW sel \in Selections PROVE NoRun(sel) \in Runs
BY DEF NoRun, NoCells, Kinds, Runs, BridgePhases, Rows

LEMMA BridgeInit == Init => BridgeInv
<1> SUFFICES ASSUME Init PROVE BridgeInv
  OBVIOUS
<1>1. PICK sel \in Selections : run = NoRun(sel)
  BY DEF Init
<1>2. run \in Runs
  BY <1>1, NoRunType
<1>3. TypeInv
  BY <1>2 DEF Init, TypeInv, Rows
<1>4. run.phase = "idle" /\ run.sent = 0
  BY <1>1 DEF NoRun
<1>5. OutputInv
  BY DEF Init, OutputInv, IsOk
<1> QED BY <1>3, <1>4, <1>5 DEF Init, BridgeInv, CacheInv, BatchInv, RowsInv

LEMMA ChangeKeeps == ASSUME NEW in \in Inputs PROVE BridgeInv /\ ChangeInput(in) => BridgeInv'
<1> SUFFICES ASSUME BridgeInv, ChangeInput(in) PROVE BridgeInv'
  OBVIOUS
<1>1. run' = run /\ output' = output /\ cache' = cache /\ served' = served /\ runs' = runs
      /\ steady' = steady /\ input' \in Inputs
  BY DEF ChangeInput
<1> QED BY <1>1 DEF BridgeInv, TypeInv, CacheInv, OutputInv, BatchInv, RowsInv

(* The table a run starts with: the rows it keeps and failed cutouts. *)
LEMMA StartTable ==
  ASSUME TypeInv, NEW sel \in Selections, NEW resume \in BOOLEAN, NEW cutfail \in CutFails,
         NEW table, table = [o \in Objects |-> IF o \in Kept(resume, sel) THEN Read(output[o])
                                               ELSE IF o \in cutfail THEN Error ELSE Absent]
  PROVE  /\ table \in [Objects -> Rows]
         /\ \A o \in sel : IF resume /\ IsOk(output[o])
                           THEN o \in Kept(resume, sel) /\ table[o] = Read(output[o])
                           ELSE o \notin Kept(resume, sel) /\ ~ IsOk(table[o])
         /\ Kept(resume, sel) \subseteq Objects
<1>1. sel \subseteq Objects
  BY SelFacts
<1>2. Kept(resume, sel) = IF resume THEN {o \in sel : IsOk(output[o])} ELSE {}
  BY DEF Kept
<1>3. ASSUME NEW o \in Objects PROVE table[o] \in Rows
  <2>1. o \in Kept(resume, sel) => Read(output[o]) \in Rows
    BY <1>2, KeptRows
  <2> QED BY <2>1 DEF Rows
<1>4. ~ IsOk(Error) /\ ~ IsOk(Absent)
  BY DEF IsOk, Error
<1>5. ASSUME NEW o \in sel
      PROVE IF resume /\ IsOk(output[o])
            THEN o \in Kept(resume, sel) /\ table[o] = Read(output[o])
            ELSE o \notin Kept(resume, sel) /\ ~ IsOk(table[o])
  <2>1. o \in Objects
    BY <1>1
  <2>2. o \in Kept(resume, sel) <=> resume /\ IsOk(output[o])
    BY <1>2
  <2>3. table[o] = IF o \in Kept(resume, sel) THEN Read(output[o])
                   ELSE IF o \in cutfail THEN Error ELSE Absent
    BY <2>1
  <2> QED BY <1>4, <2>2, <2>3
<1> QED BY <1>1, <1>2, <1>3, <1>5

LEMMA StartKeeps ==
  ASSUME NEW sel \in Selections, NEW resume \in BOOLEAN, NEW caching \in BOOLEAN,
         NEW cutfail \in CutFails
  PROVE  BridgeInv /\ Start(sel, resume, caching, cutfail) => BridgeInv'
<1> SUFFICES ASSUME BridgeInv, Start(sel, resume, caching, cutfail) PROVE BridgeInv'
  OBVIOUS
<1> DEFINE kept  == Kept(resume, sel)
           table == [o \in Objects |-> IF o \in kept THEN Read(output[o])
                                       ELSE IF o \in cutfail THEN Error ELSE Absent]
           none  == NoRun(sel)
           todo  == sel \ (kept \union cutfail)
           unmade == cutfail \ kept
<1>1. /\ table \in [Objects -> Rows]
      /\ \A o \in sel : IF resume /\ IsOk(output[o])
                        THEN o \in kept /\ table[o] = Read(output[o])
                        ELSE o \notin kept /\ ~ IsOk(table[o])
      /\ kept \subseteq Objects
  <2>1. table = [o \in Objects |-> IF o \in Kept(resume, sel) THEN Read(output[o])
                                   ELSE IF o \in cutfail THEN Error ELSE Absent]
    OBVIOUS
  <2>2. kept = Kept(resume, sel) /\ TypeInv
    BY DEF BridgeInv
  <2> HIDE DEF table, kept
  <2> QED BY <2>1, <2>2, StartTable
<1>2. sel \subseteq Objects /\ cutfail \subseteq Objects
  BY SelFacts, AIBridgeAssumption
<1>3. none \in Runs /\ none.sel = sel /\ none.tries = 0 /\ none.request = Absent
  BY NoRunType DEF NoRun
<1>4. run' = [none EXCEPT !.phase = "batch", !.resume = resume, !.caching = caching,
                !.input = input, !.table = table, !.todo = todo, !.unmade = unmade]
  BY DEF Start
<1>5. todo \in SUBSET sel /\ todo \in SUBSET Objects /\ unmade \in SUBSET Objects
       /\ todo \intersect kept = {} /\ input \in Inputs
  BY <1>2 DEF BridgeInv, TypeInv
<1>6. table \in [Objects -> Rows]
  BY <1>1
<1> HIDE DEF none, table, kept, todo, unmade
<1>7. /\ run' \in Runs /\ run'.phase = "batch" /\ run'.sel = sel /\ run'.resume = resume
      /\ run'.input = input /\ run'.table = table /\ run'.todo = todo
      /\ run'.tries = 0 /\ run'.request = Absent
  <2> DEFINE begun == [none EXCEPT !.phase = "batch", !.resume = resume,
                                   !.caching = caching, !.input = input]
  <2>1. begun \in Runs
    BY <1>3, <1>5, ZenonT(30) DEF Runs, BridgePhases
  <2>2. begun.phase = "batch" /\ begun.sel = sel /\ begun.resume = resume
        /\ begun.input = input /\ begun.tries = 0 /\ begun.request = Absent
    BY <1>3 DEF Runs
  <2>3. run' = [begun EXCEPT !.table = table, !.todo = todo, !.unmade = unmade]
    BY <1>3, <1>4 DEF Runs
  <2> HIDE DEF begun
  <2> QED BY <1>5, <1>6, <2>1, <2>2, <2>3 DEF Runs
<1>8. runs' \in Nat /\ steady' \in BOOLEAN
      /\ input' = input /\ output' = output /\ cache' = cache /\ served' = served
  BY DEF BridgeInv, TypeInv, Start
<1>9. TypeInv'
  BY <1>7, <1>8 DEF BridgeInv, TypeInv
<1>10. CacheInv' /\ OutputInv'
  BY <1>8 DEF BridgeInv, CacheInv, OutputInv
<1>11. BatchInv'
  BY <1>7, <1>5 DEF BridgeInv, TypeInv, BatchInv
<1>12. RowsInv'
  BY <1>1, <1>7, <1>8, <1>5 DEF RowsInv
<1> QED BY <1>9, <1>10, <1>11, <1>12 DEF BridgeInv

-----------------------------------------------------------------------------
(* The next batch, after rows of one batch were entered in the table. *)
LEMMA NextBatchKeeps ==
  ASSUME BridgeInv, run.phase # "idle", UNCHANGED <<input, output, cache, runs, served, steady>>,
         NEW batch \in SUBSET Objects, batch \subseteq run.todo,
         NEW table \in [Objects -> Rows],
         \A o \in Objects \ batch : table[o] = run.table[o],
         \A o \in batch : IsOk(table[o]) => /\ table[o].from.input = run.input
                                            /\ o \in table[o].from.objects,
         run.request # Absent => run.request.objects \intersect (run.todo \ batch) = {},
         NEW asked \in SUBSET Objects, NEW unmade \in SUBSET Objects, NEW sent \in Nat,
         run' = [NextBatch(table, batch) EXCEPT !.asked = asked, !.unmade = unmade, !.sent = sent]
  PROVE  BridgeInv'
<1>1. run \in Runs
  BY DEF BridgeInv, TypeInv
<1>2. /\ run' \in Runs /\ run'.phase = "batch" /\ run'.sel = run.sel /\ run'.resume = run.resume
      /\ run'.input = run.input /\ run'.table = table /\ run'.todo = run.todo \ batch
      /\ run'.tries = 0 /\ run'.request = run.request
  BY <1>1 DEF NextBatch, Runs, BridgePhases
<1>3. TypeInv' /\ CacheInv' /\ OutputInv'
  BY <1>2 DEF BridgeInv, TypeInv, CacheInv, OutputInv
<1>4. BatchInv'
  BY <1>2 DEF BridgeInv, BatchInv
<1>5. RowsInv'
  <2> SUFFICES ASSUME NEW o \in run.sel
               PROVE  IF run.resume /\ IsOk(output[o])
                      THEN o \notin run.todo \ batch /\ table[o] = Read(output[o])
                      ELSE IsOk(table[o]) => /\ table[o].from.input = run.input
                                             /\ o \in table[o].from.objects
    BY <1>2 DEF RowsInv
  <2>1. o \in Objects
    BY <1>1, SelFacts DEF Runs
  <2> QED BY <2>1 DEF BridgeInv, RowsInv
<1> QED BY <1>3, <1>4, <1>5 DEF BridgeInv

LEMMA FailingRows ==
  ASSUME TypeInv, NEW batch \in SUBSET Objects
  PROVE  /\ Failing(batch) \in [Objects -> Rows]
         /\ \A o \in Objects \ batch : Failing(batch)[o] = run.table[o]
         /\ \A o \in batch : Failing(batch)[o] = Error /\ ~ IsOk(Failing(batch)[o])
<1>1. run.table \in [Objects -> Rows]
  BY DEF TypeInv, Runs
<1> QED BY <1>1 DEF Failing, Rows, IsOk, Error

LEMMA CannotPrepareKeeps ==
  ASSUME NEW batch \in Batches(run.todo)
  PROVE  BridgeInv /\ CannotPrepare(batch) => BridgeInv'
<1> SUFFICES ASSUME BridgeInv, CannotPrepare(batch) PROVE BridgeInv'
  OBVIOUS
<1>1. run \in Runs /\ run.phase = "batch"
  BY DEF BridgeInv, TypeInv, CannotPrepare, AtBatch
<1>2. batch \in SUBSET Objects /\ batch \subseteq run.todo
  BY <1>1, BatchFacts DEF Runs
<1>3. /\ run.unmade \union batch \in SUBSET Objects /\ run.asked \in SUBSET Objects
      /\ run.sent \in Nat
  BY <1>1, <1>2 DEF Runs
<1>4. run' = [NextBatch(Failing(batch), batch) EXCEPT
                !.asked = run.asked, !.unmade = run.unmade \union batch, !.sent = run.sent]
  BY <1>1 DEF CannotPrepare, NextBatch, Runs
<1>5. run.request # Absent => run.request.objects \intersect (run.todo \ batch) = {}
  BY <1>1 DEF BridgeInv, BatchInv
<1>6. UNCHANGED <<input, output, cache, runs, served, steady>>
  BY DEF CannotPrepare
<1> QED BY <1>1, <1>2, <1>3, <1>4, <1>5, <1>6, FailingRows, NextBatchKeeps DEF BridgeInv

LEMMA RefuseKeeps == BridgeInv /\ Refuse => BridgeInv'
<1> SUFFICES ASSUME BridgeInv, Refuse PROVE BridgeInv'
  OBVIOUS
<1>1. run \in Runs /\ run.phase = "send"
  BY DEF BridgeInv, TypeInv, Refuse
<1>2. run.batch \in SUBSET Objects /\ run.batch \subseteq run.todo
  BY <1>1 DEF Runs, BridgeInv, BatchInv
<1>3. /\ run.unmade \in SUBSET Objects /\ run.asked \union run.batch \in SUBSET Objects
      /\ run.sent + 1 \in Nat
  BY <1>1, <1>2 DEF Runs
<1>4. run' = [NextBatch(Failing(run.batch), run.batch) EXCEPT
                !.asked = run.asked \union run.batch, !.unmade = run.unmade, !.sent = run.sent + 1]
  BY <1>1 DEF Refuse, NextBatch, Sent, Runs
<1>5. run.request.objects \intersect (run.todo \ run.batch) = {}
  BY <1>1 DEF BridgeInv, BatchInv, Request
<1>6. UNCHANGED <<input, output, cache, runs, served, steady>>
  BY DEF Refuse
<1> QED BY <1>1, <1>2, <1>3, <1>4, <1>5, <1>6, FailingRows, NextBatchKeeps DEF BridgeInv

LEMMA MappedRows ==
  ASSUME TypeInv, run.from \in Requests
  PROVE  /\ WithRows(run.mapped) \in [Objects -> Rows]
         /\ \A o \in Objects \ run.batch : WithRows(run.mapped)[o] = run.table[o]
         /\ \A o \in run.batch :
              /\ IsOk(WithRows(run.mapped)[o]) <=> o \in run.mapped
              /\ o \in run.mapped => WithRows(run.mapped)[o].from = run.from
<1>1. /\ run.table \in [Objects -> Rows] /\ run.batch \subseteq Objects
      /\ run.cells \in [Objects -> Kinds]
  BY DEF TypeInv, Runs
<1> DEFINE row(o) == [ok |-> TRUE, from |-> run.from, cell |-> run.cells[o], read |-> FALSE]
<1>2. \A o \in Objects : row(o) \in Answers /\ row(o) \in Rows /\ row(o).from = run.from
  BY <1>1 DEF Answers, Rows
<1>3. (\A o \in Objects : IsOk(row(o))) /\ ~ IsOk(Error)
  BY <1>2, OkRows DEF IsOk, Error
<1>4. \A o \in Objects : WithRows(run.mapped)[o] =
        IF o \notin run.batch THEN run.table[o] ELSE IF o \in run.mapped THEN row(o) ELSE Error
  BY DEF WithRows
<1>5. WithRows(run.mapped) \in [Objects -> Rows]
  BY <1>1, <1>2 DEF WithRows, Rows
<1> HIDE DEF row
<1> QED BY <1>1, <1>2, <1>3, <1>4, <1>5

LEMMA MapKeeps == BridgeInv /\ Map => BridgeInv'
<1> SUFFICES ASSUME BridgeInv, Map PROVE BridgeInv'
  OBVIOUS
<1>1. run \in Runs /\ run.phase = "mapped"
  BY DEF BridgeInv, TypeInv, Map
<1>2. /\ run.batch \in SUBSET Objects /\ run.batch \subseteq run.todo /\ run.input \in Inputs
      /\ run.request = Request(run.input, run.batch) /\ run.from = run.request
      /\ run.mapped \subseteq run.batch
  BY <1>1 DEF Runs, BridgeInv, BatchInv
<1>3. /\ run.from \in Requests /\ run.from.input = run.input /\ run.from.objects = run.batch
  BY <1>2 DEF Requests, Request
<1>4. /\ run.asked \in SUBSET Objects /\ run.unmade \in SUBSET Objects /\ run.sent \in Nat
  BY <1>1 DEF Runs
<1>5. run' = [NextBatch(WithRows(run.mapped), run.batch) EXCEPT
                !.asked = run.asked, !.unmade = run.unmade, !.sent = run.sent]
  BY <1>1 DEF Map, NextBatch, Runs
<1>6. run.request.objects \intersect (run.todo \ run.batch) = {}
  BY <1>2, <1>3
<1>7. UNCHANGED <<input, output, cache, runs, served, steady>>
  BY DEF Map
<1>8. \A o \in run.batch : IsOk(WithRows(run.mapped)[o]) =>
        /\ WithRows(run.mapped)[o].from.input = run.input
        /\ o \in WithRows(run.mapped)[o].from.objects
  BY <1>3, MappedRows DEF BridgeInv
<1> QED BY <1>1, <1>2, <1>3, <1>4, <1>5, <1>6, <1>7, <1>8, MappedRows, NextBatchKeeps
        DEF BridgeInv

-----------------------------------------------------------------------------
LEMMA HitKeeps ==
  ASSUME NEW batch \in Batches(run.todo)
  PROVE  BridgeInv /\ Hit(batch) => BridgeInv'
<1> SUFFICES ASSUME BridgeInv, Hit(batch) PROVE BridgeInv'
  OBVIOUS
<1> DEFINE request == Request(run.input, batch)
<1>1. run \in Runs /\ run.phase = "batch" /\ run.input \in Inputs /\ run.tries = 0
  BY DEF BridgeInv, TypeInv, BatchInv, Hit, AtBatch
<1>2. batch # {} /\ batch \in SUBSET Objects /\ batch \subseteq run.todo
  BY <1>1, BatchFacts DEF Runs
<1>3. PICK c \in cache :
        /\ c.key = request
        /\ run' = [run EXCEPT !.phase = "mapped", !.batch = batch, !.request = request,
                              !.from = c.from, !.mapped = c.mapped, !.cells = c.cells]
  BY DEF Hit, Hits, Key
<1>4. request \in Requests /\ request.objects = batch
  BY <1>1, <1>2 DEF Requests, Request
<1>5. c.from = request /\ c.mapped \subseteq batch /\ c.cells \in [Objects -> Kinds]
  BY <1>3, <1>4 DEF BridgeInv, TypeInv, CacheInv, Cached
<1> HIDE DEF request
<1>6. /\ run' \in Runs /\ run'.phase = "mapped" /\ run'.sel = run.sel /\ run'.resume = run.resume
      /\ run'.input = run.input /\ run'.table = run.table /\ run'.todo = run.todo
      /\ run'.batch = batch /\ run'.request = request /\ run'.from = request
      /\ run'.mapped = c.mapped
  BY <1>1, <1>2, <1>3, <1>4, <1>5 DEF Runs, BridgePhases
<1>7. UNCHANGED <<input, output, cache, runs, served, steady>>
  BY DEF Hit
<1>8. TypeInv' /\ CacheInv' /\ OutputInv'
  BY <1>6, <1>7 DEF BridgeInv, TypeInv, CacheInv, OutputInv
<1>9. BatchInv'
  BY <1>1, <1>2, <1>5, <1>6 DEF BridgeInv, BatchInv, request
<1>10. RowsInv'
  BY <1>1, <1>6, <1>7 DEF BridgeInv, RowsInv
<1> QED BY <1>8, <1>9, <1>10 DEF BridgeInv

LEMMA MissKeeps ==
  ASSUME NEW batch \in Batches(run.todo)
  PROVE  BridgeInv /\ Miss(batch) => BridgeInv'
<1> SUFFICES ASSUME BridgeInv, Miss(batch) PROVE BridgeInv'
  OBVIOUS
<1> DEFINE request == Request(run.input, batch)
           sent    == IF run.request = request THEN run.sent ELSE 0
<1>1. run \in Runs /\ run.phase = "batch" /\ run.input \in Inputs /\ run.tries = 0
  BY DEF BridgeInv, TypeInv, BatchInv, Miss, AtBatch
<1>2. batch # {} /\ batch \in SUBSET Objects /\ batch \subseteq run.todo
  BY <1>1, BatchFacts DEF Runs
<1>3. run' = [run EXCEPT !.phase = "send", !.batch = batch, !.request = request, !.sent = sent]
  BY DEF Miss
<1>4. request \in Requests /\ request.objects = batch
  BY <1>1, <1>2 DEF Requests, Request
<1>5. sent = 0
  <2>1. run.request # request
    BY <1>1, <1>2, <1>4, AbsentAssumption DEF BridgeInv, BatchInv
  <2> QED BY <2>1
<1>6. run.caching => \A c \in cache : c.key # request
  BY DEF Miss, Hits, Key
<1> HIDE DEF request, sent
<1>7. /\ run' \in Runs /\ run'.phase = "send" /\ run'.sel = run.sel /\ run'.resume = run.resume
      /\ run'.caching = run.caching /\ run'.tries = run.tries /\ run'.sent = 0
      /\ run'.input = run.input /\ run'.table = run.table /\ run'.todo = run.todo
      /\ run'.batch = batch /\ run'.request = request
  BY <1>1, <1>2, <1>3, <1>4, <1>5 DEF Runs, BridgePhases
<1>8. UNCHANGED <<input, output, cache, runs, served, steady>>
  BY DEF Miss
<1>9. TypeInv' /\ CacheInv' /\ OutputInv'
  BY <1>7, <1>8 DEF BridgeInv, TypeInv, CacheInv, OutputInv
<1>10. BatchInv'
  BY <1>1, <1>2, <1>6, <1>7, <1>8, RetriesNat DEF BridgeInv, BatchInv, request
<1>11. RowsInv'
  BY <1>1, <1>7, <1>8 DEF BridgeInv, RowsInv
<1> QED BY <1>9, <1>10, <1>11 DEF BridgeInv

LEMMA AgainKeeps == BridgeInv /\ Again => BridgeInv'
<1> SUFFICES ASSUME BridgeInv, Again PROVE BridgeInv'
  OBVIOUS
<1>1. run \in Runs /\ run.phase = "send" /\ run.tries < Retries
  BY DEF BridgeInv, TypeInv, Again
<1> DEFINE asked == run.asked \union run.batch
           sent  == run.sent + 1
           tries == run.tries + 1
<1>2. run' = [run EXCEPT !.sent = sent, !.asked = asked, !.tries = tries]
  BY <1>1 DEF Again, Sent, Runs
<1>3. asked \in SUBSET Objects /\ sent \in Nat /\ tries \in Nat
  BY <1>1 DEF Runs
<1> HIDE DEF asked, sent, tries
<1>4. /\ run' \in Runs /\ run'.phase = "send" /\ run'.sel = run.sel /\ run'.resume = run.resume
      /\ run'.caching = run.caching /\ run'.tries = tries /\ run'.sent = sent
      /\ run'.input = run.input /\ run'.table = run.table /\ run'.todo = run.todo
      /\ run'.batch = run.batch /\ run'.request = run.request
  BY <1>1, <1>2, <1>3 DEF Runs
<1>5. UNCHANGED <<input, output, cache, runs, served, steady>>
  BY DEF Again
<1>6. TypeInv' /\ CacheInv' /\ OutputInv'
  BY <1>4, <1>5 DEF BridgeInv, TypeInv, CacheInv, OutputInv
<1>7. run'.sent = run'.tries /\ run'.tries <= Retries
  BY <1>1, <1>4, RetriesNat DEF BridgeInv, BatchInv, Runs, sent, tries
<1>8. BatchInv'
  BY <1>1, <1>4, <1>5, <1>7 DEF BridgeInv, BatchInv
<1>9. RowsInv'
  BY <1>1, <1>4, <1>5 DEF BridgeInv, RowsInv
<1> QED BY <1>6, <1>8, <1>9 DEF BridgeInv

LEMMA AnswerKeeps ==
  ASSUME NEW mapped \in SUBSET run.batch, NEW cells \in Cells
  PROVE  BridgeInv /\ Answer(mapped, cells) => BridgeInv'
<1> SUFFICES ASSUME BridgeInv, Answer(mapped, cells) PROVE BridgeInv'
  OBVIOUS
<1>1. run \in Runs /\ run.phase = "send" /\ run.batch \subseteq Objects
  BY DEF BridgeInv, TypeInv, Runs, Answer
<1> DEFINE asked == run.asked \union run.batch
           sent  == run.sent + 1
           given == [o \in Objects |-> IF o \in mapped THEN cells[o] ELSE "plain"]
<1>2. run' = [run EXCEPT !.sent = sent, !.asked = asked, !.phase = "answered",
                         !.from = run.request, !.mapped = mapped, !.cells = given]
  BY <1>1 DEF Answer, Sent, Runs
<1>3. asked \in SUBSET Objects /\ sent \in Nat /\ mapped \in SUBSET Objects
      /\ run.request \in Requests \union {Absent} /\ given \in [Objects -> Kinds]
  BY <1>1, GivenCells DEF Runs
<1> HIDE DEF asked, sent, given
<1>4. /\ run' \in Runs /\ run'.phase = "answered" /\ run'.sel = run.sel /\ run'.resume = run.resume
      /\ run'.input = run.input /\ run'.table = run.table /\ run'.todo = run.todo
      /\ run'.batch = run.batch /\ run'.request = run.request /\ run'.from = run.request
      /\ run'.mapped = mapped
  BY <1>1, <1>2, <1>3 DEF Runs, BridgePhases
<1>5. UNCHANGED <<input, output, cache, runs, served, steady>>
  BY DEF Answer
<1>6. TypeInv' /\ CacheInv' /\ OutputInv'
  BY <1>4, <1>5 DEF BridgeInv, TypeInv, CacheInv, OutputInv
<1>7. BatchInv'
  BY <1>1, <1>4 DEF BridgeInv, BatchInv
<1>8. RowsInv'
  BY <1>1, <1>4, <1>5 DEF BridgeInv, RowsInv
<1> QED BY <1>6, <1>7, <1>8 DEF BridgeInv

(* What Store does to the cache, in both cases. *)
LEMMA StoreFacts ==
  ASSUME BridgeInv, NEW stores \in BOOLEAN, Store(stores)
  PROVE  LET new == [key |-> run.request, from |-> run.request, mapped |-> run.mapped,
                   cells |-> run.cells]
         IN  \/ cache' = cache /\ served' = served
             \/ /\ run.mapped # {} /\ new \in Cached
                /\ cache' = {c \in cache : c.key # run.request} \union {new}
                /\ served' = served \union {run.request}
<1>1. run \in Runs /\ run.phase = "answered"
  BY DEF BridgeInv, TypeInv, Store
<1>2. /\ run.request = Request(run.input, run.batch) /\ run.from = run.request
      /\ run.input \in Inputs
  BY <1>1 DEF BridgeInv, BatchInv
<1>3. run.request \in Requests /\ run.request = Key(run.input, run.batch)
  BY <1>1, <1>2 DEF Runs, Request, Requests, Key
<1>4. [key |-> run.request, from |-> run.request, mapped |-> run.mapped,
       cells |-> run.cells] \in Cached
  BY <1>1, <1>3 DEF Cached, Runs
<1> QED BY <1>2, <1>3, <1>4 DEF Store, Stored

LEMMA StoreKeeps ==
  ASSUME NEW stores \in BOOLEAN
  PROVE  BridgeInv /\ Store(stores) => BridgeInv'
<1> SUFFICES ASSUME BridgeInv, Store(stores) PROVE BridgeInv'
  OBVIOUS
<1> DEFINE new == [key |-> run.request, from |-> run.request, mapped |-> run.mapped,
                   cells |-> run.cells]
<1>1. run \in Runs /\ run.phase = "answered"
  BY DEF BridgeInv, TypeInv, Store
<1>2. run' = [run EXCEPT !.phase = "mapped"]
  BY DEF Store
<1>3. /\ run' \in Runs /\ run'.phase = "mapped" /\ run'.sel = run.sel /\ run'.resume = run.resume
      /\ run'.input = run.input /\ run'.table = run.table /\ run'.todo = run.todo
      /\ run'.batch = run.batch /\ run'.request = run.request /\ run'.from = run.from
      /\ run'.mapped = run.mapped
  BY <1>1, <1>2 DEF Runs, BridgePhases
<1>4. \/ cache' = cache /\ served' = served
      \/ /\ run.mapped # {} /\ new \in Cached
         /\ cache' = {c \in cache : c.key # run.request} \union {new}
         /\ served' = served \union {run.request}
  BY StoreFacts
<1>5. /\ run.mapped \subseteq run.request.objects /\ run.request \in Requests
  BY <1>1 DEF BridgeInv, BatchInv, Request, Requests, Runs
<1>6. new.key = run.request /\ new.from = run.request /\ new.mapped = run.mapped
  OBVIOUS
<1> HIDE DEF new
<1>7. UNCHANGED <<input, output, runs, steady>>
  BY DEF Store
<1>8. TypeInv'
  BY <1>3, <1>4, <1>5, <1>7 DEF BridgeInv, TypeInv
<1>9. CacheInv'
  <2>1. CASE cache' = cache /\ served' = served
    BY <2>1 DEF BridgeInv, CacheInv
  <2>2. CASE /\ run.mapped # {}
             /\ cache' = {c \in cache : c.key # run.request} \union {new}
             /\ served' = served \union {run.request}
    <3>1. \A c \in cache' : c.from = c.key /\ c.mapped # {} /\ c.mapped \subseteq c.key.objects
      BY <1>5, <1>6, <2>2 DEF BridgeInv, CacheInv
    <3>2. ASSUME NEW r \in served' PROVE \E c \in cache' : c.key = r
      BY <1>6, <2>2 DEF BridgeInv, CacheInv
    <3> QED BY <3>1, <3>2 DEF CacheInv
  <2> QED BY <1>4, <2>1, <2>2
<1>10. BatchInv'
  BY <1>1, <1>3 DEF BridgeInv, BatchInv
<1>11. OutputInv' /\ RowsInv'
  BY <1>1, <1>3, <1>7 DEF BridgeInv, OutputInv, RowsInv
<1> QED BY <1>8, <1>9, <1>10, <1>11 DEF BridgeInv

(* The output and the end of a run. *)
LEMMA OutputRows ==
  ASSUME TypeInv, Write
  PROVE  /\ output' \in [Objects -> Rows]
         /\ run.sel \subseteq Objects
         /\ OutputInv'
         /\ \A o \in run.sel :
              /\ IsOk(output'[o]) <=> IsOk(run.table[o])
              /\ IsOk(run.table[o]) => /\ output'[o] = Formatted(run.table[o])
                                       /\ output'[o].from = run.table[o].from
<1>1. run.table \in [Objects -> Rows] /\ run.sel \subseteq Objects
  BY SelFacts DEF TypeInv, Runs
<1>2. output' = [o \in Objects |-> IF o \in run.sel THEN Written(run.table[o]) ELSE Absent]
  BY DEF Write
<1>3. ~ IsOk(Error) /\ ~ IsOk(Absent)
  BY DEF IsOk, Error
<1>4. ASSUME NEW row \in Rows
      PROVE  /\ Written(row) \in Rows
             /\ IsOk(Written(row)) <=> IsOk(row)
             /\ IsOk(row) => /\ Written(row) = Formatted(row) /\ Written(row).from = row.from
                            /\ Written(row).read = FALSE
  <2>1. CASE row = Absent \/ row = Error
    <3>1. Formatted(Error) = Error
      BY DEF Formatted, Error
    <3>2. Written(row) = Error
      BY <2>1, <3>1 DEF Written
    <3> QED BY <1>3, <2>1, <3>2 DEF Rows
  <2>2. CASE row \in Answers
    <3>1. row # Absent
      BY <2>2, AbsentAssumption
    <3>2. Written(row) = Formatted(row)
      BY <3>1 DEF Written
    <3>3. Formatted(row) \in Answers /\ Formatted(row) \in Rows
      BY <2>2, FormattedRows DEF Rows
    <3>4. IsOk(row) /\ IsOk(Formatted(row))
      BY <2>2, <3>3, OkRows
    <3> QED BY <2>2, <3>2, <3>3, <3>4, FormattedRows
  <2> QED BY <2>1, <2>2 DEF Rows
<1>5. \A o \in Objects :
        output'[o] = IF o \in run.sel THEN Written(run.table[o]) ELSE Absent
  BY <1>2
<1>6. output' \in [Objects -> Rows]
  <2>1. \A o \in Objects :
          (IF o \in run.sel THEN Written(run.table[o]) ELSE Absent) \in Rows
    BY <1>1, <1>4 DEF Rows
  <2> QED BY <1>2, <2>1
<1>7. OutputInv'
  <2> SUFFICES ASSUME NEW o \in Objects, IsOk(output'[o]) PROVE output'[o].read = FALSE
    BY DEF OutputInv, IsOk
  <2>1. output'[o] = Written(run.table[o]) /\ run.table[o] \in Rows
    BY <1>1, <1>3, <1>5
  <2>2. IsOk(Written(run.table[o]))
    BY <2>1
  <2>3. Written(run.table[o]).read = FALSE
    BY <1>4, <2>1, <2>2
  <2> QED BY <2>1, <2>3
<1>8. ASSUME NEW o \in run.sel
      PROVE  /\ IsOk(output'[o]) <=> IsOk(run.table[o])
             /\ IsOk(run.table[o]) => /\ output'[o] = Formatted(run.table[o])
                                      /\ output'[o].from = run.table[o].from
  <2>1. output'[o] = Written(run.table[o]) /\ run.table[o] \in Rows
    BY <1>1, <1>5
  <2>2. /\ IsOk(Written(run.table[o])) <=> IsOk(run.table[o])
        /\ IsOk(run.table[o]) => /\ Written(run.table[o]) = Formatted(run.table[o])
                                 /\ Written(run.table[o]).from = run.table[o].from
    BY <1>4, <2>1
  <2>3. IsOk(output'[o]) <=> IsOk(Written(run.table[o]))
    BY <2>1
  <2> QED BY <2>1, <2>2, <2>3
<1> QED BY <1>1, <1>6, <1>7, <1>8

(* After a run there is none under way. *)
LEMMA EndKeeps ==
  ASSUME BridgeInv, run' = NoRun(run.sel), output' \in [Objects -> Rows], OutputInv',
         UNCHANGED <<input, cache, runs, served>>, steady' \in BOOLEAN
  PROVE  BridgeInv'
<1>1. run.sel \in Selections
  BY DEF BridgeInv, TypeInv, Runs
<1>2. run' \in Runs
  BY <1>1, NoRunType
<1>3. run'.phase = "idle" /\ run'.sent = 0
  BY DEF NoRun
<1> QED BY <1>2, <1>3 DEF BridgeInv, TypeInv, CacheInv, OutputInv, BatchInv, RowsInv

LEMMA WriteKeeps == BridgeInv /\ Write => BridgeInv'
<1> SUFFICES ASSUME BridgeInv, Write PROVE BridgeInv'
  OBVIOUS
<1>1. output' \in [Objects -> Rows] /\ OutputInv'
  BY OutputRows DEF BridgeInv
<1>2. run' = NoRun(run.sel) /\ UNCHANGED <<input, cache, runs, served>> /\ steady' \in BOOLEAN
  BY DEF Write, BridgeInv, TypeInv
<1> QED BY <1>1, <1>2, EndKeeps

(* A run that ends without an output. *)
LEMMA NoOutputKeeps == BridgeInv /\ (WriteFails \/ Kill) => BridgeInv'
<1> SUFFICES ASSUME BridgeInv, WriteFails \/ Kill PROVE BridgeInv'
  OBVIOUS
<1>1. run' = NoRun(run.sel) /\ UNCHANGED <<input, output, cache, runs, served>>
      /\ steady' \in BOOLEAN /\ output \in [Objects -> Rows] /\ OutputInv
  BY DEF WriteFails, Kill, BridgeInv, TypeInv
<1>2. OutputInv'
  BY <1>1 DEF OutputInv
<1> QED BY <1>1, <1>2, EndKeeps

LEMMA BridgeStutters == BridgeInv /\ UNCHANGED vars => BridgeInv'
BY DEF vars, BridgeInv, TypeInv, CacheInv, OutputInv, BatchInv, RowsInv

(* Requests, answers, the cache and the rows belong together throughout. *)
THEOREM BridgeInvariant == Spec => []BridgeInv
<1>1. BridgeInv /\ [Next]_vars => BridgeInv'
  <2> SUFFICES ASSUME BridgeInv, [Next]_vars PROVE BridgeInv'
    OBVIOUS
  <2>1. CASE \E in \in Inputs : ChangeInput(in)
    BY <2>1, ChangeKeeps
  <2>2. CASE \E sel \in Selections, resume, caching \in BOOLEAN, cutfail \in CutFails :
               Start(sel, resume, caching, cutfail)
    BY <2>2, StartKeeps
  <2>3. CASE \E batch \in Batches(run.todo) : CannotPrepare(batch) \/ Hit(batch) \/ Miss(batch)
    BY <2>3, CannotPrepareKeeps, HitKeeps, MissKeeps
  <2>4. CASE \E mapped \in SUBSET run.batch, cells \in Cells : Answer(mapped, cells)
    BY <2>4, AnswerKeeps
  <2>5. CASE Again \/ Refuse
    BY <2>5, AgainKeeps, RefuseKeeps
  <2>6. CASE \E stores \in BOOLEAN : Store(stores)
    BY <2>6, StoreKeeps
  <2>7. CASE Map \/ Write \/ WriteFails \/ Kill
    BY <2>7, MapKeeps, WriteKeeps, NoOutputKeeps
  <2>8. CASE UNCHANGED vars
    BY <2>8, BridgeStutters
  <2> QED BY <2>1, <2>2, <2>3, <2>4, <2>5, <2>6, <2>7, <2>8 DEF Next
<1> QED BY BridgeInit, <1>1, PTL DEF Spec

-----------------------------------------------------------------------------
LEMMA OnlyWrite == ASSUME [Next]_vars, ~ Write PROVE output' = output
BY DEF Next, vars, ChangeInput, Start, CannotPrepare, Hit, Miss, Answer, Again, Refuse,
       Store, Map, WriteFails, Kill

(* A finished output has for each selected object the row that --resume     *)
(* found, its values by type once more, or an answer to a request of this   *)
(* run for this object, or an error, whatever was changed, cached, refused, *)
(* killed or not written before.                                            *)
THEOREM RowsAreAnswers == Spec => OutputIsAnswers
<1> DEFINE Fits(o) == IF run.resume /\ IsOk(output[o])
                      THEN output'[o] = [output[o] EXCEPT !.cell = Retyped(@)]
                      ELSE IsOk(output'[o]) => /\ output'[o].from.input = run.input
                                               /\ o \in output'[o].from.objects
<1>1. ASSUME BridgeInv, Write, NEW o \in run.sel PROVE Fits(o)
  <2>1. run.phase # "idle"
    BY <1>1 DEF Write, AtEnd
  <2>2. /\ IsOk(output'[o]) <=> IsOk(run.table[o])
        /\ IsOk(run.table[o]) => /\ output'[o] = Formatted(run.table[o])
                                 /\ output'[o].from = run.table[o].from
    BY <1>1, OutputRows DEF BridgeInv
  <2>3. IF run.resume /\ IsOk(output[o]) THEN run.table[o] = Read(output[o])
        ELSE IsOk(run.table[o]) => /\ run.table[o].from.input = run.input
                                   /\ o \in run.table[o].from.objects
    BY <1>1, <2>1 DEF BridgeInv, RowsInv
  <2>4. CASE run.resume /\ IsOk(output[o])
    <3>1. o \in Objects
      BY <1>1, OutputRows DEF BridgeInv
    <3>2. output[o] \in Answers /\ output[o].read = FALSE
      BY <1>1, <2>4, <3>1, KeptRows DEF BridgeInv, OutputInv
    <3>3. IsOk(Read(output[o]))
      BY <1>1, <2>4, <3>1, KeptRows DEF BridgeInv
    <3>4. output'[o] = Formatted(Read(output[o]))
      BY <2>2, <2>3, <2>4, <3>3
    <3> QED BY <2>4, <3>2, <3>4, ReadAndWritten
  <2>5. CASE ~ (run.resume /\ IsOk(output[o]))
    BY <2>2, <2>3, <2>5
  <2> QED BY <2>4, <2>5
<1>2. ASSUME BridgeInv, [Next]_vars, output' # output
      PROVE  Write /\ \A o \in run.sel : Fits(o)
  BY <1>1, <1>2, OnlyWrite
<1>3. BridgeInv /\ [Next]_vars =>
        [output' # output => Write /\ \A o \in run.sel : Fits(o)]_vars
  BY <1>2
<1> QED BY <1>3, BridgeInvariant, PTL DEF Spec, OutputIsAnswers

(* Attempts are made in phase "send" only. *)
LEMMA OnlySends ==
  ASSUME BridgeInv, [Next]_vars, run.phase # "send"
  PROVE  ~ (run'.sent > run.sent)
<1>1. run \in Runs /\ run.sent \in Nat
  BY DEF BridgeInv, TypeInv, Runs
<1>2. CASE run' = run
  BY <1>1, <1>2
<1>3. ASSUME NEW sel \in Selections, run' = NoRun(sel) PROVE run'.sent = 0
  BY <1>3 DEF NoRun
<1>4. ASSUME NEW sel \in Selections, NEW resume \in BOOLEAN, NEW caching \in BOOLEAN,
             NEW cutfail \in CutFails, Start(sel, resume, caching, cutfail)
      PROVE  run'.sent = 0
  <2> DEFINE none == NoRun(sel)
             kept == Kept(resume, sel)
             table == [o \in Objects |-> IF o \in kept THEN Read(output[o])
                                         ELSE IF o \in cutfail THEN Error ELSE Absent]
  <2>1. none \in Runs /\ none.sent = 0
    BY NoRunType DEF NoRun
  <2>2. run' = [none EXCEPT !.phase = "batch", !.resume = resume, !.caching = caching,
                  !.input = input, !.table = table, !.todo = sel \ (kept \union cutfail),
                  !.unmade = cutfail \ kept]
    BY <1>4 DEF Start
  <2> HIDE DEF none, kept, table
  <2> QED BY <2>1, <2>2 DEF Runs
<1>5. ASSUME NEW batch \in Batches(run.todo), CannotPrepare(batch) PROVE run'.sent = run.sent
  BY <1>1, <1>5 DEF CannotPrepare, NextBatch, Runs
<1>6. ASSUME NEW batch \in Batches(run.todo), Hit(batch) PROVE run'.sent = run.sent
  BY <1>1, <1>6 DEF Hit, Runs
<1>7. ASSUME NEW batch \in Batches(run.todo), Miss(batch) PROVE run'.sent \in {0, run.sent}
  <2> DEFINE request == Request(run.input, batch)
             sent == IF run.request = request THEN run.sent ELSE 0
  <2>1. run' = [run EXCEPT !.phase = "send", !.batch = batch, !.request = request, !.sent = sent]
    BY <1>7 DEF Miss
  <2>2. sent \in {0, run.sent}
    OBVIOUS
  <2> HIDE DEF request, sent
  <2> QED BY <1>1, <2>1, <2>2 DEF Runs
<1>8. ASSUME NEW stores \in BOOLEAN, Store(stores) PROVE run'.sent = run.sent
  BY <1>1, <1>8 DEF Store, Runs
<1>9. ASSUME Map PROVE run'.sent = run.sent
  BY <1>1, <1>9 DEF Map, NextBatch, Runs
<1>10. ASSUME Write \/ WriteFails \/ Kill PROVE run'.sent = 0
  <2>1. run.sel \in Selections
    BY <1>1 DEF Runs
  <2> QED BY <1>3, <1>10, <2>1 DEF Write, WriteFails, Kill
<1>11. CASE (\E in \in Inputs : ChangeInput(in)) \/ UNCHANGED vars
  BY <1>2, <1>11 DEF ChangeInput, vars
<1>12. CASE \E sel \in Selections, resume, caching \in BOOLEAN, cutfail \in CutFails :
              Start(sel, resume, caching, cutfail)
  BY <1>1, <1>4, <1>12
<1>13. CASE \E batch \in Batches(run.todo) : CannotPrepare(batch) \/ Hit(batch) \/ Miss(batch)
  BY <1>1, <1>5, <1>6, <1>7, <1>13
<1>14. CASE \E stores \in BOOLEAN : Store(stores)
  BY <1>1, <1>8, <1>14
<1>15. CASE Map \/ Write \/ WriteFails \/ Kill
  BY <1>1, <1>9, <1>10, <1>15
<1>16. ~ Again /\ ~ Refuse /\ \A mapped \in SUBSET run.batch, cells \in Cells : ~ Answer(mapped, cells)
  BY DEF Again, Refuse, Answer
<1> QED BY <1>11, <1>12, <1>13, <1>14, <1>15, <1>16 DEF Next

(* In a run a request is sent at most retries + 1 times, and no run sends a *)
(* request whose answer an earlier run stored, if it uses the cache.        *)
THEOREM NeverAskedTwice == Spec => NotAskedTwice
<1>1. ASSUME BridgeInv, [Next]_vars, run'.sent > run.sent
      PROVE  run.sent <= Retries /\ ~ (run.caching /\ run.request \in served)
  <2>1. run.phase = "send"
    BY <1>1, OnlySends
  <2> QED BY <1>1, <2>1 DEF BridgeInv, BatchInv, CacheInv
<1>2. BridgeInv /\ [Next]_vars =>
        [run'.sent > run.sent => run.sent <= Retries /\ ~ (run.caching /\ run.request \in served)]_vars
  BY <1>1
<1> QED BY <1>2, BridgeInvariant, PTL DEF Spec, NotAskedTwice

-----------------------------------------------------------------------------
(* Resumed runs over one selection: what the cache has for a request became *)
(* a row of the output, or will, so that its batch is never asked for again *)
(* and no run is given a partial answer by the cache.                       *)
Finished(c, o) ==
  \/ IsOk(output[o])
  \/ run.phase # "idle" /\ o \notin run.todo /\ IsOk(run.table[o])
  \/ run.phase = "mapped" /\ c.key = run.request /\ o \in run.mapped

Accounted(o) == IsOk(run.table[o]) \/ o \in run.asked \/ o \in run.unmade

SteadyInv ==
  /\ runs = 0 => cache = {} /\ run.phase = "idle"
  /\ steady =>
       /\ \A c \in cache : \E o \in c.mapped : o \in run.sel /\ Finished(c, o)
       /\ run.phase # "idle" => run.resume /\ \A o \in run.sel \ run.todo : Accounted(o)
       /\ run.phase \in {"answered", "mapped"} => run.batch \subseteq run.asked

LEMMA SteadyInit == Init => SteadyInv
BY DEF Init, SteadyInv, NoRun

LEMMA ChangeSteady == ASSUME NEW in \in Inputs PROVE SteadyInv /\ ChangeInput(in) => SteadyInv'
BY DEF ChangeInput, SteadyInv, Finished, Accounted

LEMMA StartSteady ==
  ASSUME NEW sel \in Selections, NEW resume \in BOOLEAN, NEW caching \in BOOLEAN,
         NEW cutfail \in CutFails
  PROVE  BridgeInv /\ SteadyInv /\ Start(sel, resume, caching, cutfail) => SteadyInv'
<1> SUFFICES ASSUME BridgeInv, SteadyInv, Start(sel, resume, caching, cutfail) PROVE SteadyInv'
  OBVIOUS
<1> DEFINE kept  == Kept(resume, sel)
           table == [o \in Objects |-> IF o \in kept THEN Read(output[o])
                                       ELSE IF o \in cutfail THEN Error ELSE Absent]
           none  == NoRun(sel)
           unmade == cutfail \ kept
           todo  == sel \ (kept \union cutfail)
<1>1. \A o \in sel : o \in kept => IsOk(table[o])
  <2>1. table = [o \in Objects |-> IF o \in Kept(resume, sel) THEN Read(output[o])
                                   ELSE IF o \in cutfail THEN Error ELSE Absent]
    OBVIOUS
  <2>2. kept = Kept(resume, sel) /\ TypeInv
    BY DEF BridgeInv
  <2> HIDE DEF table, kept
  <2>3. /\ sel \subseteq Objects
        /\ \A o \in sel : IF resume /\ IsOk(output[o])
                          THEN o \in Kept(resume, sel) /\ table[o] = Read(output[o])
                          ELSE o \notin Kept(resume, sel) /\ ~ IsOk(table[o])
    BY <2>1, <2>2, StartTable, SelFacts
  <2>4. ASSUME NEW o \in sel, IsOk(output[o]) PROVE IsOk(Read(output[o]))
    BY <2>2, <2>3, <2>4, KeptRows
  <2> QED BY <2>2, <2>3, <2>4
<1>2. none \in Runs
  BY NoRunType
<1>3. run' = [none EXCEPT !.phase = "batch", !.resume = resume, !.caching = caching,
                !.input = input, !.table = table, !.todo = todo, !.unmade = unmade]
  BY DEF Start
<1>4. none.sel = sel
  BY DEF NoRun
<1>5. \A o \in sel \ todo : o \in kept \/ o \in unmade
  OBVIOUS
<1> HIDE DEF none, table, kept, unmade, todo
<1>6. /\ run'.phase = "batch" /\ run'.sel = sel /\ run'.resume = resume
      /\ run'.table = table /\ run'.todo = todo /\ run'.unmade = unmade
  BY <1>2, <1>3, <1>4 DEF Runs
<1>7. /\ output' = output /\ cache' = cache /\ runs' = runs + 1 /\ run.phase = "idle"
      /\ runs \in Nat /\ steady' = (steady /\ resume /\ (runs > 0 => sel = run.sel))
  BY DEF Start, BridgeInv, TypeInv
<1>8. runs' # 0
  BY <1>7
<1>9. ASSUME steady' PROVE \A c \in cache' : \E o \in c.mapped : o \in run'.sel /\ Finished(c, o)'
  <2>1. CASE runs = 0
    BY <1>7, <2>1 DEF SteadyInv
  <2>2. CASE runs > 0
    <3> SUFFICES ASSUME NEW c \in cache
                 PROVE  \E o \in c.mapped : o \in run'.sel /\ Finished(c, o)'
      BY <1>7
    <3>1. PICK o \in c.mapped : o \in run.sel /\ Finished(c, o)
      BY <1>7, <1>9 DEF SteadyInv
    <3>2. IsOk(output[o])
      BY <1>7, <3>1 DEF Finished
    <3>3. o \in run'.sel /\ Finished(c, o)'
      BY <1>6, <1>7, <1>9, <2>2, <3>1, <3>2 DEF Finished
    <3> QED BY <3>3
  <2> QED BY <1>7, <2>1, <2>2
<1>10. ASSUME NEW o \in run'.sel \ run'.todo PROVE Accounted(o)'
  BY <1>1, <1>5, <1>6, <1>10 DEF Accounted
<1> QED BY <1>6, <1>7, <1>8, <1>9, <1>10 DEF SteadyInv

(* The end of a batch. *)
LEMMA NextBatchSteady ==
  ASSUME BridgeInv, SteadyInv, run.phase # "idle", UNCHANGED <<output, cache, runs, steady>>,
         NEW batch, batch \subseteq run.todo,
         run'.phase = "batch", run'.sel = run.sel, run'.resume = run.resume,
         run'.todo = run.todo \ batch,
         \A o \in Objects \ batch : run'.table[o] = run.table[o],
         run.asked \subseteq run'.asked, run.unmade \subseteq run'.unmade,
         steady => \A o \in batch : Accounted(o)',
         run.phase = "mapped" => \A o \in run.mapped : o \in batch /\ IsOk(run'.table[o])
  PROVE  SteadyInv'
<1>1. run.sel \subseteq Objects
  BY SelFacts DEF BridgeInv, TypeInv, Runs
<1>2. ASSUME steady, NEW c \in cache
      PROVE  \E o \in c.mapped : o \in run'.sel /\ Finished(c, o)'
  <2>1. PICK o \in c.mapped : o \in run.sel /\ Finished(c, o)
    BY <1>2 DEF SteadyInv
  <2>2. CASE IsOk(output[o])
    BY <2>1, <2>2 DEF Finished
  <2>3. CASE o \notin run.todo /\ IsOk(run.table[o])
    <3>1. run'.table[o] = run.table[o]
      BY <1>1, <2>1, <2>3
    <3> QED BY <2>1, <2>3, <3>1 DEF Finished
  <2>4. CASE run.phase = "mapped" /\ o \in run.mapped
    BY <2>1, <2>4 DEF Finished
  <2> QED BY <2>1, <2>2, <2>3, <2>4 DEF Finished
<1>3. ASSUME steady, NEW o \in run.sel \ (run.todo \ batch)
      PROVE  Accounted(o)'
  <2>1. CASE o \in batch
    BY <1>3, <2>1
  <2>2. CASE o \notin batch
    <3>1. Accounted(o) /\ run'.table[o] = run.table[o]
      BY <1>1, <1>3, <2>2 DEF SteadyInv
    <3> QED BY <3>1 DEF Accounted
  <2> QED BY <2>1, <2>2
<1> QED BY <1>2, <1>3 DEF SteadyInv

LEMMA CannotPrepareSteady ==
  ASSUME NEW batch \in Batches(run.todo)
  PROVE  BridgeInv /\ SteadyInv /\ CannotPrepare(batch) => SteadyInv'
<1> SUFFICES ASSUME BridgeInv, SteadyInv, CannotPrepare(batch) PROVE SteadyInv'
  OBVIOUS
<1>1. run \in Runs /\ run.phase = "batch"
  BY DEF BridgeInv, TypeInv, CannotPrepare, AtBatch
<1>2. batch \in SUBSET Objects /\ batch \subseteq run.todo
  BY <1>1, BatchFacts DEF Runs
<1>3. run' = [NextBatch(Failing(batch), batch) EXCEPT
                !.asked = run.asked, !.unmade = run.unmade \union batch, !.sent = run.sent]
  BY <1>1 DEF CannotPrepare, NextBatch, Runs
<1>4. /\ run'.phase = "batch" /\ run'.sel = run.sel /\ run'.resume = run.resume
      /\ run'.table = Failing(batch) /\ run'.todo = run.todo \ batch
      /\ run'.asked = run.asked /\ run'.unmade = run.unmade \union batch
  BY <1>1, <1>3 DEF NextBatch, Runs
<1>5. UNCHANGED <<output, cache, runs, steady>>
  BY DEF CannotPrepare
<1>6. \A o \in Objects \ batch : run'.table[o] = run.table[o]
  BY <1>2, <1>4, FailingRows DEF BridgeInv
<1>7. \A o \in batch : Accounted(o)'
  BY <1>4 DEF Accounted
<1> QED BY <1>1, <1>2, <1>4, <1>5, <1>6, <1>7, NextBatchSteady

LEMMA RefuseSteady == BridgeInv /\ SteadyInv /\ Refuse => SteadyInv'
<1> SUFFICES ASSUME BridgeInv, SteadyInv, Refuse PROVE SteadyInv'
  OBVIOUS
<1>1. run \in Runs /\ run.phase = "send"
  BY DEF BridgeInv, TypeInv, Refuse
<1>2. run.batch \in SUBSET Objects /\ run.batch \subseteq run.todo
  BY <1>1 DEF Runs, BridgeInv, BatchInv
<1>3. run' = [NextBatch(Failing(run.batch), run.batch) EXCEPT
                !.asked = run.asked \union run.batch, !.unmade = run.unmade, !.sent = run.sent + 1]
  BY <1>1 DEF Refuse, NextBatch, Sent, Runs
<1>4. /\ run'.phase = "batch" /\ run'.sel = run.sel /\ run'.resume = run.resume
      /\ run'.table = Failing(run.batch) /\ run'.todo = run.todo \ run.batch
      /\ run'.asked = run.asked \union run.batch /\ run'.unmade = run.unmade
  BY <1>1, <1>3 DEF NextBatch, Runs
<1>5. UNCHANGED <<output, cache, runs, steady>>
  BY DEF Refuse
<1>6. \A o \in Objects \ run.batch : run'.table[o] = run.table[o]
  BY <1>2, <1>4, FailingRows DEF BridgeInv
<1>7. \A o \in run.batch : Accounted(o)'
  BY <1>4 DEF Accounted
<1> QED BY <1>1, <1>2, <1>4, <1>5, <1>6, <1>7, NextBatchSteady

LEMMA MapSteady == BridgeInv /\ SteadyInv /\ Map => SteadyInv'
<1> SUFFICES ASSUME BridgeInv, SteadyInv, Map PROVE SteadyInv'
  OBVIOUS
<1>1. run \in Runs /\ run.phase = "mapped"
  BY DEF BridgeInv, TypeInv, Map
<1>2. /\ run.batch \in SUBSET Objects /\ run.batch \subseteq run.todo /\ run.input \in Inputs
      /\ run.request = Request(run.input, run.batch) /\ run.from = run.request
      /\ run.mapped \subseteq run.batch
  BY <1>1 DEF Runs, BridgeInv, BatchInv
<1>3. run.from \in Requests
  BY <1>2 DEF Requests, Request
<1>4. run' = [NextBatch(WithRows(run.mapped), run.batch) EXCEPT
                !.asked = run.asked, !.unmade = run.unmade, !.sent = run.sent]
  BY <1>1 DEF Map, NextBatch, Runs
<1>5. /\ run'.phase = "batch" /\ run'.sel = run.sel /\ run'.resume = run.resume
      /\ run'.table = WithRows(run.mapped) /\ run'.todo = run.todo \ run.batch
      /\ run'.asked = run.asked /\ run'.unmade = run.unmade
  BY <1>1, <1>4 DEF NextBatch, Runs
<1>6. UNCHANGED <<output, cache, runs, steady>>
  BY DEF Map
<1>7. /\ \A o \in Objects \ run.batch : run'.table[o] = run.table[o]
      /\ \A o \in run.mapped : o \in run.batch /\ IsOk(run'.table[o])
  BY <1>2, <1>3, <1>5, MappedRows DEF BridgeInv
<1>8. steady => \A o \in run.batch : Accounted(o)'
  BY <1>1, <1>5 DEF SteadyInv, Accounted
<1> QED BY <1>1, <1>2, <1>5, <1>6, <1>7, <1>8, NextBatchSteady

(* A steady run finds nothing in the cache: what is there is in the output. *)
LEMMA NoSteadyHit ==
  ASSUME BridgeInv, SteadyInv, NEW batch \in Batches(run.todo), Hit(batch)
  PROVE  ~ steady
<1> SUFFICES ASSUME steady PROVE FALSE
  OBVIOUS
<1>1. run \in Runs /\ run.phase = "batch" /\ run.resume
  BY DEF BridgeInv, TypeInv, SteadyInv, Hit, AtBatch
<1>2. batch \subseteq run.todo
  BY <1>1, BatchFacts DEF Runs
<1>3. PICK c \in cache : c.key = Request(run.input, batch)
  BY DEF Hit, Hits, Key
<1>4. c.mapped \subseteq batch
  BY <1>3 DEF BridgeInv, CacheInv, Request
<1>5. PICK o \in c.mapped : o \in run.sel /\ Finished(c, o)
  BY DEF SteadyInv
<1>6. o \in run.todo
  BY <1>2, <1>4
<1>7. IsOk(output[o])
  BY <1>1, <1>5, <1>6 DEF Finished
<1> QED BY <1>1, <1>5, <1>6, <1>7 DEF BridgeInv, RowsInv

LEMMA HitSteady ==
  ASSUME NEW batch \in Batches(run.todo)
  PROVE  BridgeInv /\ SteadyInv /\ Hit(batch) => SteadyInv'
<1> SUFFICES ASSUME BridgeInv, SteadyInv, Hit(batch) PROVE SteadyInv'
  OBVIOUS
<1>1. steady' = steady /\ ~ steady /\ runs' = runs /\ runs # 0
  BY NoSteadyHit DEF Hit, AtBatch, SteadyInv
<1> QED BY <1>1 DEF SteadyInv

LEMMA MissSteady ==
  ASSUME NEW batch \in Batches(run.todo)
  PROVE  BridgeInv /\ SteadyInv /\ Miss(batch) => SteadyInv'
<1> SUFFICES ASSUME BridgeInv, SteadyInv, Miss(batch) PROVE SteadyInv'
  OBVIOUS
<1> DEFINE request == Request(run.input, batch)
           sent    == IF run.request = request THEN run.sent ELSE 0
<1>1. run \in Runs /\ run.phase = "batch"
  BY DEF BridgeInv, TypeInv, Miss, AtBatch
<1>2. run' = [run EXCEPT !.phase = "send", !.batch = batch, !.request = request, !.sent = sent]
  BY DEF Miss
<1> HIDE DEF request, sent
<1>3. /\ run'.phase = "send" /\ run'.sel = run.sel /\ run'.resume = run.resume
      /\ run'.table = run.table /\ run'.todo = run.todo
      /\ run'.asked = run.asked /\ run'.unmade = run.unmade
  BY <1>1, <1>2 DEF Runs
<1>4. UNCHANGED <<input, output, cache, runs, served, steady>>
  BY DEF Miss
<1> QED BY <1>1, <1>3, <1>4 DEF SteadyInv, Finished, Accounted

LEMMA AgainSteady == BridgeInv /\ SteadyInv /\ Again => SteadyInv'
<1> SUFFICES ASSUME BridgeInv, SteadyInv, Again PROVE SteadyInv'
  OBVIOUS
<1> DEFINE asked == run.asked \union run.batch
           sent  == run.sent + 1
           tries == run.tries + 1
<1>1. run \in Runs /\ run.phase = "send"
  BY DEF BridgeInv, TypeInv, Again
<1>2. run' = [run EXCEPT !.sent = sent, !.asked = asked, !.tries = tries]
  BY <1>1 DEF Again, Sent, Runs
<1>3. run.asked \subseteq asked
  OBVIOUS
<1> HIDE DEF asked, sent, tries
<1>4. /\ run'.phase = "send" /\ run'.sel = run.sel /\ run'.resume = run.resume
      /\ run'.table = run.table /\ run'.todo = run.todo
      /\ run.asked \subseteq run'.asked /\ run'.unmade = run.unmade
  BY <1>1, <1>2, <1>3 DEF Runs
<1>5. UNCHANGED <<input, output, cache, runs, served, steady>>
  BY DEF Again
<1> QED BY <1>1, <1>4, <1>5 DEF SteadyInv, Finished, Accounted

LEMMA AnswerSteady ==
  ASSUME NEW mapped \in SUBSET run.batch, NEW cells \in Cells
  PROVE  BridgeInv /\ SteadyInv /\ Answer(mapped, cells) => SteadyInv'
<1> SUFFICES ASSUME BridgeInv, SteadyInv, Answer(mapped, cells) PROVE SteadyInv'
  OBVIOUS
<1> DEFINE asked == run.asked \union run.batch
           sent  == run.sent + 1
           given == [o \in Objects |-> IF o \in mapped THEN cells[o] ELSE "plain"]
<1>1. run \in Runs /\ run.phase = "send"
  BY DEF BridgeInv, TypeInv, Answer
<1>2. run' = [run EXCEPT !.sent = sent, !.asked = asked, !.phase = "answered",
                         !.from = run.request, !.mapped = mapped, !.cells = given]
  BY <1>1 DEF Answer, Sent, Runs
<1>3. run.asked \subseteq asked /\ run.batch \subseteq asked
  OBVIOUS
<1> HIDE DEF asked, sent, given
<1>4. /\ run'.phase = "answered" /\ run'.sel = run.sel /\ run'.resume = run.resume
      /\ run'.table = run.table /\ run'.todo = run.todo /\ run'.batch = run.batch
      /\ run'.asked = asked /\ run'.unmade = run.unmade
  BY <1>1, <1>2 DEF Runs
<1>5. UNCHANGED <<input, output, cache, runs, served, steady>>
  BY DEF Answer
<1> QED BY <1>1, <1>3, <1>4, <1>5 DEF SteadyInv, Finished, Accounted

LEMMA StoreSteady ==
  ASSUME NEW stores \in BOOLEAN
  PROVE  BridgeInv /\ SteadyInv /\ Store(stores) => SteadyInv'
<1> SUFFICES ASSUME BridgeInv, SteadyInv, Store(stores) PROVE SteadyInv'
  OBVIOUS
<1> DEFINE new == [key |-> run.request, from |-> run.request, mapped |-> run.mapped,
                   cells |-> run.cells]
<1>1. run \in Runs /\ run.phase = "answered" /\ run' = [run EXCEPT !.phase = "mapped"]
  BY DEF BridgeInv, TypeInv, Store
<1>2. /\ run'.phase = "mapped" /\ run'.sel = run.sel /\ run'.resume = run.resume
      /\ run'.table = run.table /\ run'.todo = run.todo /\ run'.batch = run.batch
      /\ run'.asked = run.asked /\ run'.unmade = run.unmade
      /\ run'.request = run.request /\ run'.mapped = run.mapped
  BY <1>1 DEF Runs
<1>3. \/ cache' = cache
      \/ /\ run.mapped # {}
         /\ cache' = {c \in cache : c.key # run.request} \union {new}
  BY StoreFacts
<1>4. new.key = run.request /\ new.mapped = run.mapped
  OBVIOUS
<1> HIDE DEF new
<1>5. UNCHANGED <<input, output, runs, steady>>
  BY DEF Store
<1>6. run.mapped \subseteq run.sel
  BY <1>1 DEF BridgeInv, BatchInv
<1>7. ASSUME steady, NEW c \in cache
      PROVE  \E o \in c.mapped : o \in run'.sel /\ Finished(c, o)'
  BY <1>1, <1>2, <1>5, <1>7 DEF SteadyInv, Finished
<1>8. ASSUME run.mapped # {}, NEW c, c = new
      PROVE  \E o \in c.mapped : o \in run'.sel /\ Finished(c, o)'
  BY <1>2, <1>4, <1>6, <1>8 DEF Finished
<1>9. ASSUME steady, NEW c \in cache'
      PROVE  \E o \in c.mapped : o \in run'.sel /\ Finished(c, o)'
  BY <1>3, <1>7, <1>8, <1>9
<1> QED BY <1>1, <1>2, <1>5, <1>9 DEF SteadyInv, Accounted

LEMMA WriteSteady == BridgeInv /\ SteadyInv /\ Write => SteadyInv'
<1> SUFFICES ASSUME BridgeInv, SteadyInv, Write PROVE SteadyInv'
  OBVIOUS
<1>1. run \in Runs /\ run.phase = "batch"
  BY DEF BridgeInv, TypeInv, Write, AtEnd
<1>2. run'.phase = "idle" /\ run'.sel = run.sel /\ UNCHANGED <<cache, runs, steady>>
  BY DEF Write, NoRun
<1>3. ASSUME steady, NEW c \in cache
      PROVE  \E o \in c.mapped : o \in run'.sel /\ Finished(c, o)'
  <2>1. PICK o \in c.mapped : o \in run.sel /\ Finished(c, o)
    BY <1>3 DEF SteadyInv
  <2>2. IsOk(run.table[o])
    <3>1. o \in Objects /\ run.resume
      BY <1>1, <1>3, <2>1, SelFacts DEF SteadyInv, Runs
    <3>2. CASE IsOk(output[o])
      <4>1. run.table[o] = Read(output[o])
        BY <1>1, <2>1, <3>1, <3>2 DEF BridgeInv, RowsInv
      <4>2. IsOk(Read(output[o]))
        BY <3>1, <3>2, KeptRows DEF BridgeInv
      <4> QED BY <4>1, <4>2
    <3> QED BY <1>1, <2>1, <3>2 DEF Finished
  <2>3. IsOk(output'[o])
    BY <2>1, <2>2, OutputRows DEF BridgeInv
  <2> QED BY <1>2, <2>1, <2>3 DEF Finished
<1> QED BY <1>1, <1>2, <1>3 DEF SteadyInv

LEMMA NoOutputSteady == BridgeInv /\ SteadyInv /\ (WriteFails \/ Kill) => SteadyInv'
<1> SUFFICES ASSUME BridgeInv, SteadyInv, WriteFails \/ Kill PROVE SteadyInv'
  OBVIOUS
<1>1. /\ run'.phase = "idle" /\ steady' = FALSE /\ UNCHANGED <<cache, runs>>
      /\ run.phase # "idle"
  BY DEF WriteFails, AtEnd, Kill, NoRun
<1> QED BY <1>1 DEF SteadyInv

LEMMA SteadyStutters == SteadyInv /\ UNCHANGED vars => SteadyInv'
BY DEF vars, SteadyInv, Finished, Accounted

LEMMA SteadyHolds == Spec => []SteadyInv
<1>1. BridgeInv /\ SteadyInv /\ [Next]_vars => SteadyInv'
  <2> SUFFICES ASSUME BridgeInv, SteadyInv, [Next]_vars PROVE SteadyInv'
    OBVIOUS
  <2>1. CASE \E in \in Inputs : ChangeInput(in)
    BY <2>1, ChangeSteady
  <2>2. CASE \E sel \in Selections, resume, caching \in BOOLEAN, cutfail \in CutFails :
               Start(sel, resume, caching, cutfail)
    BY <2>2, StartSteady
  <2>3. CASE \E batch \in Batches(run.todo) : CannotPrepare(batch) \/ Hit(batch) \/ Miss(batch)
    BY <2>3, CannotPrepareSteady, HitSteady, MissSteady
  <2>4. CASE \E mapped \in SUBSET run.batch, cells \in Cells : Answer(mapped, cells)
    BY <2>4, AnswerSteady
  <2>5. CASE Again \/ Refuse
    BY <2>5, AgainSteady, RefuseSteady
  <2>6. CASE \E stores \in BOOLEAN : Store(stores)
    BY <2>6, StoreSteady
  <2>7. CASE Map \/ Write \/ WriteFails \/ Kill
    BY <2>7, MapSteady, WriteSteady, NoOutputSteady
  <2>8. CASE UNCHANGED vars
    BY <2>8, SteadyStutters
  <2> QED BY <2>1, <2>2, <2>3, <2>4, <2>5, <2>6, <2>7, <2>8 DEF Next
<1> QED BY SteadyInit, BridgeInvariant, <1>1, PTL DEF Spec

(* What a steady run reports as failed it asked for itself, or could not:   *)
(* no failure comes from a row that was kept or from the cache.             *)
THEOREM FailuresAskedAgain == Spec => AskedAgain
<1>1. ASSUME BridgeInv, SteadyInv, Write, steady, NEW o \in run.sel, output'[o] = Error
      PROVE  o \in run.asked \union run.unmade
  <2>1. run.phase # "idle" /\ run.todo = {}
    BY <1>1 DEF Write, AtEnd
  <2>2. Accounted(o)
    BY <1>1, <2>1 DEF SteadyInv
  <2>3. ~ IsOk(Error)
    BY DEF IsOk, Error
  <2>4. ~ IsOk(run.table[o])
    BY <1>1, <2>3, OutputRows DEF BridgeInv
  <2> QED BY <2>2, <2>4 DEF Accounted
<1>2. BridgeInv /\ SteadyInv /\ [Next]_vars =>
        [run.phase = "batch" /\ run'.phase = "idle" /\ Write /\ steady =>
           \A o \in run.sel : output'[o] = Error => o \in run.asked \union run.unmade]_vars
  BY <1>1
<1> QED BY <1>2, BridgeInvariant, SteadyHolds, PTL DEF Spec, AskedAgain

-----------------------------------------------------------------------------
(* Saving outputs that are being written (Checkpoint) *)

(***************************************************************************)
(* The strengthening.  The stamp taken before a copy is that of the last   *)
(* write at that time, so as long as stat() agrees nothing was written and *)
(* what was read is what the output holds; after the comparison it stays   *)
(* what the output held.  A number is used for one snapshot, so no         *)
(* snapshot is replaced while it is being restored.                        *)
(***************************************************************************)
Saving == {"stat", "copy", "copy2", "stat2", "digest", "digest2"}

Placed ==
  /\ \A f \in Files : ver[f] <= writes
  /\ \A w \in Writers :
       /\ before[w] <= writes
       /\ pc[w] \in Saving \ {"stat"} => at[w] \in Files
       /\ pc[w] # "idle" => save[w] \in SaveIds /\ save[w] <= saves

Witnessed == \A w \in Writers : pc[w] # "idle" => \A f \in Files : src[f] \in held[w][f]

Agreeing ==
  \A w \in Writers :
    /\ pc[w] = "copy2" /\ before[w] = ver[at[w]] => half[w] = src[at[w]][1]
    /\ pc[w] = "stat2" /\ before[w] = ver[at[w]] => target[w] = src[at[w]]
    /\ pc[w] \in {"digest", "digest2"} => target[w] \in held[w][at[w]]

Vacant == \A w \in Writers : pc[w] = "idle" => at[w] = 1

Inventoried ==
  \A w \in Writers : pc[w] \in Saving =>
    \A f \in Files : f < at[w] => staging[w][f] \in held[w][f]

Numbered ==
  /\ \A i \in SaveIds : i > saves => snaps[i] = None
  /\ \A w \in Writers : pc[w] \in Saving => snaps[save[w]] = None

Restoring ==
  restore.phase # "idle" =>
    /\ restore.snap \in SaveIds /\ snaps[restore.snap] # None
    /\ restore.phase \in {"copy", "check", "done"} =>
         \A f \in Files : f < restore.at => restore.work[f] = snaps[restore.snap].sha[f]
    /\ restore.phase = "check" => restore.at \in Files
    /\ restore.phase = "done" => restore.at = NumFiles + 1

SaveInv ==
  /\ TypeOK /\ OneWriter /\ Placed /\ Witnessed /\ Agreeing /\ Vacant /\ Inventoried
  /\ Numbered /\ SnapshotsFaithful /\ Restoring

-----------------------------------------------------------------------------
(* What a writer reads: two parts of what the output holds. *)
LEMMA PartsOfOutput ==
  ASSUME SaveInv, NEW w \in Writers, pc[w] \in Saving \ {"stat"}
  PROVE  /\ at[w] \in Files
         /\ src[at[w]][1] \in Part /\ src[at[w]][2] \in Part
         /\ src[at[w]] = <<src[at[w]][1], src[at[w]][2]>>
<1>1. at[w] \in Files
  BY DEF SaveInv, Placed
<1>2. src[at[w]] \in Bytes \X Bytes
  BY <1>1, CheckpointAssumption DEF SaveInv, TypeOK, Content
<1> QED  BY <1>1, <1>2 DEF Part

(* What is held is a content. *)
LEMMA HeldIsContent ==
  ASSUME SaveInv, NEW w \in Writers, NEW f \in Files
  PROVE  held[w][f] \subseteq Content
BY CheckpointAssumption DEF SaveInv, TypeOK

(* A write changes what is held and stamped; reads under way notice it by the stamp. *)
LEMMA WriteOutputKeeps ==
  ASSUME SaveInv, NEW f \in Files, NEW c \in Versions, WriteOutput(f, c)
  PROVE  SaveInv'
<1>1. TypeOK'
  <2>1. src' \in [Files -> Versions]
    BY DEF SaveInv, TypeOK, WriteOutput
  <2>2. writes' \in 0..MaxWrites
    BY CheckpointAssumption DEF SaveInv, TypeOK, WriteOutput
  <2>3. ver' \in [Files -> 0..MaxWrites]
    <3>1. writes + 1 \in 0..MaxWrites /\ ver \in [Files -> 0..MaxWrites]
      BY CheckpointAssumption DEF SaveInv, TypeOK, WriteOutput
    <3> QED  BY <3>1 DEF WriteOutput
  <2>4. held' \in [Writers -> [Files -> SUBSET Versions]]
    BY DEF SaveInv, TypeOK, WriteOutput
  <2>5. UNCHANGED <<lock, pc, writer, snaps, rest>>
    BY DEF WriteOutput
  <2> QED  BY <2>1, <2>2, <2>3, <2>4, <2>5 DEF SaveInv, TypeOK, writer, rest
<1>2. OneWriter'
  BY DEF SaveInv, WriteOutput, sources, writer, rest, OneWriter
<1>3. Placed'
  BY CheckpointAssumption, SMTT(30) DEF SaveInv, WriteOutput, sources, writer, rest, Placed, TypeOK,
      Files, SaveIds, Saving, OneWriter
<1>4. Witnessed'
  BY CheckpointAssumption DEF SaveInv, WriteOutput, sources, writer, rest, Witnessed, TypeOK
<1>5. Agreeing'
  <2>1. SUFFICES ASSUME NEW w \in Writers
                 PROVE  /\ pc[w] = "copy2" /\ before[w] = ver'[at[w]] => half[w] = src'[at[w]][1]
                        /\ pc[w] = "stat2" /\ before[w] = ver'[at[w]] => target[w] = src'[at[w]]
                        /\ pc[w] \in {"digest", "digest2"} => target[w] \in held'[w][at[w]]
    BY DEF Agreeing, WriteOutput, writer
  <2>2. pc[w] \in Saving \ {"stat"} => at[w] \in Files
    BY DEF SaveInv, Placed
  <2>3. CASE pc[w] \in {"copy2", "stat2"} /\ at[w] = f
    <3>1. ver'[at[w]] = writes + 1
      BY <2>3 DEF SaveInv, TypeOK, WriteOutput
    <3>2. before[w] # writes + 1
      BY CheckpointAssumption DEF SaveInv, TypeOK, Placed
    <3> QED  BY <2>3, <3>1, <3>2
  <2>4. CASE pc[w] \in {"copy2", "stat2"} /\ at[w] # f
    <3>1. ver'[at[w]] = ver[at[w]] /\ src'[at[w]] = src[at[w]]
      BY <2>2, <2>4 DEF SaveInv, TypeOK, WriteOutput, Saving
    <3> QED  BY <2>4, <3>1 DEF SaveInv, Agreeing
  <2>5. CASE pc[w] \in {"digest", "digest2"}
    <3>1. held[w][at[w]] \subseteq held'[w][at[w]]
      BY <2>2, <2>5 DEF SaveInv, TypeOK, WriteOutput, Saving
    <3> QED  BY <2>5, <3>1 DEF SaveInv, Agreeing
  <2> QED  BY <2>3, <2>4, <2>5
<1>6. Vacant'
  BY DEF SaveInv, WriteOutput, sources, writer, rest, Vacant
<1>7. Inventoried'
  BY CheckpointAssumption DEF SaveInv, WriteOutput, sources, writer, rest, Inventoried,
      TypeOK, Placed, Saving, Files
<1>8. Numbered'
  BY DEF SaveInv, WriteOutput, sources, writer, rest, Numbered
<1>9. SnapshotsFaithful'
  BY DEF SaveInv, WriteOutput, sources, writer, rest, SnapshotsFaithful
<1>10. Restoring'
  BY DEF SaveInv, WriteOutput, sources, writer, rest, Restoring
<1> QED  BY <1>1, <1>2, <1>3, <1>4, <1>5, <1>6, <1>7, <1>8, <1>9, <1>10 DEF SaveInv

(* A new call has a number of its own. *)
LEMMA LockKeeps ==
  ASSUME SaveInv, NEW w \in Writers, Lock(w)
  PROVE  SaveInv'
<1>1. TypeOK'
  BY CheckpointAssumption DEF SaveInv, Lock, sources, writer, rest, TypeOK, Phases, Files
<1>2. OneWriter'
  BY CheckpointAssumption DEF SaveInv, Lock, sources, writer, rest, OneWriter, TypeOK
<1>3. Placed'
  BY CheckpointAssumption DEF SaveInv, Lock, sources, writer, rest, Placed, TypeOK, Files,
      SaveIds, Saving, OneWriter
<1>4. Witnessed'
  BY CheckpointAssumption DEF SaveInv, Lock, sources, writer, rest, Witnessed, TypeOK
<1>5. Agreeing'
  BY CheckpointAssumption DEF SaveInv, Lock, sources, writer, rest, Agreeing, TypeOK,
      Placed, Witnessed, Saving, Files, OneWriter
<1>6. Vacant'
  BY CheckpointAssumption DEF SaveInv, Lock, sources, writer, rest, Vacant, TypeOK
<1>7. Inventoried'
  <2>1. \A v \in Writers : v # w => pc[v] = "idle"
    BY CheckpointAssumption DEF SaveInv, OneWriter, Lock
  <2>2. at[w] = 1
    BY DEF SaveInv, Vacant, Lock
  <2> QED  BY <2>1, <2>2 DEF SaveInv, Inventoried, TypeOK, Saving, Files, Lock, sources,
      writer
<1>8. Numbered'
  BY CheckpointAssumption DEF SaveInv, Lock, sources, writer, rest, Numbered, TypeOK,
      Saving, SaveIds, Placed, OneWriter
<1>9. SnapshotsFaithful'
  BY DEF SaveInv, Lock, sources, writer, rest, SnapshotsFaithful
<1>10. Restoring'
  BY DEF SaveInv, Lock, sources, writer, rest, Restoring
<1> QED  BY <1>1, <1>2, <1>3, <1>4, <1>5, <1>6, <1>7, <1>8, <1>9, <1>10 DEF SaveInv

(* A writer that is refused only counts as a call. *)
LEMMA RefusedKeeps ==
  ASSUME SaveInv, NEW w \in Writers, Refused(w)
  PROVE  SaveInv'
<1>1. TypeOK'
  BY CheckpointAssumption DEF SaveInv, Refused, sources, writer, rest, TypeOK, Phases
<1>2. OneWriter'
  BY DEF SaveInv, Refused, sources, writer, rest, OneWriter
<1>3. Placed'
  BY CheckpointAssumption DEF SaveInv, Refused, sources, writer, rest, Placed, TypeOK,
      Files, SaveIds, Saving, OneWriter
<1>4. Witnessed'
  BY DEF SaveInv, Refused, sources, writer, rest, Witnessed
<1>5. Agreeing'
  BY DEF SaveInv, Refused, sources, writer, rest, Agreeing
<1>6. Vacant'
  BY DEF SaveInv, Refused, sources, writer, rest, Vacant
<1>7. Inventoried'
  BY DEF SaveInv, Refused, sources, writer, rest, Inventoried
<1>8. Numbered'
  BY CheckpointAssumption DEF SaveInv, Refused, sources, writer, rest, Numbered, TypeOK,
      Saving, SaveIds, Placed, OneWriter
<1>9. SnapshotsFaithful'
  BY DEF SaveInv, Refused, sources, writer, rest, SnapshotsFaithful
<1>10. Restoring'
  BY DEF SaveInv, Refused, sources, writer, rest, Restoring
<1> QED  BY <1>1, <1>2, <1>3, <1>4, <1>5, <1>6, <1>7, <1>8, <1>9, <1>10 DEF SaveInv

(* The stamp is that of the last write. *)
LEMMA StatKeeps ==
  ASSUME SaveInv, NEW w \in Writers, Stat(w)
  PROVE  SaveInv'
<1>1. TypeOK'
  BY CheckpointAssumption DEF SaveInv, Stat, sources, writer, rest, TypeOK, Phases,
      Placed, Files
<1>2. OneWriter'
  BY CheckpointAssumption DEF SaveInv, Stat, sources, writer, rest, OneWriter, TypeOK
<1>3. Placed'
  BY CheckpointAssumption DEF SaveInv, Stat, sources, writer, rest, Placed, TypeOK, Files,
      SaveIds, Saving, OneWriter
<1>4. Witnessed'
  BY CheckpointAssumption DEF SaveInv, Stat, sources, writer, rest, Witnessed, TypeOK
<1>5. Agreeing'
  BY CheckpointAssumption, SMTT(30) DEF SaveInv, Stat, sources, writer, rest, Agreeing, TypeOK,
      Placed, Witnessed, Saving, Files, OneWriter
<1>6. Vacant'
  BY CheckpointAssumption DEF SaveInv, Stat, sources, writer, rest, Vacant, TypeOK
<1>7. Inventoried'
  BY CheckpointAssumption DEF SaveInv, Stat, sources, writer, rest, Inventoried, TypeOK,
      Placed, Saving, Files
<1>8. Numbered'
  BY CheckpointAssumption DEF SaveInv, Stat, sources, writer, rest, Numbered, TypeOK,
      Saving, SaveIds, Placed, OneWriter
<1>9. SnapshotsFaithful'
  BY DEF SaveInv, Stat, sources, writer, rest, SnapshotsFaithful
<1>10. Restoring'
  BY DEF SaveInv, Stat, sources, writer, rest, Restoring
<1> QED  BY <1>1, <1>2, <1>3, <1>4, <1>5, <1>6, <1>7, <1>8, <1>9, <1>10 DEF SaveInv

(* As long as the stamp agrees, the part read is the output's. *)
LEMMA CopyKeeps ==
  ASSUME SaveInv, NEW w \in Writers, Copy(w)
  PROVE  SaveInv'
<1>1. TypeOK'
  BY PartsOfOutput DEF SaveInv, Copy, sources, rest, TypeOK, Phases, Saving
<1>2. OneWriter'
  BY CheckpointAssumption DEF SaveInv, Copy, sources, writer, rest, OneWriter, TypeOK
<1>3. Placed'
  BY CheckpointAssumption DEF SaveInv, Copy, sources, writer, rest, Placed, TypeOK, Files,
      SaveIds, Saving, OneWriter
<1>4. Witnessed'
  BY CheckpointAssumption DEF SaveInv, Copy, sources, writer, rest, Witnessed, TypeOK
<1>5. Agreeing'
  BY CheckpointAssumption, SMTT(30) DEF SaveInv, Copy, sources, writer, rest, Agreeing, TypeOK,
      Placed, Witnessed, Saving, Files, OneWriter
<1>6. Vacant'
  BY CheckpointAssumption DEF SaveInv, Copy, sources, writer, rest, Vacant, TypeOK
<1>7. Inventoried'
  BY CheckpointAssumption DEF SaveInv, Copy, sources, writer, rest, Inventoried, TypeOK,
      Placed, Saving, Files
<1>8. Numbered'
  BY CheckpointAssumption DEF SaveInv, Copy, sources, writer, rest, Numbered, TypeOK,
      Saving, SaveIds, Placed, OneWriter
<1>9. SnapshotsFaithful'
  BY DEF SaveInv, Copy, sources, writer, rest, SnapshotsFaithful
<1>10. Restoring'
  BY DEF SaveInv, Copy, sources, writer, rest, Restoring
<1> QED  BY <1>1, <1>2, <1>3, <1>4, <1>5, <1>6, <1>7, <1>8, <1>9, <1>10 DEF SaveInv

(* As long as the stamp agrees, both parts are of one content. *)
LEMMA CopyRestKeeps ==
  ASSUME SaveInv, NEW w \in Writers, CopyRest(w)
  PROVE  SaveInv'
<1>1. TypeOK'
  <2>1. half[w] \in Part
    BY DEF SaveInv, TypeOK
  <2>2. <<half[w], src[at[w]][2]>> \in Part \X Part
    BY <2>1, PartsOfOutput DEF CopyRest, Saving
  <2> QED  BY <2>2 DEF SaveInv, CopyRest, sources, rest, TypeOK, Phases
<1>2. OneWriter'
  BY CheckpointAssumption DEF SaveInv, CopyRest, sources, writer, rest, OneWriter, TypeOK
<1>3. Placed'
  BY CheckpointAssumption DEF SaveInv, CopyRest, sources, writer, rest, Placed, TypeOK,
      Files, SaveIds, Saving, OneWriter
<1>4. Witnessed'
  BY CheckpointAssumption DEF SaveInv, CopyRest, sources, writer, rest, Witnessed, TypeOK
<1>5. Agreeing'
  <2> SUFFICES ASSUME NEW v \in Writers
               PROVE  /\ pc'[v] = "copy2" /\ before'[v] = ver'[at'[v]] => half'[v] = src'[at'[v]][1]
                      /\ pc'[v] = "stat2" /\ before'[v] = ver'[at'[v]] => target'[v] = src'[at'[v]]
                      /\ pc'[v] \in {"digest", "digest2"} => target'[v] \in held'[v][at'[v]]
    BY DEF Agreeing
  <2>1. CASE v = w
    <3>1. before[w] = ver[at[w]] => half[w] = src[at[w]][1]
      BY DEF SaveInv, Agreeing, CopyRest
    <3>2. src[at[w]] = <<src[at[w]][1], src[at[w]][2]>>
      BY PartsOfOutput DEF CopyRest, Saving
    <3> QED  BY <2>1, <3>1, <3>2 DEF SaveInv, TypeOK, CopyRest, sources, rest
  <2>2. CASE v # w
    BY <2>2 DEF SaveInv, TypeOK, Agreeing, CopyRest, sources, rest
  <2> QED  BY <2>1, <2>2
<1>6. Vacant'
  BY CheckpointAssumption DEF SaveInv, CopyRest, sources, writer, rest, Vacant, TypeOK
<1>7. Inventoried'
  BY CheckpointAssumption DEF SaveInv, CopyRest, sources, writer, rest, Inventoried,
      TypeOK, Placed, Saving, Files
<1>8. Numbered'
  BY CheckpointAssumption DEF SaveInv, CopyRest, sources, writer, rest, Numbered, TypeOK,
      Saving, SaveIds, Placed, OneWriter
<1>9. SnapshotsFaithful'
  BY DEF SaveInv, CopyRest, sources, writer, rest, SnapshotsFaithful
<1>10. Restoring'
  BY DEF SaveInv, CopyRest, sources, writer, rest, Restoring
<1> QED  BY <1>1, <1>2, <1>3, <1>4, <1>5, <1>6, <1>7, <1>8, <1>9, <1>10 DEF SaveInv

(* The stamp agrees: the copy is what the output holds. *)
LEMMA StatAgainKeeps ==
  ASSUME SaveInv, NEW w \in Writers, StatAgain(w)
  PROVE  SaveInv'
<1>1. TypeOK'
  BY CheckpointAssumption DEF SaveInv, StatAgain, sources, writer, rest, TypeOK, Phases
<1>2. OneWriter'
  BY CheckpointAssumption DEF SaveInv, StatAgain, sources, writer, rest, OneWriter, TypeOK
<1>3. Placed'
  BY CheckpointAssumption DEF SaveInv, StatAgain, sources, writer, rest, Placed, TypeOK,
      Files, SaveIds, Saving, OneWriter
<1>4. Witnessed'
  BY CheckpointAssumption DEF SaveInv, StatAgain, sources, writer, rest, Witnessed, TypeOK
<1>5. Agreeing'
  <2>1. /\ pc[w] = "stat2" /\ UNCHANGED <<src, ver, at, before, half, target, held>>
        /\ pc' = [pc EXCEPT ![w] = IF ver[at[w]] = before[w] THEN "digest" ELSE "abort"]
    BY DEF StatAgain, sources, writer
  <2>2. pc \in [Writers -> Phases] /\ Agreeing
    BY DEF SaveInv, TypeOK
  <2>3. src[at[w]] \in held[w][at[w]]
    BY <2>1 DEF SaveInv, Placed, Witnessed, Saving
  <2>4. \/ pc'[w] = "digest" /\ ver[at[w]] = before[w]
       \/ pc'[w] = "abort"
    BY <2>1, <2>2
  <2>5. \A v \in Writers \ {w} : pc'[v] = pc[v]
    BY <2>1, <2>2
  <2> QED  BY <2>1, <2>2, <2>3, <2>4, <2>5 DEF Agreeing
<1>6. Vacant'
  BY CheckpointAssumption DEF SaveInv, StatAgain, sources, writer, rest, Vacant, TypeOK
<1>7. Inventoried'
  BY CheckpointAssumption DEF SaveInv, StatAgain, sources, writer, rest, Inventoried,
      TypeOK, Placed, Saving, Files
<1>8. Numbered'
  BY CheckpointAssumption DEF SaveInv, StatAgain, sources, writer, rest, Numbered, TypeOK,
      Saving, SaveIds, Placed, OneWriter
<1>9. SnapshotsFaithful'
  BY DEF SaveInv, StatAgain, sources, writer, rest, SnapshotsFaithful
<1>10. Restoring'
  BY DEF SaveInv, StatAgain, sources, writer, rest, Restoring
<1> QED  BY <1>1, <1>2, <1>3, <1>4, <1>5, <1>6, <1>7, <1>8, <1>9, <1>10 DEF SaveInv

(* The copy is not touched. *)
LEMMA DigestKeeps ==
  ASSUME SaveInv, NEW w \in Writers, Digest(w)
  PROVE  SaveInv'
<1>1. TypeOK'
  BY PartsOfOutput DEF SaveInv, Digest, sources, rest, TypeOK, Phases, Saving
<1>2. OneWriter'
  BY CheckpointAssumption DEF SaveInv, Digest, sources, writer, rest, OneWriter, TypeOK
<1>3. Placed'
  BY CheckpointAssumption DEF SaveInv, Digest, sources, writer, rest, Placed, TypeOK,
      Files, SaveIds, Saving, OneWriter
<1>4. Witnessed'
  BY CheckpointAssumption DEF SaveInv, Digest, sources, writer, rest, Witnessed, TypeOK
<1>5. Agreeing'
  BY CheckpointAssumption, SMTT(30) DEF SaveInv, Digest, sources, writer, rest, Agreeing, TypeOK,
      Placed, Witnessed, Saving, Files, OneWriter
<1>6. Vacant'
  BY CheckpointAssumption DEF SaveInv, Digest, sources, writer, rest, Vacant, TypeOK
<1>7. Inventoried'
  BY CheckpointAssumption DEF SaveInv, Digest, sources, writer, rest, Inventoried, TypeOK,
      Placed, Saving, Files
<1>8. Numbered'
  BY CheckpointAssumption DEF SaveInv, Digest, sources, writer, rest, Numbered, TypeOK,
      Saving, SaveIds, Placed, OneWriter
<1>9. SnapshotsFaithful'
  BY DEF SaveInv, Digest, sources, writer, rest, SnapshotsFaithful
<1>10. Restoring'
  BY DEF SaveInv, Digest, sources, writer, rest, Restoring
<1> QED  BY <1>1, <1>2, <1>3, <1>4, <1>5, <1>6, <1>7, <1>8, <1>9, <1>10 DEF SaveInv

(* The copy enters the inventory. *)
LEMMA DigestRestKeeps ==
  ASSUME SaveInv, NEW w \in Writers, DigestRest(w)
  PROVE  SaveInv'
<1>1. TypeOK'
  <2>1. at[w] \in Files /\ target[w] \in Content
    BY HeldIsContent DEF SaveInv, Agreeing, Placed, Saving, DigestRest
  <2>2. staging' \in [Writers -> Listed]
    <3>1. [staging[w] EXCEPT ![at[w]] = target[w]] \in Listed
      BY <2>1 DEF SaveInv, TypeOK, Listed
    <3>2. \/ staging' = staging
          \/ staging' = [staging EXCEPT ![w] = [staging[w] EXCEPT ![at[w]] = target[w]]]
      BY DEF DigestRest
    <3> QED  BY <3>1, <3>2 DEF SaveInv, TypeOK
  <2>3. at' \in [Writers -> 1..NumFiles+1]
    <3>1. at[w] + 1 \in 1..NumFiles+1
      BY <2>1, CheckpointAssumption DEF Files
    <3>2. at' = at \/ at' = [at EXCEPT ![w] = at[w] + 1]
      BY DEF DigestRest
    <3> QED  BY <3>1, <3>2 DEF SaveInv, TypeOK
  <2> QED  BY <2>2, <2>3 DEF SaveInv, TypeOK, Phases, DigestRest, sources, rest
<1>2. OneWriter'
  BY CheckpointAssumption DEF SaveInv, DigestRest, sources, writer, rest, OneWriter, TypeOK
<1>3. Placed'
  BY CheckpointAssumption, SMTT(30) DEF SaveInv, DigestRest, sources, writer, rest, Placed, TypeOK,
      Files, SaveIds, Saving, OneWriter
<1>4. Witnessed'
  BY CheckpointAssumption DEF SaveInv, DigestRest, sources, writer, rest, Witnessed, TypeOK
<1>5. Agreeing'
  <2>1. pc'[w] \in {"stat", "abort"}
    BY DEF SaveInv, TypeOK, DigestRest
  <2>2. \A v \in Writers : v # w => pc'[v] = pc[v] /\ at'[v] = at[v]
    BY DEF SaveInv, TypeOK, DigestRest
  <2> QED  BY <2>1, <2>2 DEF SaveInv, Agreeing, DigestRest, sources
<1>6. Vacant'
  BY CheckpointAssumption DEF SaveInv, DigestRest, sources, writer, rest, Vacant, TypeOK
<1>7. Inventoried'
  <2> SUFFICES ASSUME NEW v \in Writers, pc'[v] \in Saving, NEW f \in Files, f < at'[v]
               PROVE  staging'[v][f] \in held'[v][f]
    BY DEF Inventoried
  <2>1. at[w] \in Files /\ target[w] \in held[w][at[w]] /\ held' = held
    BY DEF SaveInv, Agreeing, Placed, Saving, DigestRest
  <2>2. CASE v = w /\ pc'[w] = "stat"
    <3> DEFINE listed == [staging[w] EXCEPT ![at[w]] = target[w]]
    <3>1. staging'[w] = listed /\ at'[w] = at[w] + 1
      BY <2>2 DEF SaveInv, TypeOK, DigestRest
    <3>2. CASE f = at[w]
      BY <2>1, <2>2, <3>1, <3>2 DEF SaveInv, TypeOK, Listed
    <3>3. CASE f # at[w]
      <4>1. f < at[w]
        BY <2>1, <2>2, <3>1, <3>3 DEF Files
      <4>2. staging[w][f] \in held[w][f]
        BY <4>1 DEF SaveInv, Inventoried, Saving, DigestRest
      <4>3. listed[f] = staging[w][f]
        BY <3>3 DEF SaveInv, TypeOK, Listed
      <4> QED  BY <2>1, <2>2, <3>1, <4>2, <4>3
    <3> QED  BY <3>2, <3>3
  <2>3. CASE v = w /\ pc'[w] # "stat"
    BY <2>3 DEF SaveInv, TypeOK, Saving, DigestRest
  <2>4. CASE v # w
    <3>1. staging'[v] = staging[v] /\ at'[v] = at[v] /\ pc'[v] = pc[v]
      BY <2>4 DEF SaveInv, TypeOK, DigestRest
    <3> QED  BY <2>1, <3>1 DEF SaveInv, Inventoried
  <2> QED  BY <2>2, <2>3, <2>4
<1>8. Numbered'
  BY CheckpointAssumption DEF SaveInv, DigestRest, sources, writer, rest, Numbered,
      TypeOK, Saving, SaveIds, Placed, OneWriter
<1>9. SnapshotsFaithful'
  BY DEF SaveInv, DigestRest, sources, writer, rest, SnapshotsFaithful
<1>10. Restoring'
  BY DEF SaveInv, DigestRest, sources, writer, rest, Restoring
<1> QED  BY <1>1, <1>2, <1>3, <1>4, <1>5, <1>6, <1>7, <1>8, <1>9, <1>10 DEF SaveInv

(* The inventory is complete, and its number is new. *)
LEMMA PublishKeeps ==
  ASSUME SaveInv, NEW w \in Writers, Publish(w)
  PROVE  SaveInv'
<1>1. TypeOK'
  <2>1. \A f \in Files : staging[w][f] \in held[w][f]
    BY CheckpointAssumption DEF SaveInv, Inventoried, Saving, Files, Publish
  <2>2. staging[w] \in [Files -> Content]
    BY <2>1, HeldIsContent DEF SaveInv, TypeOK, Listed
  <2>3. held[w] \in [Files -> SUBSET Versions] /\ staging[w] \in Listed
    BY DEF SaveInv, TypeOK
  <2>4. Snapshot(w) \in Manifest
    BY <2>2, <2>3 DEF Snapshot, Manifest
  <2> QED  BY <2>4 DEF SaveInv, TypeOK, Phases, Publish, sources, writer, rest
<1>2. OneWriter'
  BY CheckpointAssumption DEF SaveInv, Publish, sources, writer, rest, Snapshot,
      OneWriter, TypeOK
<1>3. Placed'
  BY CheckpointAssumption DEF SaveInv, Publish, sources, writer, rest, Snapshot, Placed,
      TypeOK, Files, SaveIds, Saving, OneWriter
<1>4. Witnessed'
  BY CheckpointAssumption DEF SaveInv, Publish, sources, writer, rest, Snapshot,
      Witnessed, TypeOK
<1>5. Agreeing'
  BY CheckpointAssumption DEF SaveInv, Publish, sources, writer, rest, Snapshot, Agreeing,
      TypeOK, Placed, Witnessed, Saving, Files, OneWriter
<1>6. Vacant'
  BY CheckpointAssumption DEF SaveInv, Publish, sources, writer, rest, Snapshot, Vacant,
      TypeOK
<1>7. Inventoried'
  BY CheckpointAssumption DEF SaveInv, Publish, sources, writer, rest, Snapshot,
      Inventoried, TypeOK, Placed, Saving, Files
<1>8. Numbered'
  BY CheckpointAssumption, SMTT(30) DEF SaveInv, Publish, sources, writer, rest, Snapshot, Numbered,
      TypeOK, Saving, SaveIds, Placed, OneWriter
<1>9. SnapshotsFaithful'
  <2> SUFFICES ASSUME NEW i \in SaveIds, snaps'[i] # None, NEW f \in Files
               PROVE  snaps'[i].sha[f] \in snaps'[i].of[f]
    BY DEF SnapshotsFaithful
  <2>1. CASE i = save[w]
    <3>1. staging[w][f] \in held[w][f]
      BY CheckpointAssumption DEF SaveInv, Inventoried, Saving, Files, Publish
    <3>2. snaps'[i] = Snapshot(w)
      BY <2>1 DEF SaveInv, TypeOK, Publish
    <3> QED  BY <3>1, <3>2 DEF Snapshot
  <2>2. CASE i # save[w]
    BY <2>2 DEF SaveInv, TypeOK, SnapshotsFaithful, Publish
  <2> QED  BY <2>1, <2>2
<1>10. Restoring'
  BY CheckpointAssumption DEF SaveInv, Publish, sources, writer, rest, Snapshot,
      Restoring, TypeOK, Numbered, Saving, Files, Placed, SaveIds
<1> QED  BY <1>1, <1>2, <1>3, <1>4, <1>5, <1>6, <1>7, <1>8, <1>9, <1>10 DEF SaveInv

(* An exception leaves the loop. *)
LEMMA RaiseKeeps ==
  ASSUME SaveInv, NEW w \in Writers, Raise(w)
  PROVE  SaveInv'
<1>1. TypeOK'
  BY CheckpointAssumption DEF SaveInv, Raise, sources, writer, rest, TypeOK, Phases
<1>2. OneWriter'
  BY CheckpointAssumption DEF SaveInv, Raise, sources, writer, rest, OneWriter, TypeOK
<1>3. Placed'
  BY CheckpointAssumption DEF SaveInv, Raise, sources, writer, rest, Placed, TypeOK,
      Files, SaveIds, Saving, OneWriter
<1>4. Witnessed'
  BY CheckpointAssumption DEF SaveInv, Raise, sources, writer, rest, Witnessed, TypeOK
<1>5. Agreeing'
  BY CheckpointAssumption DEF SaveInv, Raise, sources, writer, rest, Agreeing, TypeOK,
      Placed, Witnessed, Saving, Files, OneWriter
<1>6. Vacant'
  BY CheckpointAssumption DEF SaveInv, Raise, sources, writer, rest, Vacant, TypeOK
<1>7. Inventoried'
  BY CheckpointAssumption DEF SaveInv, Raise, sources, writer, rest, Inventoried, TypeOK,
      Placed, Saving, Files
<1>8. Numbered'
  BY CheckpointAssumption DEF SaveInv, Raise, sources, writer, rest, Numbered, TypeOK,
      Saving, SaveIds, Placed, OneWriter
<1>9. SnapshotsFaithful'
  BY DEF SaveInv, Raise, sources, writer, rest, SnapshotsFaithful
<1>10. Restoring'
  BY DEF SaveInv, Raise, sources, writer, rest, Restoring
<1> QED  BY <1>1, <1>2, <1>3, <1>4, <1>5, <1>6, <1>7, <1>8, <1>9, <1>10 DEF SaveInv

(* The staging directory goes. *)
LEMMA AbortKeeps ==
  ASSUME SaveInv, NEW w \in Writers, Abort(w)
  PROVE  SaveInv'
<1>1. TypeOK'
  BY CheckpointAssumption DEF SaveInv, Abort, sources, writer, rest, TypeOK, Phases,
      Listed, Empty
<1>2. OneWriter'
  BY CheckpointAssumption DEF SaveInv, Abort, sources, writer, rest, OneWriter, TypeOK
<1>3. Placed'
  BY CheckpointAssumption DEF SaveInv, Abort, sources, writer, rest, Placed, TypeOK,
      Files, SaveIds, Saving, OneWriter
<1>4. Witnessed'
  BY CheckpointAssumption DEF SaveInv, Abort, sources, writer, rest, Witnessed, TypeOK
<1>5. Agreeing'
  BY CheckpointAssumption, SMTT(30) DEF SaveInv, Abort, sources, writer, rest, Agreeing, TypeOK,
      Placed, Witnessed, Saving, Files, OneWriter
<1>6. Vacant'
  BY CheckpointAssumption DEF SaveInv, Abort, sources, writer, rest, Vacant, TypeOK
<1>7. Inventoried'
  BY CheckpointAssumption DEF SaveInv, Abort, sources, writer, rest, Inventoried, TypeOK,
      Placed, Saving, Files
<1>8. Numbered'
  BY CheckpointAssumption DEF SaveInv, Abort, sources, writer, rest, Numbered, TypeOK,
      Saving, SaveIds, Placed, OneWriter
<1>9. SnapshotsFaithful'
  BY DEF SaveInv, Abort, sources, writer, rest, SnapshotsFaithful
<1>10. Restoring'
  BY DEF SaveInv, Abort, sources, writer, rest, Restoring
<1> QED  BY <1>1, <1>2, <1>3, <1>4, <1>5, <1>6, <1>7, <1>8, <1>9, <1>10 DEF SaveInv

(* The only writer leaves. *)
LEMMA UnlockKeeps ==
  ASSUME SaveInv, NEW w \in Writers, Unlock(w)
  PROVE  SaveInv'
<1>1. TypeOK'
  BY CheckpointAssumption, SMTT(30) DEF SaveInv, Unlock, Forget, sources, writer, rest, TypeOK,
      Phases, Part, Listed, Empty, NotHeld, Files
<1>2. OneWriter'
  BY CheckpointAssumption DEF SaveInv, Unlock, Forget, sources, writer, rest, OneWriter,
      TypeOK
<1>3. Placed'
  BY CheckpointAssumption DEF SaveInv, Unlock, Forget, sources, writer, rest, Placed,
      TypeOK, Files, SaveIds, Saving, OneWriter
<1>4. Witnessed'
  BY CheckpointAssumption DEF SaveInv, Unlock, Forget, sources, writer, rest, Witnessed,
      TypeOK
<1>5. Agreeing'
  <2>1. pc'[w] = "idle" /\ src' = src /\ ver' = ver
    BY DEF SaveInv, TypeOK, Unlock, Forget, sources
  <2>2. \A v \in Writers \ {w} :
          /\ pc'[v] = pc[v] /\ at'[v] = at[v] /\ before'[v] = before[v] /\ half'[v] = half[v]
          /\ target'[v] = target[v] /\ held'[v] = held[v]
    BY DEF SaveInv, TypeOK, Unlock, Forget
  <2> QED  BY <2>1, <2>2 DEF SaveInv, Agreeing
<1>6. Vacant'
  BY CheckpointAssumption DEF SaveInv, Unlock, Forget, sources, writer, rest, Vacant, TypeOK
<1>7. Inventoried'
  BY CheckpointAssumption DEF SaveInv, Unlock, Forget, sources, writer, rest, Inventoried,
      TypeOK, Placed, Saving, Files
<1>8. Numbered'
  BY CheckpointAssumption DEF SaveInv, Unlock, Forget, sources, writer, rest, Numbered,
      TypeOK, Saving, SaveIds, Placed, OneWriter
<1>9. SnapshotsFaithful'
  BY DEF SaveInv, Unlock, Forget, sources, writer, rest, SnapshotsFaithful
<1>10. Restoring'
  BY DEF SaveInv, Unlock, Forget, sources, writer, rest, Restoring
<1> QED  BY <1>1, <1>2, <1>3, <1>4, <1>5, <1>6, <1>7, <1>8, <1>9, <1>10 DEF SaveInv

(* The writer is gone, its lock stays. *)
LEMMA KillWriterKeeps ==
  ASSUME SaveInv, NEW w \in Writers, KillWriter(w)
  PROVE  SaveInv'
<1>1. TypeOK'
  BY CheckpointAssumption, SMTT(30) DEF SaveInv, KillWriter, Forget, sources, writer, rest, TypeOK,
      Phases, Part, Listed, Empty, NotHeld, Files
<1>2. OneWriter'
  BY CheckpointAssumption DEF SaveInv, KillWriter, Forget, sources, writer, rest, OneWriter,
      TypeOK
<1>3. Placed'
  BY CheckpointAssumption DEF SaveInv, KillWriter, Forget, sources, writer, rest, Placed,
      TypeOK, Files, SaveIds, Saving, OneWriter
<1>4. Witnessed'
  BY CheckpointAssumption DEF SaveInv, KillWriter, Forget, sources, writer, rest, Witnessed,
      TypeOK
<1>5. Agreeing'
  BY CheckpointAssumption DEF SaveInv, KillWriter, Forget, sources, writer, rest, Agreeing,
      TypeOK, Placed, Witnessed, Saving, Files, OneWriter
<1>6. Vacant'
  BY CheckpointAssumption DEF SaveInv, KillWriter, Forget, sources, writer, rest, Vacant, TypeOK
<1>7. Inventoried'
  BY CheckpointAssumption DEF SaveInv, KillWriter, Forget, sources, writer, rest, Inventoried,
      TypeOK, Placed, Saving, Files
<1>8. Numbered'
  BY CheckpointAssumption DEF SaveInv, KillWriter, Forget, sources, writer, rest, Numbered,
      TypeOK, Saving, SaveIds, Placed, OneWriter
<1>9. SnapshotsFaithful'
  BY DEF SaveInv, KillWriter, Forget, sources, writer, rest, SnapshotsFaithful
<1>10. Restoring'
  BY DEF SaveInv, KillWriter, Forget, sources, writer, rest, Restoring
<1> QED  BY <1>1, <1>2, <1>3, <1>4, <1>5, <1>6, <1>7, <1>8, <1>9, <1>10 DEF SaveInv

(* Only what is on disk changes, not what was published. *)
LEMMA DamageKeeps ==
  ASSUME SaveInv, NEW i \in SaveIds, NEW f \in Files, Damage(i, f)
  PROVE  SaveInv'
<1>1. TypeOK'
  <2> DEFINE s == snaps[i]
  <2>1. s \in Manifest
    BY DEF SaveInv, TypeOK, Damage
  <2>2. [s EXCEPT !.disk[f] = None] \in Manifest
    BY <2>1 DEF Manifest, Listed
  <2> QED  BY <2>2, CheckpointAssumption DEF SaveInv, TypeOK, Damage, sources, writer
<1>2. OneWriter'
  BY DEF SaveInv, Damage, sources, writer, rest, OneWriter
<1>3. Placed'
  BY DEF SaveInv, Damage, sources, writer, rest, Placed
<1>4. Witnessed'
  BY DEF SaveInv, Damage, sources, writer, rest, Witnessed
<1>5. Agreeing'
  BY DEF SaveInv, Damage, sources, writer, rest, Agreeing
<1>6. Vacant'
  BY DEF SaveInv, Damage, sources, writer, rest, Vacant
<1>7. Inventoried'
  BY DEF SaveInv, Damage, sources, writer, rest, Inventoried
<1>8. Numbered'
  BY CheckpointAssumption DEF SaveInv, Damage, sources, writer, rest, Numbered, TypeOK,
      Saving, SaveIds, Placed, OneWriter
<1>9. SnapshotsFaithful'
  BY CheckpointAssumption, SMTT(30) DEF SaveInv, Damage, sources, writer, rest, SnapshotsFaithful,
      TypeOK, Inventoried, Saving, Files, SaveIds, Placed
<1>10. Restoring'
  <2> DEFINE s == snaps[i]
  <2>1. s \in Manifest
    BY DEF SaveInv, TypeOK, Damage
  <2>2. [s EXCEPT !.disk[f] = None] \in Manifest
    BY <2>1 DEF Manifest, Listed
  <2>3. [s EXCEPT !.disk[f] = None] # None /\ [s EXCEPT !.disk[f] = None].sha = s.sha
    BY <2>1, <2>2, CheckpointAssumption DEF Manifest
  <2>4. \A j \in SaveIds : snaps[j] # None => snaps'[j] # None /\ snaps'[j].sha = snaps[j].sha
    BY <2>3 DEF SaveInv, TypeOK, Damage
  <2> QED  BY <2>4 DEF SaveInv, Restoring, Damage
<1> QED  BY <1>1, <1>2, <1>3, <1>4, <1>5, <1>6, <1>7, <1>8, <1>9, <1>10 DEF SaveInv

(* A restore begins with an empty directory. *)
LEMMA BeginRestoreKeeps ==
  ASSUME SaveInv, NEW i \in SaveIds, BeginRestore(i)
  PROVE  SaveInv'
<1>1. TypeOK'
  <2>1. Empty \in Listed
    BY DEF Empty, Listed
  <2>2. i \in Nat /\ 1 \in 1..NumFiles+1
    BY CheckpointAssumption DEF SaveIds
  <2>3. restore' \in Restored
    BY <2>1, <2>2 DEF BeginRestore, NoRestore, Restored
  <2> QED  BY <2>3 DEF SaveInv, TypeOK, BeginRestore, sources, writer
<1>2. OneWriter'
  BY DEF SaveInv, BeginRestore, sources, writer, rest, OneWriter
<1>3. Placed'
  BY DEF SaveInv, BeginRestore, sources, writer, rest, Placed
<1>4. Witnessed'
  BY DEF SaveInv, BeginRestore, sources, writer, rest, Witnessed
<1>5. Agreeing'
  BY DEF SaveInv, BeginRestore, sources, writer, rest, Agreeing
<1>6. Vacant'
  BY DEF SaveInv, BeginRestore, sources, writer, rest, Vacant
<1>7. Inventoried'
  BY DEF SaveInv, BeginRestore, sources, writer, rest, Inventoried
<1>8. Numbered'
  BY DEF SaveInv, BeginRestore, sources, writer, rest, Numbered
<1>9. SnapshotsFaithful'
  BY DEF SaveInv, BeginRestore, sources, writer, rest, SnapshotsFaithful
<1>10. Restoring'
  BY CheckpointAssumption DEF SaveInv, BeginRestore, sources, writer, rest, Restoring,
      TypeOK, Numbered, Saving, Files, Placed, SaveIds, NoRestore
<1> QED  BY <1>1, <1>2, <1>3, <1>4, <1>5, <1>6, <1>7, <1>8, <1>9, <1>10 DEF SaveInv

(* Verifying changes nothing. *)
LEMMA VerifyKeeps ==
  ASSUME SaveInv, Verify
  PROVE  SaveInv'
<1>1. TypeOK'
  <2>1. NoRestore \in Restored
    BY CheckpointAssumption DEF NoRestore, Restored, Empty, Listed
  <2>2. restore \in Restored
    BY DEF SaveInv, TypeOK
  <2>3. restore.at \in Files => restore.at + 1 \in 1..NumFiles+1
    BY CheckpointAssumption DEF Files
  <2>4. 1 \in 1..NumFiles+1
    BY CheckpointAssumption
  <2>5. restore' \in Restored
    <3>1. CASE restore' = NoRestore
      BY <2>1, <3>1
    <3>2. CASE restore.at \in Files /\ restore' = [restore EXCEPT !.at = @ + 1]
      BY <2>2, <2>3, <3>2 DEF Restored
    <3>3. CASE restore' = [restore EXCEPT !.phase = "copy", !.at = 1]
      BY <2>2, <2>4, <3>3 DEF Restored
    <3> QED  BY <3>1, <3>2, <3>3 DEF Verify
  <2> QED  BY <2>5 DEF SaveInv, TypeOK, Verify, sources, writer
<1>2. OneWriter'
  BY DEF SaveInv, Verify, sources, writer, rest, OneWriter
<1>3. Placed'
  BY DEF SaveInv, Verify, sources, writer, rest, Placed
<1>4. Witnessed'
  BY DEF SaveInv, Verify, sources, writer, rest, Witnessed
<1>5. Agreeing'
  BY DEF SaveInv, Verify, sources, writer, rest, Agreeing
<1>6. Vacant'
  BY DEF SaveInv, Verify, sources, writer, rest, Vacant
<1>7. Inventoried'
  BY DEF SaveInv, Verify, sources, writer, rest, Inventoried
<1>8. Numbered'
  BY DEF SaveInv, Verify, sources, writer, rest, Numbered
<1>9. SnapshotsFaithful'
  BY DEF SaveInv, Verify, sources, writer, rest, SnapshotsFaithful
<1>10. Restoring'
  <2>1. restore \in Restored
    BY DEF SaveInv, TypeOK
  <2>2. CASE restore' = NoRestore
    BY <2>2 DEF Restoring, NoRestore
  <2>3. CASE restore' = [restore EXCEPT !.at = @ + 1]
    BY <2>1, <2>3 DEF SaveInv, Restoring, Restored, Verify
  <2>4. CASE restore' = [restore EXCEPT !.phase = "copy", !.at = 1]
    <3>1. restore'.phase = "copy" /\ restore'.at = 1 /\ restore'.snap = restore.snap
      BY <2>1, <2>4 DEF Restored
    <3>2. \A f \in Files : ~(f < 1)
      BY CheckpointAssumption DEF Files
    <3> QED  BY <3>1, <3>2 DEF SaveInv, Restoring, Verify
  <2> QED  BY <2>2, <2>3, <2>4 DEF Verify
<1> QED  BY <1>1, <1>2, <1>3, <1>4, <1>5, <1>6, <1>7, <1>8, <1>9, <1>10 DEF SaveInv

(* What is copied is not yet trusted. *)
LEMMA CopyOutKeeps ==
  ASSUME SaveInv, CopyOut
  PROVE  SaveInv'
<1>1. TypeOK'
  <2>1. restore \in Restored
    BY DEF SaveInv, TypeOK
  <2>2. CASE restore.at \notin Files
    <3>1. restore' \in Restored
      BY <2>1, <2>2 DEF CopyOut, Restored
    <3> QED  BY <3>1 DEF SaveInv, TypeOK, CopyOut, sources, writer
  <2>3. CASE restore.at \in Files
    <3>1. snaps[restore.snap] \in Manifest
      BY DEF SaveInv, TypeOK, Restoring, CopyOut
    <3>2. Artifact \in Content \union {None}
      BY <2>3, <3>1 DEF Artifact, Manifest, Listed
    <3>3. [restore.work EXCEPT ![restore.at] = Artifact] \in Listed
      BY <2>1, <3>2 DEF Restored, Listed
    <3>4. restore' \in Restored
      BY <2>1, <2>3, <3>3 DEF CopyOut, Restored
    <3> QED  BY <3>4 DEF SaveInv, TypeOK, CopyOut, sources, writer
  <2> QED  BY <2>2, <2>3
<1>2. OneWriter'
  BY DEF SaveInv, CopyOut, sources, writer, rest, OneWriter
<1>3. Placed'
  BY DEF SaveInv, CopyOut, sources, writer, rest, Placed
<1>4. Witnessed'
  BY DEF SaveInv, CopyOut, sources, writer, rest, Witnessed
<1>5. Agreeing'
  BY DEF SaveInv, CopyOut, sources, writer, rest, Agreeing
<1>6. Vacant'
  BY DEF SaveInv, CopyOut, sources, writer, rest, Vacant
<1>7. Inventoried'
  BY DEF SaveInv, CopyOut, sources, writer, rest, Inventoried
<1>8. Numbered'
  BY DEF SaveInv, CopyOut, sources, writer, rest, Numbered
<1>9. SnapshotsFaithful'
  BY DEF SaveInv, CopyOut, sources, writer, rest, SnapshotsFaithful
<1>10. Restoring'
  <2>1. restore \in Restored
    BY DEF SaveInv, TypeOK
  <2>2. CASE restore.at \notin Files
    <3>1. restore' = [restore EXCEPT !.phase = "done"] /\ restore.at = NumFiles + 1
      BY <2>1, <2>2, CheckpointAssumption DEF CopyOut, Restored, Files
    <3> QED  BY <2>1, <3>1 DEF SaveInv, Restoring, Restored, CopyOut
  <2>3. CASE restore.at \in Files
    <3>1. restore' = [restore EXCEPT !.work[restore.at] = Artifact, !.phase = "check"]
      BY <2>3 DEF CopyOut
    <3>2. \A f \in Files : f < restore.at => restore'.work[f] = restore.work[f]
      BY <2>1, <2>3, <3>1 DEF Restored, Listed, Files
    <3> QED  BY <2>1, <2>3, <3>1, <3>2 DEF SaveInv, Restoring, Restored, CopyOut
  <2> QED  BY <2>2, <2>3
<1> QED  BY <1>1, <1>2, <1>3, <1>4, <1>5, <1>6, <1>7, <1>8, <1>9, <1>10 DEF SaveInv

(* What has the digest is what was published. *)
LEMMA CheckOutKeeps ==
  ASSUME SaveInv, CheckOut
  PROVE  SaveInv'
<1>1. TypeOK'
  <2>1. NoRestore \in Restored
    BY CheckpointAssumption DEF NoRestore, Restored, Empty, Listed
  <2>2. restore \in Restored
    BY DEF SaveInv, TypeOK
  <2>3. restore.at + 1 \in 1..NumFiles+1
    BY CheckpointAssumption DEF SaveInv, Restoring, Files, CheckOut
  <2>4. restore' \in Restored
    BY <2>1, <2>2, <2>3 DEF CheckOut, Restored
  <2> QED  BY <2>4 DEF SaveInv, TypeOK, CheckOut, sources, writer
<1>2. OneWriter'
  BY DEF SaveInv, CheckOut, sources, writer, rest, OneWriter
<1>3. Placed'
  BY DEF SaveInv, CheckOut, sources, writer, rest, Placed
<1>4. Witnessed'
  BY DEF SaveInv, CheckOut, sources, writer, rest, Witnessed
<1>5. Agreeing'
  BY DEF SaveInv, CheckOut, sources, writer, rest, Agreeing
<1>6. Vacant'
  BY DEF SaveInv, CheckOut, sources, writer, rest, Vacant
<1>7. Inventoried'
  BY DEF SaveInv, CheckOut, sources, writer, rest, Inventoried
<1>8. Numbered'
  BY DEF SaveInv, CheckOut, sources, writer, rest, Numbered
<1>9. SnapshotsFaithful'
  BY DEF SaveInv, CheckOut, sources, writer, rest, SnapshotsFaithful
<1>10. Restoring'
  <2>1. /\ restore \in Restored /\ restore.at \in Files /\ snaps' = snaps
        /\ restore.snap \in SaveIds /\ snaps[restore.snap] # None
        /\ \A f \in Files : f < restore.at => restore.work[f] = snaps[restore.snap].sha[f]
    BY DEF SaveInv, TypeOK, Restoring, CheckOut
  <2>2. CASE restore.work[restore.at] # Sha
    BY <2>2 DEF CheckOut, NoRestore, Restoring
  <2>3. CASE restore.work[restore.at] = Sha
    <3>1. restore' = [restore EXCEPT !.at = @ + 1, !.phase = "copy"]
      BY <2>3 DEF CheckOut
    <3>2. /\ restore'.snap = restore.snap /\ restore'.work = restore.work
          /\ restore'.at = restore.at + 1 /\ restore'.phase = "copy"
      BY <2>1, <3>1 DEF Restored
    <3>3. \A f \in Files : f < restore.at + 1 => f < restore.at \/ f = restore.at
      BY <2>1, CheckpointAssumption DEF Files
    <3>4. \A f \in Files : f < restore.at + 1 => restore.work[f] = snaps[restore.snap].sha[f]
      BY <2>1, <2>3, <3>3 DEF Sha
    <3> QED  BY <2>1, <3>2, <3>4 DEF Restoring
  <2> QED  BY <2>2, <2>3
<1> QED  BY <1>1, <1>2, <1>3, <1>4, <1>5, <1>6, <1>7, <1>8, <1>9, <1>10 DEF SaveInv

-----------------------------------------------------------------------------
(* The invariant holds at first, *)
LEMMA SaveInvInit == CheckpointInit => SaveInv
<1> SUFFICES ASSUME CheckpointInit  PROVE SaveInv
  OBVIOUS
<1>1. Empty \in Listed /\ NotHeld \in [Files -> SUBSET Versions] /\ 1 \in 1..NumFiles+1
  BY CheckpointAssumption DEF Empty, Listed, NotHeld
<1>2. NoRestore \in Restored
  BY <1>1 DEF NoRestore, Restored
<1>3. TypeOK
  BY <1>1, <1>2, CheckpointAssumption DEF CheckpointInit, TypeOK, Phases, Part
<1>4. OneWriter /\ Witnessed /\ Vacant /\ SnapshotsFaithful
  BY DEF CheckpointInit, OneWriter, Witnessed, Vacant, SnapshotsFaithful
<1>5. Placed
  BY DEF CheckpointInit, Placed, Saving
<1>6. Agreeing /\ Inventoried /\ Numbered
  BY DEF CheckpointInit, Agreeing, Inventoried, Numbered, Saving
<1>7. Restoring
  BY DEF CheckpointInit, Restoring, NoRestore
<1> QED  BY <1>3, <1>4, <1>5, <1>6, <1>7 DEF SaveInv

(* and every step keeps it. *)
LEMMA SaveInvStep == SaveInv /\ [CheckpointNext]_checkpointVars => SaveInv'
<1> SUFFICES ASSUME SaveInv, [CheckpointNext]_checkpointVars  PROVE SaveInv'
  OBVIOUS
<1>1. ASSUME NEW f \in Files, NEW c \in Versions, WriteOutput(f, c)  PROVE SaveInv'
  BY <1>1, WriteOutputKeeps
<1>2. ASSUME NEW w \in Writers, WriterStep(w)  PROVE SaveInv'
  BY <1>2, LockKeeps, RefusedKeeps, StatKeeps, CopyKeeps, CopyRestKeeps, StatAgainKeeps, DigestKeeps,
          DigestRestKeeps, PublishKeeps, RaiseKeeps, AbortKeeps, UnlockKeeps,
              KillWriterKeeps DEF WriterStep
<1>3. ASSUME NEW i \in SaveIds, NEW f \in Files, Damage(i, f)  PROVE SaveInv'
  BY <1>3, DamageKeeps
<1>4. ASSUME NEW i \in SaveIds, BeginRestore(i)  PROVE SaveInv'
  BY <1>4, BeginRestoreKeeps
<1>5. CASE Verify \/ CopyOut \/ CheckOut
  BY <1>5, VerifyKeeps, CopyOutKeeps, CheckOutKeeps
<1>6. CASE UNCHANGED checkpointVars
  BY <1>6 DEF checkpointVars, SaveInv, TypeOK, OneWriter, Placed, Witnessed, Agreeing, Vacant,
      Inventoried,
              Numbered, SnapshotsFaithful, Restoring
<1> QED  BY <1>1, <1>2, <1>3, <1>4, <1>5, <1>6 DEF CheckpointNext

(* The inductive invariant of savers and restorers, for any number of        *)
(* writers, outputs, calls and writes in between (checkpoint, restore).      *)
THEOREM SavingInvariant == CheckpointSpec => []SaveInv
<1>1. CheckpointInit => SaveInv
  BY SaveInvInit
<1>2. SaveInv /\ [CheckpointNext]_checkpointVars => SaveInv'
  BY SaveInvStep
<1> QED  BY <1>1, <1>2, PTL DEF CheckpointSpec

(* What is published and what is restored has its type: complete manifests,  *)
(* and no read past the last output.                                         *)
THEOREM SavingTypeCorrect == CheckpointSpec => []TypeOK
<1>1. SaveInv => TypeOK
  BY DEF SaveInv
<1> QED  BY <1>1, SavingInvariant, PTL

(* No mixture of two contents of an output is ever published, however the    *)
(* outputs are written meanwhile (checkpoint).                               *)
THEOREM NothingTornPublished == CheckpointSpec => []SnapshotsFaithful
<1>1. SaveInv => SnapshotsFaithful
  BY DEF SaveInv
<1> QED  BY <1>1, SavingInvariant, PTL

(* Two processes never save into one destination at once, killed and refused *)
(* ones included (.saving).                                                  *)
THEOREM WritersExclude == CheckpointSpec => []OneWriter
<1>1. SaveInv => OneWriter
  BY DEF SaveInv
<1> QED  BY <1>1, SavingInvariant, PTL

(* A restore that ends has given back what was published, whatever became of *)
(* the artifacts on disk before and meanwhile (restore).                     *)
THEOREM RestoreGivesBack == CheckpointSpec => []RestoreExact
<1>1. SaveInv => RestoreExact
  <2> SUFFICES ASSUME SaveInv, restore.phase = "done"
               PROVE  restore.work = snaps[restore.snap].sha
    BY DEF RestoreExact
  <2>1. restore \in Restored /\ snaps[restore.snap] \in Manifest
    BY DEF SaveInv, TypeOK, Restoring
  <2>2. \A f \in Files : restore.work[f] = snaps[restore.snap].sha[f]
    BY CheckpointAssumption DEF SaveInv, Restoring, Files
  <2> QED  BY <2>1, <2>2 DEF Restored, Manifest, Listed
<1> QED  BY <1>1, SavingInvariant, PTL
=============================================================================
