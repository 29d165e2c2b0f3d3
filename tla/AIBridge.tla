------------------------------ MODULE AIBridge ------------------------------
(***************************************************************************)
(* Runs of the AI service bridge over one output file: run() and           *)
(* send_with_retry() of src/ai_bridge/runner.py, the response cache of     *)
(* src/ai_bridge/cache.py.                                                 *)
(*                                                                         *)
(* The selected objects are asked for in batches, in catalog order.  An    *)
(* answer may map to values for some objects of its batch and not for      *)
(* others; it is kept in the cache if it maps for at least one.  The       *)
(* output is written when all batches are through, so an interrupted run   *)
(* leaves its answers in the cache alone.  --resume takes the finished     *)
(* rows of the earlier output, as the texts that were written, and writes  *)
(* them by the types of their columns like fresh values.                   *)
(*                                                                         *)
(* A request is the profile and the records it was made from (an input)    *)
(* with the objects of its batch.  An answer is the set of objects it maps *)
(* for: services are not deterministic.  An object is its place in the     *)
(* catalog.  Of the values of a row only what is written and read again    *)
(* differently is told apart: a bool that is false or not given, a number  *)
(* that is not given.                                                      *)
(***************************************************************************)
EXTENDS Integers, FiniteSets

CONSTANTS
  Inputs,      \* states of the service profile, the parameters and the catalog rows
  Selections,  \* --numbers: sets of objects that may be selected
  BatchSize,   \* batch_size of the profile
  Retries,     \* retries of the profile
  CutFails,    \* sets of objects whose cutouts cannot be made
  Cells,       \* what a service may give for the objects: the kind of each one's values
  Absent,      \* a row that is not there
  MaxRuns      \* bound: number of runs

Objects == UNION Selections

ASSUME AIBridgeAssumption ==
  /\ Objects \subseteq Int
  /\ BatchSize \in Nat \ {0} /\ Retries \in Nat /\ MaxRuns \in Nat
  /\ CutFails \subseteq SUBSET Objects
  /\ Cells \subseteq [Objects -> {"plain", "false", "no bool", "no number"}]

Requests == [input : Inputs, objects : SUBSET Objects]
Kinds    == {"plain", "false", "no bool", "no number"}
Answers  == [ok : {TRUE}, from : Requests, cell : Kinds, read : BOOLEAN]  \* the finished rows

ASSUME AbsentAssumption == Absent \notin Requests \union Answers

VARIABLES
  input,    \* the profile, parameters and catalog as they are now
  output,   \* the output file: the row of each object
  cache,    \* the response cache: keys and answers, and the request an answer was given to
  run,      \* the run under way, or the last one: phase, the options, the input it read,
            \* table, the objects left, the batch and its request with its attempts, what the
            \* answer maps for and to; the objects it asked for and those it could not make a
            \* request for (history)
  runs,     \* number of runs so far
  served,   \* history: the requests whose answers were stored
  steady    \* history: every run so far resumed, over one selection, and the last one ended

vars == <<input, output, cache, run, runs, served, steady>>

-----------------------------------------------------------------------------
Error == [ok |-> FALSE, from |-> Absent, cell |-> "plain", read |-> FALSE]
IsOk(row) == row # Absent /\ row.ok

Request(in, batch) == [input |-> in, objects |-> batch]

(* Mutant: the profile is not part of the key. *)
KeyOfBatchOnly(in, batch) == batch

(* make_key(): the hash of the profile and of the request. *)
Key(in, batch) == Request(in, batch)

(* batches: the first BatchSize of the objects left to ask for. *)
Batches(left) ==
  {batch \in (SUBSET left) \ {{}} :
     /\ Cardinality(batch) <= BatchSize
     /\ batch = left \/ Cardinality(batch) = BatchSize
     /\ \A o \in batch, later \in left \ batch : o < later}

(* Mutant: a row is kept whether it has an error or not. *)
KeptWithErrors(resume, sel) ==
  IF resume THEN {o \in sel : output[o] # Absent} ELSE {}

(* The rows --resume takes from the earlier output: no error, same service. *)
Kept(resume, sel) == IF resume THEN {o \in sel : IsOk(output[o])} ELSE {}

(* parse_tsv_table(): what the earlier output has is read as texts. *)
Read(row) == [row EXCEPT !.read = TRUE]

(* Storing under a key once more replaces the old file. *)
Stored(key, from, mapped, cells) ==
  {c \in cache : c.key # key}
    \union {[key |-> key, from |-> from, mapped |-> mapped, cells |-> cells]}

(* The rows of a batch whose answer maps for some objects. *)
WithRows(mapped) ==
  [o \in Objects |->
     IF o \notin run.batch THEN run.table[o]
     ELSE IF o \in mapped
          THEN [ok |-> TRUE, from |-> run.from, cell |-> run.cells[o], read |-> FALSE]
     ELSE Error]

Failing(batch) == [o \in Objects |-> IF o \in batch THEN Error ELSE run.table[o]]

(* One more attempt at the request. *)
Sent == [run EXCEPT !.sent = @ + 1, !.asked = @ \union run.batch]

NextBatch(table, batch) ==
  [run EXCEPT !.phase = "batch", !.table = table, !.todo = @ \ batch, !.batch = {}, !.tries = 0]

(* fmt_value() of a text: every text that is not empty is true, the empty one  *)
(* is not.                                                                     *)
Retyped(cell) ==
  CASE cell = "no bool" -> "false" [] cell = "false" -> "plain" [] OTHER -> cell

(* Mutant: texts are written as they were read. *)
FormattedAsRead(row) == [row EXCEPT !.read = FALSE]

(* fmt_value(): fresh values are written as they are, texts by their column's  *)
(* type; an empty text is no number.                                           *)
Formatted(row) ==
  IF row.read THEN [row EXCEPT !.cell = Retyped(@), !.read = FALSE] ELSE row

Writable(row) == ~(row.read /\ row.cell = "no number")

NoCells == [o \in Objects |-> "plain"]

(* What a run knows goes with it. *)
NoRun(sel) ==
  [phase |-> "idle", sel |-> sel, resume |-> FALSE, caching |-> FALSE, input |-> Absent,
   table |-> [o \in Objects |-> Absent], todo |-> {}, batch |-> {}, tries |-> 0, request |-> Absent,
   from |-> Absent, mapped |-> {}, cells |-> NoCells, sent |-> 0, asked |-> {}, unmade |-> {}]

Init ==
  /\ input \in Inputs
  /\ output = [o \in Objects |-> Absent]
  /\ cache = {} /\ served = {} /\ runs = 0 /\ steady = TRUE
  /\ \E sel \in Selections : run = NoRun(sel)

(* Between runs the profile is edited or the catalog is made anew. *)
ChangeInput(in) ==
  /\ run.phase = "idle" /\ runs < MaxRuns
  /\ input' = in /\ in # input
  /\ UNCHANGED <<output, cache, run, runs, served, steady>>

(* run() up to the batches: cutouts, then --resume, which wins over a cutout *)
(* that failed.                                                              *)
Start(sel, resume, caching, cutfail) ==
  LET kept == Kept(resume, sel) IN
  /\ run.phase = "idle" /\ runs < MaxRuns
  /\ run' = [NoRun(sel) EXCEPT
       !.phase = "batch", !.resume = resume, !.caching = caching, !.input = input,
       !.table = [o \in Objects |-> IF o \in kept THEN Read(output[o])
                                    ELSE IF o \in cutfail THEN Error ELSE Absent],
       !.todo = sel \ (kept \union cutfail),
       !.unmade = cutfail \ kept]
  /\ runs' = runs + 1
  /\ steady' = (steady /\ resume /\ (runs > 0 => sel = run.sel))
  /\ UNCHANGED <<input, output, cache, served>>

AtBatch(batch) == run.phase = "batch" /\ batch \in Batches(run.todo)

(* The request cannot be made, or it is larger than max_payload_bytes. *)
CannotPrepare(batch) ==
  /\ AtBatch(batch)
  /\ run' = [NextBatch(Failing(batch), batch) EXCEPT !.unmade = @ \union batch]
  /\ UNCHANGED <<input, output, cache, runs, served, steady>>

Hits(batch) == {c \in cache : run.caching /\ c.key = Key(run.input, batch)}

(* The cache has the answer. *)
Hit(batch) ==
  /\ AtBatch(batch)
  /\ \E c \in Hits(batch) :
       run' = [run EXCEPT !.phase = "mapped", !.batch = batch,
                          !.request = Request(run.input, batch),
                          !.from = c.from, !.mapped = c.mapped, !.cells = c.cells]
  /\ UNCHANGED <<input, output, cache, runs, served, steady>>

Miss(batch) ==
  /\ AtBatch(batch) /\ Hits(batch) = {}
  /\ run' = [run EXCEPT !.phase = "send", !.batch = batch,
                        !.request = Request(run.input, batch),
                        !.sent = IF run.request = Request(run.input, batch) THEN @ ELSE 0]
  /\ UNCHANGED <<input, output, cache, runs, served, steady>>

(* adapter.send() returns. *)
Answer(mapped, cells) ==
  /\ run.phase = "send"
  /\ run' = [Sent EXCEPT !.phase = "answered", !.from = run.request, !.mapped = mapped,
                         !.cells = [o \in Objects |-> IF o \in mapped THEN cells[o] ELSE "plain"]]
  /\ UNCHANGED <<input, output, cache, runs, served, steady>>

(* Mutant: one attempt too many. *)
AgainOnceMore ==
  /\ run.phase = "send" /\ run.tries <= Retries
  /\ run' = [Sent EXCEPT !.tries = @ + 1]
  /\ UNCHANGED <<input, output, cache, runs, served, steady>>

(* A failure that may be tried again: after a pause, up to retries times. *)
Again ==
  /\ run.phase = "send" /\ run.tries < Retries
  /\ run' = [Sent EXCEPT !.tries = @ + 1]
  /\ UNCHANGED <<input, output, cache, runs, served, steady>>

(* A failure that is final: authentication, not retryable, or the last try. *)
Refuse ==
  /\ run.phase = "send"
  /\ run' = [NextBatch(Failing(run.batch), run.batch) EXCEPT !.asked = Sent.asked, !.sent = Sent.sent]
  /\ UNCHANGED <<input, output, cache, runs, served, steady>>

(* Mutant: only an answer that maps for every object is kept. *)
StoreFullAnswers(stores) ==
  /\ run.phase = "answered"
  /\ IF run.caching /\ stores /\ run.mapped = run.batch
     THEN cache' = Stored(Key(run.input, run.batch), run.from, run.mapped, run.cells) ELSE cache' = cache
  /\ served' = IF run.caching /\ stores /\ run.mapped # {}
               THEN served \union {run.request} ELSE served
  /\ run' = [run EXCEPT !.phase = "mapped"]
  /\ UNCHANGED <<input, output, runs, steady>>

(* Mutant: every answer is kept, pure garbage as well. *)
StoreAnyAnswer(stores) ==
  /\ run.phase = "answered"
  /\ IF run.caching /\ stores
     THEN /\ cache' = Stored(Key(run.input, run.batch), run.from, run.mapped, run.cells)
          /\ served' = served \union {run.request}
     ELSE UNCHANGED <<cache, served>>
  /\ run' = [run EXCEPT !.phase = "mapped"]
  /\ UNCHANGED <<input, output, runs, steady>>

(* The answer is kept if it maps for an object and the disk takes it. *)
Store(stores) ==
  /\ run.phase = "answered"
  /\ IF run.caching /\ stores /\ run.mapped # {}
     THEN /\ cache' = Stored(Key(run.input, run.batch), run.from, run.mapped, run.cells)
          /\ served' = served \union {run.request}
     ELSE UNCHANGED <<cache, served>>
  /\ run' = [run EXCEPT !.phase = "mapped"]
  /\ UNCHANGED <<input, output, runs, steady>>

(* The rows of the batch. *)
Map ==
  /\ run.phase = "mapped"
  /\ run' = NextBatch(WithRows(run.mapped), run.batch)
  /\ UNCHANGED <<input, output, cache, runs, served, steady>>

Written(row) == IF row = Absent THEN Error ELSE Formatted(row)

AtEnd == run.phase = "batch" /\ run.todo = {}

(* write_outputs(): the new output replaces the old one ... *)
Write ==
  /\ AtEnd /\ \A o \in run.sel : IsOk(run.table[o]) => Writable(run.table[o])
  /\ output' = [o \in Objects |-> IF o \in run.sel THEN Written(run.table[o]) ELSE Absent]
  /\ run' = NoRun(run.sel)
  /\ UNCHANGED <<input, cache, runs, served, steady>>

(* ... unless a row cannot be written: the run ends with the old output. *)
WriteFails ==
  /\ AtEnd /\ \E o \in run.sel : IsOk(run.table[o]) /\ ~Writable(run.table[o])
  /\ run' = NoRun(run.sel)
  /\ steady' = FALSE
  /\ UNCHANGED <<input, output, cache, runs, served>>

(* The run is interrupted. *)
Kill ==
  /\ run.phase # "idle"
  /\ run' = NoRun(run.sel)
  /\ steady' = FALSE
  /\ UNCHANGED <<input, output, cache, runs, served>>

Next ==
  \/ \E in \in Inputs : ChangeInput(in)
  \/ \E sel \in Selections, resume, caching \in BOOLEAN, cutfail \in CutFails :
       Start(sel, resume, caching, cutfail)
  \/ \E batch \in Batches(run.todo) : CannotPrepare(batch) \/ Hit(batch) \/ Miss(batch)
  \/ \E mapped \in SUBSET run.batch, cells \in Cells : Answer(mapped, cells)
  \/ Again \/ Refuse
  \/ \E stores \in BOOLEAN : Store(stores)
  \/ Map \/ Write \/ WriteFails \/ Kill

Spec == Init /\ [][Next]_vars
-----------------------------------------------------------------------------
(* A finished output has for every selected object either the row --resume   *)
(* found, its texts written once more by type, or values from an answer to a *)
(* request made from this run's profile and catalog and with this object in  *)
(* it, or an error; and no run that did not finish changes the output (run,  *)
(* write_outputs).                                                           *)
OutputIsAnswers ==
  [][output' # output =>
       /\ Write
       /\ \A o \in run.sel :
            IF run.resume /\ IsOk(output[o])
            THEN output'[o] = [output[o] EXCEPT !.cell = Retyped(@)]
            ELSE IsOk(output'[o]) => /\ output'[o].from.input = run.input
                                     /\ o \in output'[o].from.objects]_vars

(* A request gets at most retries + 1 attempts in a run, and none at all in  *)
(* any later run when its answer was stored (send_with_retry, Cache).        *)
NotAskedTwice ==
  [][run'.sent > run.sent =>
       run.sent <= Retries /\ ~(run.caching /\ run.request \in served)]_vars

(* As long as runs over one selection resume each other and end, an object   *)
(* that a run reports as failed was asked for in that very run, unless its   *)
(* request could not be made: neither the rows that are kept nor the cache   *)
(* answer for a failure ("request only the rest").                           *)
AskedAgain ==
  [][run.phase = "batch" /\ run'.phase = "idle" /\ Write /\ steady =>
       \A o \in run.sel : output'[o] = Error => o \in run.asked \union run.unmade]_vars
=============================================================================
