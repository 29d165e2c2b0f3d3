-------------------------- MODULE BatchField_proofs --------------------------
(* Proofs about BatchField, for every value of its constants. *)
EXTENDS BatchField, FiniteSetTheorems, TLAPS

(***************************************************************************)
(* Strengthening of TypeOK: a step is in progress only at a position of    *)
(* the recipe, and no catalog is longer than the steps that can have made  *)
(* it.                                                                     *)
(***************************************************************************)
CatBound == IF pc \in {"copy", "fill", "recordOk"} THEN ptr ELSE ptr - 1

Bounded ==
  /\ pc \notin {"idle", "step"} => ptr <= Len(recipe)
  /\ pc # "idle" => ptr <= Len(recipe) + 1 /\ Len(cat) <= CatBound
  /\ \A i \in 1..MaxSteps : snap[i] = Nothing \/ Len(snap[i]) <= i

TypeInv == TypeOK /\ Bounded

(* The constants as the proofs use them. *)
LEMMA ConstantFacts ==
  /\ MaxSteps \in Nat /\ Retries \in Nat /\ MaxRuns \in Nat
  /\ \A r \in Recipes : r \in Seq(Step) /\ Len(r) \in Nat /\ 1 <= Len(r) /\ Len(r) <= MaxSteps
  /\ \A im \in Images : Digest[im] \in {Digest[im2] : im2 \in Images}
BY InputsAssumption, BoundsAssumption

(* The step at the pointer is a step of the plan, and its label is a label. *)
LEMMA CurrentType ==
  ASSUME TypeOK, ptr <= Len(recipe)
  PROVE  Current \in Step /\ Current.label \in Labels
<1>1. recipe \in Seq(Step) /\ ptr \in 1..Len(recipe)
  BY ConstantFacts DEF TypeOK
<1>2. recipe[ptr] \in Step
  BY <1>1
<1> QED BY <1>2 DEF Current, Step

(* Executing the step at the pointer yields a catalog one step longer. *)
LEMMA OutputType ==
  ASSUME TypeOK, ptr <= Len(recipe)
  PROVE  /\ OutputOf(cat, Current) \in Catalog
         /\ Len(OutputOf(cat, Current)) = Len(cat) + 1
<1>1. <<image, Current>> \in (Images \X Step) \union {Torn}
  BY CurrentType DEF TypeOK
<1>2. cat \in Seq((Images \X Step) \union {Torn})
  BY DEF TypeOK, Catalog
<1> QED BY <1>1, <1>2 DEF OutputOf, Catalog

(* Chains, keys and ok entries have their types. *)
LEMMA ChainTypes ==
  ASSUME NEW c \in Chain, NEW s \in Step, NEW t \in Catalog
  PROVE  ChainAfter(c, s, t) \in Chain /\ KeyFor(c, s) \in KeyType
<1>1. c.hist \in Seq([step : Step, cat : Catalog]) /\ c.img \in {Digest[im] : im \in Images}
  BY DEF Chain, Hist
<1>2. Append(c.hist, [step |-> s, cat |-> t]) \in Seq([step : Step, cat : Catalog])
  BY <1>1
<1>3. ChainAfter(c, s, t) = [img |-> c.img, hist |-> Append(c.hist, [step |-> s, cat |-> t])]
  BY SMTT(30) DEF ChainAfter, Chain
<1> QED BY <1>1, <1>2, <1>3 DEF Chain, Hist, KeyFor, KeyType

LEMMA ChainStartType ==
  ASSUME NEW im \in Images
  PROVE  ChainStart(im) \in Chain
<1>1. <<>> \in Seq([step : Step, cat : Catalog])
  OBVIOUS
<1> QED BY <1>1 DEF ChainStart, Chain, Hist

(* What is written into the memory of a run is an entry. *)
LEMMA EntryTypes ==
  /\ \A st \in {"absent", "skipped", "failed"} : PlainEntry(st) \in Entry
  /\ \A k \in KeyType, c \in Chain : OkEntry(k, c) \in Entry
  /\ NoEntries \in [Labels -> Entry]
  /\ \A e \in Entry : e.status = "ok" => e.key \in KeyType /\ e.chain \in Chain
BY DEF Entry, PlainEntry, OkEntry, NoEntries

(* Type correctness holds at the start. *)
LEMMA TypeInit == Init => TypeInv
<1> SUFFICES ASSUME Init PROVE TypeInv
  OBVIOUS
<1>1. <<>> \in Catalog /\ Len(<<>>) = 0
  BY DEF Catalog
<1>2. image \in Images /\ chain = ChainStart(image) /\ cat = <<>>
  BY DEF Init
<1>3. chain \in Chain
  BY <1>2, ChainStartType
<1>4. TypeOK
  <2>1. cat \in Catalog
    BY <1>1, <1>2
  <2>2. ptr \in 1..(MaxSteps + 1) /\ tries \in 0..Retries /\ runs \in 0..MaxRuns /\ durable \in 0..MaxSteps
    BY ConstantFacts DEF Init
  <2>3. pc \in Phases /\ resume \in BOOLEAN /\ broken \in BOOLEAN
    BY DEF Init, Phases
  <2>4. snap \in [1..MaxSteps -> Catalog \union {Nothing}] /\ catFile \in Catalog \union {Nothing}
    BY DEF Init
  <2>5. stateFile \in [Labels -> Entry] /\ old \in [Labels -> Entry] /\ new \in [Labels -> Entry]
    BY EntryTypes DEF Init
  <2>6. image \in Images /\ recipe \in Recipes
    BY DEF Init
  <2>7. outcome \in {"none", "ok", "failed", "killed", "raised"}
    BY DEF Init
  <2> QED BY <1>3, <2>1, <2>2, <2>3, <2>4, <2>5, <2>6, <2>7 DEF TypeOK
<1>5. Bounded
  BY DEF Init, Bounded
<1> QED BY <1>4, <1>5 DEF TypeInv

(* Type correctness is preserved by every step. *)
LEMMA TypeNext == TypeInv /\ [Next]_vars => TypeInv'
<1> SUFFICES ASSUME TypeInv, [Next]_vars PROVE TypeInv'
  OBVIOUS
<1> USE ConstantFacts
<1>T. TypeOK /\ Bounded
  BY DEF TypeInv
<1>1. ASSUME NEW r \in Recipes, EditRecipe(r) PROVE TypeInv'
  <2>1. durable' \in 0..MaxSteps
    <3> DEFINE D == {n \in 1..durable : SamePrefix(r, n)}
    <3>1. durable \in Nat /\ durable <= MaxSteps
      BY <1>T DEF TypeOK
    <3>2. IsFiniteSet(1..durable) /\ Cardinality(1..durable) = durable
      <4>1. 1 \in Int /\ durable \in Int /\ durable - 1 + 1 = durable /\ (1 > durable => durable = 0)
        BY <3>1
      <4> QED BY <4>1, FS_Interval
    <3>3. IsFiniteSet(D) /\ Cardinality(D) <= Cardinality(1..durable)
      BY <3>2, FS_Subset
    <3>4. Cardinality(D) \in Nat
      BY <3>3, FS_CardinalityType
    <3> QED BY <3>1, <3>2, <3>3, <3>4, <1>1 DEF EditRecipe
  <2> QED BY <1>1, <1>T, <2>1 DEF EditRecipe, TypeInv, TypeOK, Bounded, CatBound, files, memory
<1>2. ASSUME NEW im \in Images, ReplaceImage(im) PROVE TypeInv'
  BY <1>2, <1>T DEF ReplaceImage, TypeInv, TypeOK, Bounded, CatBound, files, memory
<1>3. ASSUME NEW res \in ResumeChoices, Start(res) PROVE TypeInv'
  <2>1. res \in BOOLEAN /\ chain' \in Chain /\ old' \in [Labels -> Entry] /\ new' \in [Labels -> Entry]
    BY <1>3, <1>T, BoundsAssumption, ChainStartType, EntryTypes DEF Start, TypeOK
  <2>2. cat' \in Catalog /\ Len(cat') = 0
    <3>1. <<>> \in Catalog /\ Len(<<>>) = 0
      BY DEF Catalog
    <3> QED BY <1>3, <3>1 DEF Start
  <2>3. TypeOK'
    <3>1. ptr' \in 1..(MaxSteps + 1) /\ tries' \in 0..Retries /\ runs' \in 0..MaxRuns
      BY <1>3, <1>T DEF Start, TypeOK
    <3>2. pc' \in Phases /\ resume' \in BOOLEAN /\ broken' \in BOOLEAN
      BY <1>3, <2>1 DEF Start, Phases
    <3> QED BY <1>3, <1>T, <2>1, <2>2, <3>1, <3>2 DEF Start, TypeOK, inputs, files
  <2>4. Len(recipe) \in Nat
    BY <1>T DEF TypeOK
  <2>5. Bounded'
    BY <1>3, <1>T, <2>2, <2>4 DEF Start, Bounded, CatBound, inputs, files
  <2> QED BY <2>3, <2>5 DEF TypeInv
<1>4. ASSUME SkipStep PROVE TypeInv'
  <2>1. new' \in [Labels -> Entry] /\ ptr <= Len(recipe)
    BY <1>4, <1>T, CurrentType, EntryTypes DEF SkipStep, AtStep, TypeOK
  <2> QED BY <1>4, <1>T, <2>1 DEF SkipStep, AtStep, TypeInv, TypeOK, Bounded, CatBound, inputs, files
<1>5. ASSUME CannotBuild PROVE TypeInv'
  <2>1. new' \in [Labels -> Entry] /\ ptr <= Len(recipe)
    BY <1>5, <1>T, CurrentType, EntryTypes DEF CannotBuild, AtStep, TypeOK
  <2> QED BY <1>5, <1>T, <2>1 DEF CannotBuild, AtStep, TypeInv, TypeOK, Bounded, CatBound, inputs, files
<1>6. ASSUME UseSnapshot PROVE TypeInv'
  <2>1. ptr <= Len(recipe) /\ ptr \in 1..MaxSteps /\ Current.label \in Labels
    BY <1>6, <1>T, CurrentType DEF UseSnapshot, AtStep, TypeOK
  <2>2. snap[ptr] \in Catalog /\ Len(snap[ptr]) <= ptr /\ Len(snap[ptr]) \in Nat
    BY <1>6, <1>T, <2>1 DEF UseSnapshot, SnapshotUsable, TypeOK, Bounded, Catalog
  <2>3. old[Current.label] \in Entry /\ old[Current.label].chain \in Chain
    BY <1>6, <1>T, <2>1, EntryTypes DEF UseSnapshot, SnapshotUsable, TypeOK
  <2>4. new' \in [Labels -> Entry]
    BY <1>6, <1>T, <2>1, <2>3 DEF UseSnapshot, TypeOK
  <2> QED BY <1>6, <1>T, <2>1, <2>2, <2>3, <2>4
          DEF UseSnapshot, AtStep, TypeInv, TypeOK, Bounded, CatBound, inputs
<1>7. ASSUME BeginExec PROVE TypeInv'
  BY <1>7, <1>T DEF BeginExec, AtStep, TypeInv, TypeOK, Bounded, CatBound, inputs, files, Phases
<1>8. ASSUME ExecOk PROVE TypeInv'
  <2>1. ptr <= Len(recipe) /\ Current \in Step /\ Current.label \in Labels
    BY <1>8, <1>T, CurrentType DEF ExecOk, Bounded
  <2>2. cat' \in Catalog /\ Len(cat') = Len(cat) + 1 /\ Len(cat) \in Nat
    BY <1>8, <1>T, <2>1, OutputType DEF ExecOk, TypeOK, Catalog
  <2>3. chain' \in Chain /\ Key \in KeyType
    BY <1>8, <1>T, <2>1, <2>2, ChainTypes DEF ExecOk, TypeOK, Key
  <2>4. new' \in [Labels -> Entry]
    BY <1>8, <1>T, <2>1, <2>3, EntryTypes DEF ExecOk, TypeOK
  <2>5. catFile' \in Catalog
    BY <1>8, <2>2 DEF ExecOk
  <2>6. Len(cat') <= ptr
    BY <1>8, <1>T, <2>2 DEF ExecOk, Bounded, CatBound, TypeOK
  <2> QED BY <1>8, <1>T, <2>1, <2>2, <2>3, <2>4, <2>5, <2>6
          DEF ExecOk, TypeInv, TypeOK, Bounded, CatBound, inputs, Phases
<1>9. ASSUME ExecRetry PROVE TypeInv'
  BY <1>9, <1>T DEF ExecRetry, TypeInv, TypeOK, Bounded, CatBound, inputs, files
<1>10. ASSUME ExecFails PROVE TypeInv'
  <2>1. new' \in [Labels -> Entry] /\ ptr <= Len(recipe)
    BY <1>10, <1>T, CurrentType, EntryTypes DEF ExecFails, Bounded, TypeOK
  <2> QED BY <1>10, <1>T, <2>1 DEF ExecFails, TypeInv, TypeOK, Bounded, CatBound, inputs, files, Phases
<1>11. ASSUME OpenSnapshot PROVE TypeInv'
  <2>1. <<Torn>> \in Catalog /\ Len(<<Torn>>) = 1
    BY DEF Catalog
  <2> QED BY <1>11, <1>T, <2>1 DEF OpenSnapshot, TypeInv, TypeOK, Bounded, CatBound, inputs, memory, Phases
<1>12. ASSUME FillSnapshot PROVE TypeInv'
  BY <1>12, <1>T DEF FillSnapshot, TypeInv, TypeOK, Bounded, CatBound, inputs, memory, Phases
<1>13. ASSUME WriteState PROVE TypeInv'
  <2>1. Len(cat) \in Nat
    BY <1>T DEF TypeOK, Catalog
  <2> QED BY <1>13, <1>T, <2>1 DEF WriteState, TypeInv, TypeOK, Bounded, CatBound, inputs, Phases
<1>14. ASSUME Finish PROVE TypeInv'
  <2>1. Len(cat) \in Nat
    BY <1>T DEF TypeOK, Catalog
  <2> QED BY <1>14, <1>T, <2>1 DEF Finish, TypeInv, TypeOK, Bounded, CatBound, inputs, memory, Phases
<1>15. ASSUME NEW how \in {"killed", "raised"}, CutShort(how) PROVE TypeInv'
  BY <1>15, <1>T DEF CutShort, TypeInv, TypeOK, Bounded, CatBound, inputs, files, memory, Phases
<1>17. ASSUME NEW i \in Removable, RemoveSnapshot(i) PROVE TypeInv'
  <2>1. i \in 1..MaxSteps
    BY BoundsAssumption
  <2>2. durable' \in 0..MaxSteps
    BY <1>17, <1>T, <2>1 DEF RemoveSnapshot, TypeOK
  <2> QED BY <1>17, <1>T, <2>1, <2>2 DEF RemoveSnapshot, TypeInv, TypeOK, Bounded, CatBound, inputs, memory
<1>16. CASE UNCHANGED vars
  BY <1>16, <1>T DEF vars, inputs, files, memory, TypeInv, TypeOK, Bounded, CatBound
<1> QED BY <1>1, <1>2, <1>3, <1>4, <1>5, <1>6, <1>7, <1>8, <1>9, <1>10, <1>11, <1>12,
           <1>13, <1>14, <1>15, <1>16, <1>17 DEF Next, RunnerStep

(* Every reachable state is well typed, for every recipe, image and bound. *)
THEOREM TypeCorrect == Spec => []TypeOK
<1>1. TypeInv => TypeOK
  BY DEF TypeInv
<1> QED BY TypeInit, TypeNext, <1>1, PTL DEF Spec

-----------------------------------------------------------------------------
(***************************************************************************)
(* The chain and the key of a run that has done the first n steps of r on  *)
(* im without any mishap, in closed form.                                  *)
(***************************************************************************)
ChainOf(im, r, n) ==
  [img  |-> Digest[im],
   hist |-> [j \in 1..n |-> [step |-> r[j], cat |-> Fresh(im, r, j)]]]

KeyOf(im, r, i) == KeyFor(ChainOf(im, r, i - 1), r[i])

(* Entry e records the i-th step of recipe r on image im. *)
Records(e, im, r, i) == e.key = KeyOf(im, r, i) /\ e.chain = ChainOf(im, r, i)

(* The position whose snapshot no longer belongs to what stateFile says. *)
Dirty == IF pc \in {"fill", "recordOk"} THEN {ptr} ELSE {}

(* The position the run has noted as ok without having its snapshot yet. *)
Pending == IF pc \in {"copy", "fill"} THEN {ptr} ELSE {}

(* Every ok entry of sf records a step, with its snapshot unless in X. *)
Backed(sf, X) ==
  \A l \in Labels : sf[l].status = "ok" =>
    \E im \in Images, r \in Recipes : \E i \in 1..Len(r) :
      Records(sf[l], im, r, i) /\ (i \notin X => snap[i] \in {Nothing, Fresh(im, r, i)})

(* Every ok entry of the run's own state records a step of its own inputs. *)
NewBacked ==
  \A l \in Labels : new[l].status = "ok" =>
    \E i \in 1..Len(recipe) :
      Records(new[l], image, recipe, i) /\ (i \notin Pending => snap[i] = Fresh(image, recipe, i))

Progress ==
  /\ chain = ChainOf(image, recipe, Len(cat))
  /\ cat = Fresh(image, recipe, Len(cat))
  /\ ~broken /\ pc \in {"step", "exec"} => Len(cat) = ptr - 1
  /\ pc = "exec" => ~broken
  /\ pc = "recordFailed" => broken
  /\ pc \in {"copy", "fill", "recordOk"} => Len(cat) = ptr /\ ~broken
  /\ Len(cat) # 0 => catFile = cat

(* The inductive invariant of the resume machinery. *)
ResumeInv ==
  /\ Backed(stateFile, Dirty)
  /\ pc # "idle" => Progress /\ NewBacked /\ Backed(old, (1..(ptr - 1)) \union Dirty)

(* Hypothesis: no run is cut short while a snapshot is being replaced.       *)
KillsSpareSnapshots == KillPoints \cap {"fill", "recordOk"} = {}

(* A fresh catalog is a catalog of as many pairs, and executing one more     *)
(* step on it gives the next fresh catalog and the next chain.               *)
LEMMA FreshStep ==
  ASSUME NEW im \in Images, NEW r \in Recipes, NEW n \in Nat, n < Len(r)
  PROVE  /\ Append(Fresh(im, r, n), <<im, r[n + 1]>>) = Fresh(im, r, n + 1)
         /\ ChainAfter(ChainOf(im, r, n), r[n + 1], Fresh(im, r, n + 1)) = ChainOf(im, r, n + 1)
         /\ Len(Fresh(im, r, n)) = n
<1> DEFINE F(m) == [j \in 1..m |-> <<im, r[j]>>]
           H(m) == [j \in 1..m |-> [step |-> r[j], cat |-> Fresh(im, r, j)]]
<1>1. \A m : Fresh(im, r, m) = F(m)
  BY DEF Fresh, P!Fresh
<1>2. Append(F(n), <<im, r[n + 1]>>) = F(n + 1)
  OBVIOUS
<1>3. Append(H(n), [step |-> r[n + 1], cat |-> Fresh(im, r, n + 1)]) = H(n + 1)
  OBVIOUS
<1>4. ChainOf(im, r, n) = [img |-> Digest[im], hist |-> H(n)] /\ ChainOf(im, r, n + 1) = [img |-> Digest[im], hist |-> H(n + 1)]
  BY DEF ChainOf
<1>5. Len(F(n)) = n
  OBVIOUS
<1> HIDE DEF F, H
<1>6. ChainAfter(ChainOf(im, r, n), r[n + 1], Fresh(im, r, n + 1)) = [img |-> Digest[im], hist |-> H(n + 1)]
  <2> DEFINE item == [step |-> r[n + 1], cat |-> Fresh(im, r, n + 1)]
             c    == [img |-> Digest[im], hist |-> H(n)]
  <2>1. [c EXCEPT !.hist = Append(@, item)] = [img |-> Digest[im], hist |-> Append(H(n), item)]
    <3> DEFINE h == H(n)
               x == Digest[im]
    <3>1. c = [img |-> x, hist |-> h]
      OBVIOUS
    <3> HIDE DEF c, item, h, x
    <3>2. [c EXCEPT !.hist = Append(@, item)] = [img |-> c.img, hist |-> Append(c.hist, item)]
      BY <3>1
    <3>3. c.img = x /\ c.hist = h
      BY <3>1
    <3> QED BY <3>2, <3>3 DEF h, x
  <2>2. ChainAfter(c, r[n + 1], Fresh(im, r, n + 1)) = [c EXCEPT !.hist = Append(@, item)]
    BY DEF ChainAfter
  <2> QED BY <1>3, <1>4, <2>1, <2>2
<1>7. ChainAfter(ChainOf(im, r, n), r[n + 1], Fresh(im, r, n + 1)) = ChainOf(im, r, n + 1)
  BY <1>4, <1>6
<1>8. Append(Fresh(im, r, n), <<im, r[n + 1]>>) = Fresh(im, r, n + 1) /\ Len(Fresh(im, r, n)) = n
  BY <1>1, <1>2, <1>5
<1> QED BY <1>7, <1>8

(* Before the first step the chain is the start chain and there is no catalog. *)
LEMMA NothingDone ==
  ASSUME NEW im, NEW r
  PROVE  ChainOf(im, r, 0) = ChainStart(im) /\ Fresh(im, r, 0) = <<>>
<1>1. [j \in 1..0 |-> <<im, r[j]>>] = <<>>
  OBVIOUS
<1>2. [j \in 1..0 |-> [step |-> r[j], cat |-> Fresh(im, r, j)]] = <<>>
  OBVIOUS
<1> QED BY <1>1, <1>2 DEF ChainOf, ChainStart, Fresh, P!Fresh

(* Two steps with the same key have the same position, image, result and     *)
(* chain: the key determines everything the snapshot holds.                  *)
LEMMA KeyInjective ==
  ASSUME NEW im1 \in Images, NEW r1 \in Recipes, NEW i1 \in 1..Len(r1),
         NEW im2 \in Images, NEW r2 \in Recipes, NEW i2 \in 1..Len(r2),
         KeyOf(im1, r1, i1) = KeyOf(im2, r2, i2)
  PROVE  i1 = i2 /\ Fresh(im1, r1, i1) = Fresh(im2, r2, i2) /\ ChainOf(im1, r1, i1) = ChainOf(im2, r2, i2)
<1> DEFINE H(im, r, n) == [j \in 1..n |-> [step |-> r[j], cat |-> Fresh(im, r, j)]]
<1>0. Len(r1) \in Nat /\ Len(r2) \in Nat
  BY ConstantFacts
<1>1. /\ Digest[im1] = Digest[im2]
      /\ H(im1, r1, i1 - 1) = H(im2, r2, i2 - 1)
      /\ r1[i1] = r2[i2]
  BY DEF KeyOf, KeyFor, ChainOf
<1>2. im1 = im2
  BY <1>1, DigestAssumption
<1>3. 1..(i1 - 1) = 1..(i2 - 1)
  <2>1. DOMAIN H(im1, r1, i1 - 1) = 1..(i1 - 1) /\ DOMAIN H(im2, r2, i2 - 1) = 1..(i2 - 1)
    OBVIOUS
  <2> HIDE DEF H
  <2> QED BY <1>1, <2>1
<1>4. i1 = i2
  <2>1. i1 \in Nat /\ i2 \in Nat /\ i1 >= 1 /\ i2 >= 1
    BY <1>0
  <2>2. (i1 - 1 \in 1..(i1 - 1) <=> i1 > 1) /\ (i2 - 1 \in 1..(i2 - 1) <=> i2 > 1)
    BY <2>1
  <2>3. i1 > 1 => i1 - 1 <= i2 - 1
    BY <1>3, <2>1, <2>2
  <2>4. i2 > 1 => i2 - 1 <= i1 - 1
    BY <1>3, <2>1, <2>2
  <2> QED BY <2>1, <2>3, <2>4
<1>5. \A j \in 1..i1 : r1[j] = r2[j]
  <2> TAKE j \in 1..i1
  <2>1. CASE j = i1
    BY <2>1, <1>1, <1>4
  <2>2. CASE j # i1
    <3>1. j \in 1..(i1 - 1) /\ j \in 1..(i2 - 1)
      BY <2>2, <1>0, <1>4
    <3>2. H(im1, r1, i1 - 1)[j].step = r1[j] /\ H(im2, r2, i2 - 1)[j].step = r2[j]
      BY <3>1
    <3> HIDE DEF H
    <3> QED BY <3>2, <1>1
  <2> QED BY <2>1, <2>2
<1>6. \A j \in 1..i1 : Fresh(im1, r1, j) = Fresh(im2, r2, j)
  <2> TAKE j \in 1..i1
  <2>1. \A k \in 1..j : r1[k] = r2[k]
    BY <1>5, <1>0
  <2> QED BY <2>1, <1>2 DEF Fresh, P!Fresh
<1>7. H(im1, r1, i1) = H(im2, r2, i2)
  BY <1>4, <1>5, <1>6
<1>8. i1 \in 1..i1
  BY <1>0
<1> QED BY <1>1, <1>4, <1>6, <1>7, <1>8 DEF ChainOf

(* What the run relies on is there from the start. *)
LEMMA ResumeInit == Init => ResumeInv
<1>1. Init => Backed(stateFile, Dirty)
  BY DEF Init, Backed, NoEntries, PlainEntry
<1> QED BY <1>1 DEF Init, ResumeInv

(* Steps that touch neither a snapshot nor an entry keep Backed as it is.    *)
LEMMA BackedWeaken ==
  ASSUME NEW sf, NEW X, NEW Y, Backed(sf, X), X \subseteq Y
  PROVE  Backed(sf, Y)
BY DEF Backed

(* Every step keeps the pair of files and the run's memory consistent, as    *)
(* long as no run is cut short while a snapshot is being replaced.           *)
LEMMA ResumeNext ==
  ASSUME KillsSpareSnapshots, TypeInv, TypeInv', ResumeInv, [Next]_vars
  PROVE  ResumeInv'
<1> USE ConstantFacts
<1>T. TypeOK /\ Bounded /\ recipe \in Seq(Step) /\ Len(recipe) \in Nat /\ ptr \in Nat /\ Len(cat) \in Nat
  BY SMTT(30) DEF TypeInv, TypeOK, Catalog
<1>R. Backed(stateFile, Dirty)
  BY DEF ResumeInv
<1>M. pc # "idle" => Progress /\ NewBacked /\ Backed(old, (1..(ptr - 1)) \union Dirty)
  BY DEF ResumeInv
<1>1. ASSUME NEW r \in Recipes, EditRecipe(r) PROVE ResumeInv'
  <2>1. pc' = "idle" /\ Dirty' = Dirty
    BY <1>1 DEF EditRecipe, Dirty, memory
  <2>2. Backed(stateFile, Dirty)'
    BY <1>1, <1>R, <2>1 DEF EditRecipe, Backed, files
  <2> QED BY <2>1, <2>2 DEF ResumeInv
<1>2. ASSUME NEW im \in Images, ReplaceImage(im) PROVE ResumeInv'
  <2>1. pc' = "idle" /\ Dirty' = Dirty
    BY <1>2 DEF ReplaceImage, Dirty, memory
  <2>2. Backed(stateFile, Dirty)'
    BY <1>2, <1>R, <2>1 DEF ReplaceImage, Backed, files
  <2> QED BY <2>1, <2>2 DEF ResumeInv
<1>3. ASSUME NEW res \in ResumeChoices, Start(res) PROVE ResumeInv'
  <2>1. pc = "idle" /\ pc' = "step" /\ Dirty = {} /\ Dirty' = {} /\ Pending' = {} /\ ptr' = 1
    BY <1>3 DEF Start, Dirty, Pending
  <2>2. Progress'
    <3>1. chain' = ChainStart(image') /\ cat' = <<>> /\ Len(cat') = 0 /\ broken' = FALSE
      BY <1>3 DEF Start, inputs
    <3> QED BY <2>1, <3>1, NothingDone DEF Progress
  <2>3. NewBacked'
    BY <1>3 DEF Start, NewBacked, NoEntries, PlainEntry
  <2>4. Backed(stateFile, Dirty)'
    BY <1>3, <1>R, <2>1 DEF Start, files, Backed
  <2>5. Backed(old, (1..(ptr - 1)) \union Dirty)'
    <3>1. old' = stateFile \/ old' = NoEntries
      BY <1>3 DEF Start
    <3>2. CASE old' = stateFile
      <4>1. Backed(old, {})'
        BY <1>3, <3>2, <1>R, <2>1 DEF Start, files, Backed
      <4> QED BY <4>1, <2>1 DEF Backed
    <3>3. CASE old' = NoEntries
      BY <3>3 DEF Backed, NoEntries, PlainEntry
    <3> QED BY <3>1, <3>2, <3>3
  <2> QED BY <2>2, <2>3, <2>4, <2>5 DEF ResumeInv
<1>4. ASSUME pc = "step", pc' = "step", snap' = snap, stateFile' = stateFile, UNCHANGED <<inputs, catFile, chain, cat, old>>,
             ptr <= Len(recipe), ptr' = ptr + 1, broken',
             NEW st \in {"skipped", "failed"}, new' = [new EXCEPT ![Current.label] = PlainEntry(st)]
      PROVE  ResumeInv'
  <2>1. Dirty = {} /\ Dirty' = {} /\ Pending = {} /\ Pending' = {}
    BY <1>4 DEF Dirty, Pending
  <2>2. Progress'
    BY <1>4, <1>M DEF Progress, inputs
  <2>3. NewBacked'
    <3>1. \A l \in Labels : new'[l].status = "ok" => new'[l] = new[l]
      BY <1>4, <1>T DEF TypeOK, PlainEntry
    <3> QED BY <3>1, <1>4, <1>M, <2>1 DEF NewBacked, inputs
  <2>4. Backed(stateFile, Dirty)'
    BY <1>4, <1>R, <2>1 DEF Backed
  <2>5. Backed(old, (1..(ptr - 1)) \union Dirty)'
    <3>1. 1..(ptr - 1) \subseteq 1..(ptr' - 1)
      BY <1>4, <1>T
    <3> QED BY <1>4, <1>M, <2>1, <3>1 DEF Backed
  <2> QED BY <2>2, <2>3, <2>4, <2>5 DEF ResumeInv
<1>5. CASE SkipStep
  BY <1>4, <1>5 DEF SkipStep, AtStep, files
<1>6. CASE CannotBuild
  BY <1>4, <1>6 DEF CannotBuild, AtStep, files
<1>7. ASSUME UseSnapshot PROVE ResumeInv'
  <2>1. /\ pc = "step" /\ pc' = "step" /\ ptr \in 1..Len(recipe) /\ ptr' = ptr + 1 /\ ~broken /\ ~broken'
        /\ snap' = snap /\ stateFile' = stateFile /\ image' = image /\ recipe' = recipe /\ old' = old
        /\ Dirty = {} /\ Dirty' = {} /\ Pending = {} /\ Pending' = {}
    BY <1>7, <1>T DEF UseSnapshot, AtStep, inputs, Dirty, Pending, TypeOK
  <2>2. Current.label \in Labels /\ image \in Images /\ recipe \in Recipes
    BY <2>1, <1>T, CurrentType DEF TypeOK
  <2>3. Key = KeyOf(image, recipe, ptr)
    BY <2>1, <1>M DEF Progress, Key, Current, KeyOf
  <2>4. PICK im \in Images, r \in Recipes : \E i \in 1..Len(r) :
          /\ Records(old[Current.label], im, r, i)
          /\ i \notin 1..(ptr - 1) => snap[i] \in {Nothing, Fresh(im, r, i)}
    <3>1. old[Current.label].status = "ok" /\ Backed(old, 1..(ptr - 1))
      BY <1>7, <1>M, <2>1 DEF UseSnapshot, SnapshotUsable, Backed
    <3> QED BY <3>1, <2>2 DEF Backed
  <2>5. PICK i \in 1..Len(r) :
          /\ Records(old[Current.label], im, r, i)
          /\ i \notin 1..(ptr - 1) => snap[i] \in {Nothing, Fresh(im, r, i)}
    BY <2>4
  <2>6. KeyOf(im, r, i) = KeyOf(image, recipe, ptr)
    BY <1>7, <2>3, <2>5 DEF UseSnapshot, SnapshotUsable, Records
  <2>7. i = ptr /\ Fresh(im, r, i) = Fresh(image, recipe, ptr) /\ ChainOf(im, r, i) = ChainOf(image, recipe, ptr)
    BY <2>1, <2>2, <2>6, KeyInjective
  <2>8. snap[ptr] = Fresh(image, recipe, ptr) /\ Records(old[Current.label], image, recipe, ptr)
    BY <1>7, <2>1, <2>5, <2>6, <2>7 DEF Records, UseSnapshot, SnapshotUsable
  <2>9. cat' = Fresh(image, recipe, ptr) /\ catFile' = cat' /\ chain' = ChainOf(image, recipe, ptr)
    BY <1>7, <2>8 DEF UseSnapshot, Records
  <2>10. Len(cat') = ptr
    <3>1. cat' = [j \in 1..ptr |-> <<image, recipe[j]>>]
      BY <2>9 DEF Fresh, P!Fresh
    <3> QED BY <3>1, <1>T
  <2>11. Progress'
    BY <2>1, <2>9, <2>10, <1>T DEF Progress
  <2>12. NewBacked'
    <3> SUFFICES ASSUME NEW l \in Labels, new'[l].status = "ok"
                 PROVE  \E n \in 1..Len(recipe) : Records(new'[l], image, recipe, n) /\ snap[n] = Fresh(image, recipe, n)
      BY <2>1 DEF NewBacked
    <3>1. CASE l = Current.label
      <4>1. new'[l] = old[Current.label]
        BY <1>7, <1>T, <3>1 DEF UseSnapshot, TypeOK
      <4> QED BY <4>1, <2>1, <2>8
    <3>2. CASE l # Current.label
      <4>1. new'[l] = new[l]
        BY <1>7, <1>T, <3>2 DEF UseSnapshot, TypeOK
      <4> QED BY <4>1, <1>M, <2>1 DEF NewBacked
    <3> QED BY <3>1, <3>2
  <2>13. Backed(stateFile, Dirty)'
    BY <1>R, <2>1 DEF Backed
  <2>14. Backed(old, (1..(ptr - 1)) \union Dirty)'
    <3>1. 1..(ptr - 1) \subseteq 1..(ptr' - 1)
      BY <2>1, <1>T
    <3> QED BY <1>M, <2>1, <3>1 DEF Backed
  <2> QED BY <2>11, <2>12, <2>13, <2>14 DEF ResumeInv
<1>8. ASSUME pc' = "exec", UNCHANGED <<inputs, files, ptr, chain, cat, old, new, broken>>,
             pc = "exec" \/ (pc = "step" /\ ~broken)
      PROVE  ResumeInv'
  <2>1. Dirty = {} /\ Dirty' = {} /\ Pending = {} /\ Pending' = {}
    BY <1>8 DEF Dirty, Pending
  <2>2. Progress'
    BY <1>8, <1>M DEF Progress, inputs, files
  <2>3. NewBacked' /\ Backed(stateFile, Dirty)' /\ Backed(old, (1..(ptr - 1)) \union Dirty)'
    BY <1>8, <1>M, <1>R, <2>1 DEF NewBacked, Backed, inputs, files
  <2> QED BY <2>2, <2>3 DEF ResumeInv
<1>9. CASE BeginExec
  BY <1>8, <1>9 DEF BeginExec, AtStep
<1>10. CASE ExecRetry
  BY <1>8, <1>10 DEF ExecRetry
<1>11. ASSUME ExecOk PROVE ResumeInv'
  <2>1. /\ pc = "exec" /\ pc' = "copy" /\ ptr' = ptr /\ ptr \in 1..Len(recipe) /\ ~broken /\ ~broken'
        /\ snap' = snap /\ stateFile' = stateFile /\ image' = image /\ recipe' = recipe /\ old' = old
        /\ Dirty = {} /\ Dirty' = {} /\ Pending = {} /\ Pending' = {ptr}
    BY <1>11, <1>T, <1>M DEF ExecOk, inputs, Dirty, Pending, TypeOK, Bounded, Progress
  <2>2. Current.label \in Labels /\ image \in Images /\ recipe \in Recipes /\ Current = recipe[ptr]
    BY <2>1, <1>T, CurrentType DEF TypeOK, Current
  <2>3. Len(cat) = ptr - 1 /\ cat = Fresh(image, recipe, ptr - 1) /\ chain = ChainOf(image, recipe, ptr - 1)
    BY <2>1, <1>M DEF Progress
  <2>4. cat' = Fresh(image, recipe, ptr) /\ catFile' = cat' /\ chain' = ChainOf(image, recipe, ptr)
    <3>1. ptr - 1 \in Nat /\ ptr - 1 < Len(recipe) /\ (ptr - 1) + 1 = ptr
      BY <2>1, <1>T
    <3>2. /\ Append(Fresh(image, recipe, ptr - 1), <<image, recipe[ptr]>>) = Fresh(image, recipe, ptr)
          /\ ChainAfter(ChainOf(image, recipe, ptr - 1), recipe[ptr], Fresh(image, recipe, ptr)) = ChainOf(image, recipe, ptr)
      BY <3>1, <2>2, FreshStep
    <3>3. OutputOf(cat, Current) = Fresh(image, recipe, ptr)
      BY <3>2, <2>2, <2>3 DEF OutputOf
    <3> QED BY <3>2, <3>3, <2>2, <2>3, <1>11 DEF ExecOk
  <2>5. Len(cat') = ptr
    <3>1. cat' = [j \in 1..ptr |-> <<image, recipe[j]>>]
      BY <2>4 DEF Fresh, P!Fresh
    <3> QED BY <3>1, <1>T
  <2>6. Progress'
    BY <2>1, <2>4, <2>5 DEF Progress
  <2>7. NewBacked'
    <3> SUFFICES ASSUME NEW l \in Labels, new'[l].status = "ok"
                 PROVE  \E n \in 1..Len(recipe) :
                          Records(new'[l], image, recipe, n) /\ (n # ptr => snap[n] = Fresh(image, recipe, n))
      BY <2>1 DEF NewBacked
    <3>1. CASE l = Current.label
      <4>1. new'[l] = OkEntry(Key, chain')
        BY <1>11, <1>T, <3>1 DEF ExecOk, TypeOK
      <4>2. Records(new'[l], image, recipe, ptr)
        BY <4>1, <2>2, <2>3, <2>4 DEF Records, OkEntry, Key, KeyOf
      <4> QED BY <4>2, <2>1
    <3>2. CASE l # Current.label
      <4>1. new'[l] = new[l]
        BY <1>11, <1>T, <3>2 DEF ExecOk, TypeOK
      <4> QED BY <4>1, <1>M, <2>1 DEF NewBacked
    <3> QED BY <3>1, <3>2
  <2>8. Backed(stateFile, Dirty)' /\ Backed(old, (1..(ptr - 1)) \union Dirty)'
    BY <1>M, <1>R, <2>1 DEF Backed
  <2> QED BY <2>6, <2>7, <2>8 DEF ResumeInv
<1>12. ASSUME ExecFails PROVE ResumeInv'
  <2>1. /\ pc = "exec" /\ pc' = "recordFailed" /\ ptr' = ptr /\ broken'
        /\ snap' = snap /\ stateFile' = stateFile /\ image' = image /\ recipe' = recipe /\ old' = old
        /\ Dirty = {} /\ Dirty' = {} /\ Pending = {} /\ Pending' = {}
    BY <1>12 DEF ExecFails, inputs, files, Dirty, Pending
  <2>2. Progress'
    BY <1>12, <1>M, <2>1 DEF ExecFails, Progress, files
  <2>3. NewBacked'
    <3>1. \A l \in Labels : new'[l].status = "ok" => new'[l] = new[l]
      BY <1>12, <1>T DEF ExecFails, TypeOK, PlainEntry
    <3> QED BY <3>1, <1>M, <2>1 DEF NewBacked
  <2>4. Backed(stateFile, Dirty)' /\ Backed(old, (1..(ptr - 1)) \union Dirty)'
    BY <1>M, <1>R, <2>1 DEF Backed
  <2> QED BY <2>2, <2>3, <2>4 DEF ResumeInv
<1>13. ASSUME OpenSnapshot PROVE ResumeInv'
  <2>1. /\ pc = "copy" /\ pc' = "fill" /\ ptr' = ptr
        /\ stateFile' = stateFile /\ image' = image /\ recipe' = recipe /\ old' = old /\ new' = new
        /\ Dirty = {} /\ Dirty' = {ptr} /\ Pending = {ptr} /\ Pending' = {ptr}
    BY <1>13 DEF OpenSnapshot, inputs, memory, Dirty, Pending
  <2>2. \A n \in 1..MaxSteps : n # ptr => snap'[n] = snap[n]
    BY <1>13, <1>T DEF OpenSnapshot, TypeOK
  <2>3. Progress'
    BY <1>13, <1>M, <2>1 DEF OpenSnapshot, Progress, memory
  <2>4. recipe \in Recipes /\ \A r \in Recipes : \A n \in 1..Len(r) : n \in 1..MaxSteps
    BY <1>T DEF TypeOK
  <2>5. NewBacked'
    BY <1>M, <2>1, <2>2, <2>4 DEF NewBacked
  <2>6. Backed(stateFile, Dirty)' /\ Backed(old, (1..(ptr - 1)) \union Dirty)'
    BY <1>M, <1>R, <2>1, <2>2, <2>4 DEF Backed
  <2> QED BY <2>3, <2>5, <2>6 DEF ResumeInv
<1>14. ASSUME FillSnapshot PROVE ResumeInv'
  <2>1. /\ pc = "fill" /\ pc' = "recordOk" /\ ptr' = ptr
        /\ stateFile' = stateFile /\ image' = image /\ recipe' = recipe /\ old' = old /\ new' = new
        /\ Dirty = {ptr} /\ Dirty' = {ptr} /\ Pending = {ptr} /\ Pending' = {}
    BY <1>14 DEF FillSnapshot, inputs, memory, Dirty, Pending
  <2>2. \A n \in 1..MaxSteps : n # ptr => snap'[n] = snap[n]
    BY <1>14, <1>T DEF FillSnapshot, TypeOK
  <2>3. Progress'
    BY <1>14, <1>M, <2>1 DEF FillSnapshot, Progress, memory
  <2>4. recipe \in Recipes /\ \A r \in Recipes : \A n \in 1..Len(r) : n \in 1..MaxSteps
    BY <1>T DEF TypeOK
  <2>5. ptr \in 1..MaxSteps => snap'[ptr] = Fresh(image, recipe, ptr)
    BY <1>14, <1>T, <1>M, <2>1 DEF FillSnapshot, TypeOK, Progress
  <2>6. NewBacked'
    <3> SUFFICES ASSUME NEW l \in Labels, new[l].status = "ok"
                 PROVE  \E n \in 1..Len(recipe) : Records(new[l], image, recipe, n) /\ snap'[n] = Fresh(image, recipe, n)
      BY <2>1 DEF NewBacked
    <3>1. PICK n \in 1..Len(recipe) :
            Records(new[l], image, recipe, n) /\ (n # ptr => snap[n] = Fresh(image, recipe, n))
      BY <1>M, <2>1 DEF NewBacked
    <3>2. snap'[n] = Fresh(image, recipe, n)
      BY <3>1, <2>2, <2>4, <2>5
    <3> QED BY <3>1, <3>2
  <2>7. Backed(stateFile, Dirty)' /\ Backed(old, (1..(ptr - 1)) \union Dirty)'
    BY <1>M, <1>R, <2>1, <2>2, <2>4 DEF Backed
  <2> QED BY <2>3, <2>6, <2>7 DEF ResumeInv
<1>15. ASSUME NewBacked, Pending = {} PROVE Backed(new, {})
  <2>1. image \in Images /\ recipe \in Recipes
    BY <1>T DEF TypeOK
  <2> QED BY <1>15, <2>1 DEF NewBacked, Backed
<1>16. ASSUME WriteState PROVE ResumeInv'
  <2>1. /\ pc' = "step" /\ ptr' = ptr + 1 /\ broken' = broken
        /\ snap' = snap /\ stateFile' = new /\ image' = image /\ recipe' = recipe /\ old' = old /\ new' = new
        /\ Dirty \subseteq {ptr} /\ Dirty' = {} /\ Pending = {} /\ Pending' = {} /\ pc # "idle"
    BY <1>16 DEF WriteState, inputs, Dirty, Pending
  <2>2. Progress'
    BY <1>16, <1>M, <1>T, <2>1 DEF WriteState, Progress
  <2>3. NewBacked'
    BY <1>M, <2>1 DEF NewBacked
  <2>4. Backed(stateFile, Dirty)'
    BY <1>M, <1>15, <2>1 DEF Backed
  <2>5. Backed(old, (1..(ptr - 1)) \union Dirty)'
    <3>1. (1..(ptr - 1)) \union Dirty \subseteq (1..(ptr' - 1))
      BY <2>1, <1>T DEF TypeOK
    <3> QED BY <1>M, <2>1, <3>1 DEF Backed
  <2> QED BY <2>2, <2>3, <2>4, <2>5 DEF ResumeInv
<1>17. ASSUME Finish PROVE ResumeInv'
  <2>1. pc = "step" /\ pc' = "idle" /\ snap' = snap /\ stateFile' = new /\ Pending = {} /\ Dirty' = {}
    BY <1>17 DEF Finish, Pending, Dirty
  <2>2. Backed(stateFile, Dirty)'
    BY <1>M, <1>15, <2>1 DEF Backed
  <2> QED BY <2>1, <2>2 DEF ResumeInv
<1>18. ASSUME NEW how \in {"killed", "raised"}, CutShort(how) PROVE ResumeInv'
  <2>1. pc' = "idle" /\ snap' = snap /\ stateFile' = stateFile /\ Dirty = {} /\ Dirty' = {}
    BY <1>18 DEF CutShort, files, Dirty, KillsSpareSnapshots
  <2>2. Backed(stateFile, Dirty)'
    BY <1>R, <2>1 DEF Backed
  <2> QED BY <2>1, <2>2 DEF ResumeInv
<1>20. ASSUME NEW i \in Removable, RemoveSnapshot(i) PROVE ResumeInv'
  <2>1. pc' = "idle" /\ stateFile' = stateFile /\ Dirty = {} /\ Dirty' = {}
    BY <1>20 DEF RemoveSnapshot, Dirty
  <2>2. \A n \in 1..MaxSteps : snap'[n] \in {snap[n], Nothing}
    BY <1>20, <1>T DEF RemoveSnapshot, TypeOK
  <2>3. \A r \in Recipes : \A n \in 1..Len(r) : n \in 1..MaxSteps
    OBVIOUS
  <2>4. Backed(stateFile, Dirty)'
    BY <1>R, <2>1, <2>2, <2>3 DEF Backed
  <2> QED BY <2>1, <2>4 DEF ResumeInv
<1>19. CASE UNCHANGED vars
  BY <1>19, <1>R, <1>M DEF vars, inputs, files, memory, ResumeInv, Progress, NewBacked, Backed, Dirty, Pending
<1> QED BY <1>1, <1>2, <1>3, <1>5, <1>6, <1>7, <1>9, <1>10, <1>11, <1>12, <1>13, <1>14,
           <1>16, <1>17, <1>18, <1>19, <1>20 DEF Next, RunnerStep

(* The invariant gives the three promises about the files of a field.        *)
LEMMA InvariantImplies ==
  ASSUME TypeInv, ResumeInv
  PROVE  ResultFresh /\ StateBacked /\ FailedRunKeepsPrefix
<1> USE ConstantFacts
<1>T. TypeOK /\ Bounded /\ recipe \in Recipes /\ Len(recipe) \in Nat /\ 1 <= Len(recipe) /\ Len(cat) \in Nat /\ ptr \in Nat
  BY DEF TypeInv, TypeOK, Catalog
<1>1. ResultFresh
  <2> SUFFICES ASSUME AtEnd, ~broken PROVE catFile = Fresh(image, recipe, Len(recipe))
    BY DEF ResultFresh
  <2>1. Len(cat) = Len(recipe) /\ Progress
    BY <1>T DEF AtEnd, ResumeInv, Progress, Bounded
  <2> QED BY <2>1, <1>T DEF Progress
<1>2. StateBacked
  <2> SUFFICES ASSUME pc = "idle", NEW l \in Labels, stateFile[l].status = "ok"
               PROVE  snap[Len(stateFile[l].chain.hist)] \in
                        {stateFile[l].chain.hist[Len(stateFile[l].chain.hist)].cat, Nothing}
    BY DEF StateBacked
  <2>1. PICK im \in Images, r \in Recipes : \E i \in 1..Len(r) :
          Records(stateFile[l], im, r, i) /\ snap[i] \in {Nothing, Fresh(im, r, i)}
    BY DEF ResumeInv, Backed, Dirty
  <2>2. PICK i \in 1..Len(r) : Records(stateFile[l], im, r, i) /\ snap[i] \in {Nothing, Fresh(im, r, i)}
    BY <2>1
  <2> DEFINE H == [j \in 1..i |-> [step |-> r[j], cat |-> Fresh(im, r, j)]]
  <2>3. stateFile[l].chain.hist = H
    BY <2>2 DEF Records, ChainOf
  <2>4. i \in Nat /\ i \in 1..i
    OBVIOUS
  <2>5. Len(H) = i /\ H[i].cat = Fresh(im, r, i)
    BY <2>4
  <2> HIDE DEF H
  <2> QED BY <2>2, <2>3, <2>5
<1>3. FailedRunKeepsPrefix
  <2> SUFFICES ASSUME AtEnd, broken, cat # <<>> PROVE catFile = Fresh(image, recipe, Len(cat))
    BY DEF FailedRunKeepsPrefix
  <2>1. Progress
    BY DEF AtEnd, ResumeInv
  <2>2. Len(cat) # 0
    BY <1>T DEF TypeOK, Catalog
  <2> QED BY <2>1, <2>2 DEF Progress
<1> QED BY <1>1, <1>2, <1>3

(* The inductive invariant holds throughout, if no run is cut short while a  *)
(* snapshot is being replaced.                                               *)
THEOREM ResumeInvariant ==
  ASSUME KillsSpareSnapshots
  PROVE  Spec => [](TypeInv /\ ResumeInv)
<1>1. Init => TypeInv /\ ResumeInv
  BY TypeInit, ResumeInit
<1>2. TypeInv /\ ResumeInv /\ [Next]_vars => (TypeInv /\ ResumeInv)'
  BY KillsSpareSnapshots, TypeNext, ResumeNext
<1> QED BY <1>1, <1>2, PTL DEF Spec

(* A run that ends ok leaves the catalog of its own recipe and image, for    *)
(* every history of edits, replaced images, failures and interruptions that  *)
(* spare the two phases in which a snapshot is replaced.                     *)
THEOREM ResultAlwaysFresh ==
  ASSUME KillsSpareSnapshots
  PROVE  Spec => []ResultFresh
<1>1. TypeInv /\ ResumeInv => ResultFresh
  BY InvariantImplies
<1> QED BY <1>1, ResumeInvariant, PTL

(* Between runs, state.json and the snapshots a later --resume would take    *)
(* over belong together, under the same hypothesis.                          *)
THEOREM SnapshotsBackState ==
  ASSUME KillsSpareSnapshots
  PROVE  Spec => []StateBacked
<1>1. TypeInv /\ ResumeInv => StateBacked
  BY InvariantImplies
<1> QED BY <1>1, ResumeInvariant, PTL

(* A failed run leaves exactly what the steps before the failed one made,    *)
(* under the same hypothesis.                                                *)
THEOREM FailureKeepsPrefix ==
  ASSUME KillsSpareSnapshots
  PROVE  Spec => []FailedRunKeepsPrefix
<1>1. TypeInv /\ ResumeInv => FailedRunKeepsPrefix
  BY InvariantImplies
<1> QED BY <1>1, ResumeInvariant, PTL

-----------------------------------------------------------------------------
(***************************************************************************)
(* What is recorded is not executed again.  state.json is indexed by the   *)
(* names of the steps, so this needs that no recipe names a step twice.    *)
(***************************************************************************)
LabelsDiffer ==
  \A r \in Recipes : \A i, j \in 1..Len(r) : r[i].label = r[j].label => i = j

(* sf records the j-th step of the current inputs as ok. *)
Noted(sf, j) ==
  sf[recipe[j].label].status = "ok" /\ Records(sf[recipe[j].label], image, recipe, j)

(* The leading steps that count as done are recorded and have a snapshot.    *)
DoneIsRecorded ==
  /\ durable <= Len(recipe)
  /\ \A j \in 1..durable : Noted(stateFile, j) /\ (j \notin Dirty => snap[j] \in Catalog)

(* So are, for the end of the run, the steps the run has been through.       *)
RunIsRecorded ==
  \A j \in 1..Len(cat) : Noted(new, j) /\ (j \notin Pending => snap[j] \in Catalog)

(* A resumed run knows of the ones that lie before it, and executes none.    *)
OldIsKnown ==
  resume => /\ \A j \in ptr..durable : Noted(old, j) /\ snap[j] \in Catalog
            /\ pc # "step" => ptr > durable

ContinueInv ==
  /\ DoneIsRecorded
  /\ pc # "idle" => RunIsRecorded /\ OldIsKnown

(* A set of numbers up to n that holds with every number the ones below it   *)
(* holds as many as the largest of them.                                     *)
LEMMA PrefixCounted ==
  ASSUME NEW n \in Nat, NEW S \in SUBSET (1..n),
         \A k \in S : \A j \in 1..k : j \in S
  PROVE  Cardinality(S) \in 0..n /\ \A j \in 1..Cardinality(S) : j \in S
<1>1. IsFiniteSet(1..n) /\ Cardinality(1..n) = n
  BY FS_Interval
<1>2. Cardinality(S) \in Nat /\ Cardinality(S) <= n
  <2>1. IsFiniteSet(S) /\ Cardinality(S) <= Cardinality(1..n)
    BY <1>1, FS_Subset
  <2>2. Cardinality(S) \in Nat
    BY <2>1, FS_CardinalityType
  <2> QED BY <1>1, <2>1, <2>2
<1>3. ASSUME NEW j \in 1..Cardinality(S), j \notin S PROVE FALSE
  <2>1. j \in Int /\ 1 <= j /\ j <= Cardinality(S) /\ j - 1 \in Nat
    BY <1>2
  <2>2. S \subseteq 1..(j - 1)
    <3> SUFFICES ASSUME NEW k \in S PROVE k \in 1..(j - 1)
      OBVIOUS
    <3>1. k \in 1..n /\ ~(j <= k)
      BY <1>3, <2>1
    <3> QED BY <3>1, <2>1
  <2>3. IsFiniteSet(1..(j - 1)) /\ Cardinality(1..(j - 1)) = j - 1
    BY <2>1, FS_Interval
  <2>4. Cardinality(S) <= j - 1
    BY <2>2, <2>3, FS_Subset
  <2> QED BY <2>1, <2>4, <1>2
<1> QED BY <1>2, <1>3

(* It holds at the start. *)
LEMMA ContinueInit == Init => ContinueInv
BY ConstantFacts DEF Init, ContinueInv, DoneIsRecorded

(* Every step keeps it, if no recipe names a step twice and no run is cut    *)
(* short while a snapshot is being replaced.                                 *)
LEMMA ContinueNext ==
  ASSUME KillsSpareSnapshots, LabelsDiffer, TypeInv, TypeInv', ResumeInv, ResumeInv', ContinueInv, [Next]_vars
  PROVE  ContinueInv'
<1> USE ConstantFacts
<1>T. /\ TypeOK /\ Bounded /\ recipe \in Recipes /\ recipe \in Seq(Step) /\ Len(recipe) \in Nat /\ Len(recipe) <= MaxSteps
      /\ ptr \in Nat /\ ptr >= 1 /\ Len(cat) \in Nat /\ durable \in Nat /\ cat \in Catalog /\ image \in Images
      /\ new \in [Labels -> Entry] /\ snap \in [1..MaxSteps -> Catalog \union {Nothing}]
  <2>1. TypeOK /\ Bounded
    BY DEF TypeInv
  <2>2. recipe \in Recipes /\ ptr \in 1..(MaxSteps + 1) /\ durable \in 0..MaxSteps /\ cat \in Catalog
        /\ image \in Images /\ new \in [Labels -> Entry] /\ snap \in [1..MaxSteps -> Catalog \union {Nothing}]
    BY <2>1 DEF TypeOK
  <2>3. Len(cat) \in Nat
    BY <2>2 DEF Catalog
  <2> QED BY <2>1, <2>2, <2>3
<1>L. \A i, j \in 1..Len(recipe) : recipe[i].label \in Labels /\ (recipe[i].label = recipe[j].label => i = j)
  <2>1. \A i \in 1..Len(recipe) : recipe[i] \in Step
    BY <1>T
  <2>2. \A i, j \in 1..Len(recipe) : recipe[i].label = recipe[j].label => i = j
    BY <1>T DEF LabelsDiffer
  <2> QED BY <2>1, <2>2 DEF Step
<1>D. DoneIsRecorded /\ (pc # "idle" => RunIsRecorded /\ OldIsKnown)
  BY DEF ContinueInv
<1>P. pc # "idle" => Progress /\ Len(cat) <= ptr /\ Len(cat) <= Len(recipe) /\ (pc = "step" => Len(cat) <= ptr - 1)
  BY <1>T DEF ResumeInv, Bounded, CatBound
<1>1. ASSUME NEW r \in Recipes, EditRecipe(r) PROVE ContinueInv'
  <2> DEFINE S == {n \in 1..durable : SamePrefix(r, n)}
  <2>1. S \in SUBSET (1..durable) /\ \A k \in S : \A j \in 1..k : j \in S
    BY <1>T DEF SamePrefix
  <2>2. durable' = Cardinality(S) /\ pc' = "idle" /\ Dirty = {} /\ Dirty' = {}
        /\ stateFile' = stateFile /\ snap' = snap /\ image' = image /\ recipe' = r
    BY <1>1 DEF EditRecipe, Dirty, files, memory
  <2> HIDE DEF S
  <2>3. durable' \in 0..durable /\ \A j \in 1..durable' : j \in S
    BY <2>1, <2>2, <1>T, PrefixCounted
  <2>4. \A j \in 1..durable' : j \in 1..durable /\ j <= Len(r) /\ \A k \in 1..j : r[k] = recipe[k]
    BY <2>3 DEF S, SamePrefix
  <2>5. durable' <= Len(r)
    <3>1. CASE durable' = 0
      BY <3>1
    <3>2. CASE durable' # 0
      <4>1. durable' \in 1..durable'
        BY <3>2, <2>3, <1>T
      <4> QED BY <4>1, <2>4
    <3> QED BY <3>1, <3>2
  <2>6. ASSUME NEW j \in 1..durable' PROVE Noted(stateFile, j)' /\ snap'[j] \in Catalog
    <3>1. j \in 1..durable /\ j \in Nat /\ (\A k \in 1..j : r[k] = recipe[k]) /\ j \in 1..j
      BY <2>4, <2>6, <2>3, <1>T
    <3>2. Noted(stateFile, j) /\ snap[j] \in Catalog
      BY <3>1, <1>D, <2>2 DEF DoneIsRecorded
    <3>3. r[j] = recipe[j] /\ \A k \in 1..j : Fresh(image, r, k) = Fresh(image, recipe, k)
      BY <3>1 DEF Fresh, P!Fresh
    <3>4. ChainOf(image, r, j) = ChainOf(image, recipe, j)
      BY <3>1, <3>3 DEF ChainOf
    <3>5. ChainOf(image, r, j - 1) = ChainOf(image, recipe, j - 1)
      <4>1. \A k \in 1..(j - 1) : k \in 1..j
        BY <3>1
      <4> QED BY <3>1, <3>3, <4>1 DEF ChainOf
    <3>6. KeyOf(image, r, j) = KeyOf(image, recipe, j)
      BY <3>3, <3>5 DEF KeyOf
    <3> QED BY <2>2, <3>2, <3>3, <3>4, <3>6 DEF Noted, Records
  <2> QED BY <2>2, <2>5, <2>6 DEF ContinueInv, DoneIsRecorded
<1>2. ASSUME NEW im \in Images, ReplaceImage(im) PROVE ContinueInv'
  BY <1>2, <1>T DEF ReplaceImage, ContinueInv, DoneIsRecorded, memory
<1>3. ASSUME NEW i \in Removable, RemoveSnapshot(i) PROVE ContinueInv'
  <2>1. /\ durable' <= durable /\ durable' < i /\ durable' \in Nat /\ pc' = "idle" /\ Dirty = {} /\ Dirty' = {}
        /\ stateFile' = stateFile /\ image' = image /\ recipe' = recipe
    BY <1>3, <1>T, BoundsAssumption DEF RemoveSnapshot, Dirty, inputs
  <2>2. \A j \in 1..durable' : snap'[j] = snap[j] /\ j \in 1..durable
    BY <1>3, <1>T, <2>1, BoundsAssumption DEF RemoveSnapshot
  <2> QED BY <2>1, <2>2, <1>D, <1>T DEF ContinueInv, DoneIsRecorded, Noted
<1>4. ASSUME NEW res \in ResumeChoices, Start(res) PROVE ContinueInv'
  <2>1. /\ pc = "idle" /\ pc' = "step" /\ Dirty = {} /\ Dirty' = {} /\ Len(cat') = 0 /\ ptr' = 1
        /\ stateFile' = stateFile /\ snap' = snap /\ image' = image /\ recipe' = recipe /\ durable' = durable
        /\ resume' = res /\ (res => old' = stateFile)
    BY <1>4 DEF Start, Dirty, inputs, files
  <2>2. DoneIsRecorded'
    BY <2>1, <1>D DEF DoneIsRecorded, Noted
  <2>3. RunIsRecorded'
    BY <2>1 DEF RunIsRecorded
  <2>4. OldIsKnown'
    BY <2>1, <1>D DEF OldIsKnown, DoneIsRecorded, Noted
  <2> QED BY <2>2, <2>3, <2>4 DEF ContinueInv
<1> DEFINE Same == stateFile' = stateFile /\ image' = image /\ recipe' = recipe /\ durable' = durable
                   /\ resume' = resume /\ old' = old
<1>5. ASSUME Same, pc = "step", pc' = "step", snap' = snap, ptr' = ptr + 1 PROVE DoneIsRecorded' /\ OldIsKnown'
  <2>1. Dirty = {} /\ Dirty' = {}
    BY <1>5 DEF Dirty
  <2>2. \A j \in ptr'..durable' : j \in ptr..durable
    BY <1>5, <1>T
  <2>3. DoneIsRecorded'
    BY <1>5, <2>1, <1>D DEF DoneIsRecorded, Noted
  <2> QED BY <1>5, <2>2, <2>3, <1>D DEF OldIsKnown, Noted
<1>6. ASSUME Same, snap' = snap, Len(cat) <= ptr - 1, ptr <= Len(recipe), cat' = cat, Pending = {}, Pending' = {},
             pc # "idle", NEW e, new' = [new EXCEPT ![Current.label] = e]
      PROVE  RunIsRecorded'
  <2>1. \A j \in 1..Len(cat) : j \in 1..Len(recipe) /\ ptr \in 1..Len(recipe) /\ j # ptr
    BY <1>6, <1>T
  <2>2. \A j \in 1..Len(cat) : new'[recipe[j].label] = new[recipe[j].label]
    BY <1>6, <2>1, <1>L, <1>T DEF Current
  <2> QED BY <1>6, <2>2, <1>D DEF RunIsRecorded, Noted
<1>7. CASE SkipStep \/ CannotBuild
  <2>1. /\ Same /\ pc = "step" /\ pc' = "step" /\ snap' = snap /\ ptr' = ptr + 1 /\ ptr <= Len(recipe) /\ cat' = cat
        /\ Pending = {} /\ Pending' = {}
        /\ \E e : new' = [new EXCEPT ![Current.label] = e]
    BY <1>7 DEF SkipStep, CannotBuild, AtStep, inputs, files, Pending
  <2> HIDE DEF Same
  <2>2. RunIsRecorded'
    BY <2>1, <1>6, <1>P
  <2> QED BY <2>1, <2>2, <1>5 DEF ContinueInv
<1>8. CASE UseSnapshot
  <2>1. /\ Same /\ pc = "step" /\ pc' = "step" /\ snap' = snap /\ ptr' = ptr + 1 /\ ptr \in 1..Len(recipe) /\ ~broken
        /\ Pending = {} /\ Pending' = {} /\ snap[ptr] # Nothing /\ ~broken'
        /\ new' = [new EXCEPT ![Current.label] = old[Current.label]]
        /\ old[Current.label].status = "ok" /\ old[Current.label].key = Key
    BY <1>8, <1>T DEF UseSnapshot, SnapshotUsable, AtStep, inputs, files, Pending
  <2>2. Len(cat) = ptr - 1 /\ Len(cat') = ptr /\ Key = KeyOf(image, recipe, ptr)
    <3>1. Progress /\ Progress'
      BY <2>1 DEF ResumeInv
    <3> QED BY <3>1, <2>1, <1>T DEF Progress, Key, KeyOf, Current
  <2>3. new'[Current.label] = old[Current.label]
    BY <2>1, <1>L, <1>T DEF Current
  <2>4. Noted(new', ptr)
    <3>1. NewBacked'
      BY <2>1 DEF ResumeInv
    <3>2. PICK n \in 1..Len(recipe) : Records(new'[Current.label], image, recipe, n)
      BY <3>1, <2>1, <2>3, <1>L DEF NewBacked, Current
    <3>3. KeyOf(image, recipe, n) = KeyOf(image, recipe, ptr)
      BY <3>2, <2>1, <2>2, <2>3 DEF Records
    <3>4. n = ptr
      BY <3>3, <2>1, <1>T, KeyInjective
    <3> QED BY <3>2, <3>4, <2>1, <2>3 DEF Noted, Current
  <2>5. RunIsRecorded'
    <3> SUFFICES ASSUME NEW j \in 1..ptr PROVE Noted(new, j)' /\ snap[j] \in Catalog
      BY <2>1, <2>2 DEF RunIsRecorded
    <3>1. CASE j = ptr
      <4>1. snap[ptr] \in Catalog
        BY <2>1, <1>T
      <4> QED BY <3>1, <4>1, <2>4, <2>1 DEF Noted
    <3>2. CASE j # ptr
      <4>1. j \in 1..Len(cat) /\ j \in 1..Len(recipe)
        BY <3>2, <2>1, <2>2, <1>T
      <4>2. new'[recipe[j].label] = new[recipe[j].label]
        BY <4>1, <3>2, <2>1, <1>L, <1>T DEF Current
      <4> QED BY <4>1, <4>2, <2>1, <1>D DEF RunIsRecorded, Noted
    <3> QED BY <3>1, <3>2
  <2> HIDE DEF Same
  <2> QED BY <2>1, <2>5, <1>5 DEF ContinueInv
<1>9. ASSUME Same, snap' = snap, pc # "idle", pc' # "idle", ptr' = ptr, pc' \notin {"fill", "recordOk"},
             pc \notin {"fill", "recordOk"}, resume => ptr > durable
      PROVE  DoneIsRecorded' /\ OldIsKnown'
  <2>1. Dirty = {} /\ Dirty' = {}
    BY <1>9 DEF Dirty
  <2>2. DoneIsRecorded'
    BY <1>9, <2>1, <1>D DEF DoneIsRecorded, Noted
  <2>3. resume => ptr..durable = {}
    BY <1>9, <1>T
  <2> QED BY <1>9, <2>2, <2>3 DEF OldIsKnown
<1>10. CASE BeginExec
  <2>1. /\ Same /\ pc = "step" /\ pc' = "exec" /\ snap' = snap /\ ptr' = ptr /\ ptr \in 1..Len(recipe) /\ ~broken
        /\ cat' = cat /\ new' = new /\ Pending = {} /\ Pending' = {} /\ ~SnapshotUsable
    BY <1>10, <1>T DEF BeginExec, AtStep, inputs, files, Pending
  <2>2. resume => ptr > durable
    <3> SUFFICES ASSUME resume, ptr <= durable PROVE SnapshotUsable
      BY <2>1, <1>T
    <3>1. Noted(old, ptr) /\ snap[ptr] \in Catalog
      BY <2>1, <1>D, <1>T DEF OldIsKnown
    <3>2. Key = KeyOf(image, recipe, ptr)
      BY <2>1, <1>P DEF Progress, Key, KeyOf, Current
    <3> QED BY <3>1, <3>2, NothingAssumption DEF SnapshotUsable, Noted, Records, Current
  <2>3. RunIsRecorded'
    BY <2>1, <1>D DEF RunIsRecorded, Noted
  <2> HIDE DEF Same
  <2> QED BY <2>1, <2>2, <2>3, <1>9 DEF ContinueInv
<1>11. CASE ExecRetry
  <2>1. /\ Same /\ pc = "exec" /\ pc' = "exec" /\ snap' = snap /\ ptr' = ptr
        /\ cat' = cat /\ new' = new /\ Pending = {} /\ Pending' = {}
    BY <1>11 DEF ExecRetry, inputs, files, Pending
  <2>2. resume => ptr > durable
    BY <2>1, <1>D DEF OldIsKnown
  <2>3. RunIsRecorded'
    BY <2>1, <1>D DEF RunIsRecorded, Noted
  <2> HIDE DEF Same
  <2> QED BY <2>1, <2>2, <2>3, <1>9 DEF ContinueInv
<1>12. CASE ExecOk
  <2>1. /\ Same /\ pc = "exec" /\ pc' = "copy" /\ snap' = snap /\ ptr' = ptr /\ ptr \in 1..Len(recipe)
        /\ Pending = {} /\ Pending' = {ptr} /\ new' = [new EXCEPT ![Current.label] = OkEntry(Key, chain')]
    BY <1>12, <1>T DEF ExecOk, inputs, Pending, Bounded
  <2>2. /\ Len(cat') = ptr /\ Len(cat) = ptr - 1 /\ Key = KeyOf(image, recipe, ptr)
        /\ chain' = ChainOf(image, recipe, ptr)
    <3>1. Progress /\ Progress'
      BY <2>1 DEF ResumeInv
    <3> QED BY <3>1, <2>1, <1>T DEF Progress, Key, KeyOf, Current
  <2>3. resume => ptr > durable
    BY <2>1, <1>D DEF OldIsKnown
  <2>4. RunIsRecorded'
    <3> SUFFICES ASSUME NEW j \in 1..ptr PROVE Noted(new, j)' /\ (j # ptr => snap[j] \in Catalog)
      BY <2>1, <2>2 DEF RunIsRecorded
    <3>1. CASE j = ptr
      <4>1. new'[recipe[j].label] = OkEntry(Key, chain')
        BY <3>1, <2>1, <1>L, <1>T DEF Current
      <4> QED BY <4>1, <3>1, <2>1, <2>2 DEF Noted, Records, OkEntry
    <3>2. CASE j # ptr
      <4>1. j \in 1..Len(cat) /\ j \in 1..Len(recipe)
        BY <3>2, <2>1, <2>2, <1>T
      <4>2. new'[recipe[j].label] = new[recipe[j].label]
        BY <4>1, <3>2, <2>1, <1>L, <1>T DEF Current
      <4> QED BY <4>1, <4>2, <2>1, <1>D DEF RunIsRecorded, Noted
    <3> QED BY <3>1, <3>2
  <2> HIDE DEF Same
  <2> QED BY <2>1, <2>3, <2>4, <1>9 DEF ContinueInv
<1>13. CASE ExecFails
  <2>1. /\ Same /\ pc = "exec" /\ pc' = "recordFailed" /\ snap' = snap /\ ptr' = ptr /\ ptr <= Len(recipe)
        /\ Pending = {} /\ Pending' = {} /\ cat' = cat /\ \E e : new' = [new EXCEPT ![Current.label] = e]
    BY <1>13, <1>T DEF ExecFails, inputs, files, Pending, Bounded
  <2>2. Len(cat) <= ptr - 1
    BY <2>1, <1>T DEF Bounded, CatBound
  <2>3. resume => ptr > durable
    BY <2>1, <1>D DEF OldIsKnown
  <2> HIDE DEF Same
  <2>4. RunIsRecorded'
    BY <2>1, <2>2, <1>6
  <2> QED BY <2>1, <2>3, <2>4, <1>9 DEF ContinueInv
<1>14. CASE OpenSnapshot \/ FillSnapshot
  <2>1. /\ Same /\ pc \in {"copy", "fill"} /\ pc' \in {"fill", "recordOk"} /\ ptr' = ptr /\ ptr \in 1..MaxSteps
        /\ cat' = cat /\ new' = new /\ Pending = {ptr} /\ Dirty' = {ptr} /\ Dirty \subseteq {ptr}
        /\ (pc' = "fill" => Pending' = {ptr})
    BY <1>14, <1>T DEF OpenSnapshot, FillSnapshot, inputs, memory, Pending, Dirty, Bounded
  <2>2. \A j \in 1..MaxSteps : j # ptr => snap'[j] = snap[j]
    BY <1>14, <1>T DEF OpenSnapshot, FillSnapshot
  <2>3. pc' = "recordOk" => snap'[ptr] \in Catalog
    BY <1>14, <2>1, <1>T DEF OpenSnapshot, FillSnapshot
  <2>4. \A j \in 1..durable : j \in 1..MaxSteps
    BY <1>D, <1>T DEF DoneIsRecorded
  <2>5. DoneIsRecorded'
    BY <2>1, <2>2, <2>4, <1>D DEF DoneIsRecorded, Noted
  <2>6. OldIsKnown'
    <3>1. resume => ptr > durable
      BY <2>1, <1>D DEF OldIsKnown
    <3>2. resume => ptr..durable = {}
      BY <3>1, <1>T
    <3> QED BY <2>1, <3>1, <3>2 DEF OldIsKnown
  <2>7. RunIsRecorded'
    <3>1. \A j \in 1..Len(cat) : j \in 1..MaxSteps /\ Noted(new, j) /\ (j # ptr => snap[j] \in Catalog)
      BY <2>1, <1>D, <1>P, <1>T DEF RunIsRecorded
    <3>2. Pending' = {ptr} \/ pc' = "recordOk"
      BY <2>1
    <3> QED BY <2>1, <2>2, <2>3, <3>1, <3>2 DEF RunIsRecorded, Noted
  <2> QED BY <2>1, <2>5, <2>6, <2>7 DEF ContinueInv
<1>15. CASE WriteState
  <2>1. /\ pc \in {"recordOk", "recordFailed"} /\ pc' = "step" /\ ptr' = ptr + 1 /\ durable' = Len(cat)
        /\ stateFile' = new /\ new' = new /\ cat' = cat /\ snap' = snap /\ image' = image /\ recipe' = recipe
        /\ Pending = {} /\ Pending' = {} /\ Dirty' = {}
    BY <1>15 DEF WriteState, inputs, Pending, Dirty
  <2>2. Len(cat) <= ptr /\ Len(cat) <= Len(recipe)
    BY <2>1, <1>P
  <2>3. RunIsRecorded' /\ DoneIsRecorded'
    BY <2>1, <2>2, <1>D DEF RunIsRecorded, DoneIsRecorded, Noted
  <2>4. OldIsKnown'
    <3>1. ptr'..durable' = {}
      BY <2>1, <2>2, <1>T
    <3> QED BY <2>1, <3>1 DEF OldIsKnown
  <2> QED BY <2>3, <2>4 DEF ContinueInv
<1>16. CASE Finish
  <2>1. /\ pc = "step" /\ pc' = "idle" /\ durable' = Len(cat) /\ stateFile' = new /\ snap' = snap
        /\ image' = image /\ recipe' = recipe /\ Pending = {} /\ Dirty' = {}
    BY <1>16 DEF Finish, inputs, Pending, Dirty
  <2>2. Len(cat) <= Len(recipe)
    BY <2>1, <1>P
  <2> QED BY <2>1, <2>2, <1>D DEF RunIsRecorded, DoneIsRecorded, Noted, ContinueInv
<1>17. ASSUME NEW how \in {"killed", "raised"}, CutShort(how) PROVE ContinueInv'
  <2>1. /\ pc' = "idle" /\ Dirty = {} /\ Dirty' = {} /\ snap' = snap /\ stateFile' = stateFile
        /\ durable' = durable /\ image' = image /\ recipe' = recipe
    BY <1>17 DEF CutShort, inputs, files, Dirty, KillsSpareSnapshots
  <2> QED BY <2>1, <1>D DEF DoneIsRecorded, Noted, ContinueInv
<1>18. CASE UNCHANGED vars
  BY <1>18, <1>D DEF vars, inputs, files, memory, ContinueInv, DoneIsRecorded, RunIsRecorded, OldIsKnown, Noted,
                     Dirty, Pending
<1> QED BY <1>1, <1>2, <1>3, <1>4, <1>7, <1>8, <1>10, <1>11, <1>12, <1>13, <1>14, <1>15, <1>16, <1>17, <1>18
        DEF Next, RunnerStep

(* A resumed run never executes a step that is recorded for the current      *)
(* inputs, for every history of edits, replaced images, cleared snapshots,   *)
(* failures and interruptions that spare the snapshot replacement.           *)
THEOREM NothingExecutedAgain ==
  ASSUME KillsSpareSnapshots, LabelsDiffer
  PROVE  Spec => []ResumeContinues
<1> DEFINE I == TypeInv /\ ResumeInv /\ ContinueInv
<1>1. Init => I
  BY TypeInit, ResumeInit, ContinueInit
<1>2. I /\ [Next]_vars => I'
  BY KillsSpareSnapshots, LabelsDiffer, TypeNext, ResumeNext, ContinueNext
<1>3. I => ResumeContinues
  BY DEF ContinueInv, OldIsKnown, ResumeContinues
<1> HIDE DEF I
<1> QED BY <1>1, <1>2, <1>3, PTL DEF Spec

-----------------------------------------------------------------------------
(* Refinement *)

(* Every step of the runner is a step of FieldPromise or none.               *)
LEMMA PromiseStep ==
  ASSUME TypeInv, ResumeInv, [Next]_vars
  PROVE  [P!PNext]_(P!pvars)
<1> USE DEF P!PNext, P!pvars, P!PStart, P!PEnd, P!PChangeInputs
<1>T. image \in Images /\ recipe \in Recipes
  BY DEF TypeInv, TypeOK
<1>1. ASSUME NEW r \in Recipes, EditRecipe(r) PROVE P!PChangeInputs
  BY <1>1, <1>T DEF EditRecipe, memory
<1>2. ASSUME NEW im \in Images, ReplaceImage(im) PROVE P!PChangeInputs
  BY <1>2, <1>T DEF ReplaceImage, memory
<1>3. ASSUME NEW res \in ResumeChoices, Start(res) PROVE P!PStart
  BY <1>3 DEF Start, inputs
<1>4. ASSUME Finish PROVE P!PEnd
  <2>1. ~broken => catFile = P!Fresh(image, recipe, Len(recipe))
    BY <1>4, InvariantImplies DEF Finish, ResultFresh, AtEnd, Fresh
  <2> QED BY <1>4, <2>1 DEF Finish, inputs
<1>5. ASSUME NEW how \in {"killed", "raised"}, CutShort(how) PROVE P!PEnd
  <2>1. pc # "idle" /\ pc' = "idle" /\ outcome' # "ok" /\ UNCHANGED <<image, recipe>>
    BY <1>5, BoundsAssumption DEF CutShort, inputs
  <2> QED BY <2>1
<1>8. ASSUME NEW i \in Removable, RemoveSnapshot(i) PROVE UNCHANGED P!pvars
  BY <1>8 DEF RemoveSnapshot, inputs
<1>6. ASSUME SkipStep \/ CannotBuild \/ UseSnapshot \/ BeginExec \/ ExecOk \/ ExecRetry
             \/ ExecFails \/ OpenSnapshot \/ FillSnapshot \/ WriteState
      PROVE  UNCHANGED P!pvars
  <2>1. pc # "idle" /\ pc' # "idle" /\ UNCHANGED inputs
    BY <1>6 DEF SkipStep, CannotBuild, UseSnapshot, BeginExec, ExecOk, ExecRetry, ExecFails,
                OpenSnapshot, FillSnapshot, WriteState, AtStep
  <2> QED BY <2>1 DEF inputs
<1>7. CASE UNCHANGED vars
  BY <1>7 DEF vars, inputs, files
<1> QED BY <1>1, <1>2, <1>3, <1>4, <1>5, <1>6, <1>7, <1>8 DEF Next, RunnerStep

(* The batch runner implements FieldPromise: "ok" is reported only together  *)
(* with the catalog of the whole recipe on the image, if no run is cut short *)
(* while a snapshot is being replaced.                                       *)
THEOREM PromiseKept ==
  ASSUME KillsSpareSnapshots
  PROVE  Spec => Promise
<1>1. Init => P!PInit
  BY DEF Init, P!PInit
<1>2. TypeInv /\ ResumeInv /\ [Next]_vars => [P!PNext]_(P!pvars)
  BY PromiseStep
<1> QED BY <1>1, <1>2, ResumeInvariant, PTL DEF Spec, Promise, P!PSpec
=============================================================================
