---------------------- MODULE ExtractionRegions_proofs ----------------------
(***************************************************************************)
(* The regions that the extraction finds are those of the picture, none of *)
(* them is lost or cut, and no cell of the pixel stack is held too long:   *)
(* CatalogIsComponents, DeblendPartitions and HeldAsNeeded, for every      *)
(* image, threshold, minimum area and pixel stack.                         *)
(*                                                                         *)
(* At the top of a visit (AtTop) there are sets of pixels R, one for each  *)
(* open region and each column where one waits, such that the two lines    *)
(* tell where they are (Tells), the lists of cells depict them, and they   *)
(* are connected and apart within the pixels reached, but for one pair of  *)
(* neighbours that the next marker may prove to be of one region (Corner). *)
(* A visit is followed part by part: taking the cell, clearing the marker, *)
(* "start segment", the marker of the line above, the new pixel or the end *)
(* of the run, the move to the next position.  Each part moves, joins or   *)
(* opens sets (Redraws), or frees the one that a marker completes; and     *)
(* that one is then a region of the picture, as what is told of both lines *)
(* leaves no pixel that could touch it (CompletedRegion).                  *)
(*                                                                         *)
(* The invariant RegionInv says of a call that the pixels reached and not  *)
(* held any longer are whole regions, each of which is in the catalog      *)
(* once if it has enough pixels.  At the end all is reached, and nothing   *)
(* is held.  For HeldInv the same facts are read the other way: a region   *)
(* that is held has a pixel on the frontier (GrowingReaches), and a pixel  *)
(* on the frontier is held (FrontierHeld).                                 *)
(***************************************************************************)
EXTENDS ExtractionLines_proofs

-----------------------------------------------------------------------------
(* What a step does to the lists of cells at the places P, and to the sets *)
(* of pixels R they stand for: it leaves them, ...                         *)
Leaves(s, t, P, P2, R, R2) == SameCells(s, t) /\ P2 = P /\ R2 = R

(* ... it begins a region at b, ... *)
Opens(s, t, w, b, P, P2, R, R2) ==
  /\ b \notin P /\ P2 = P \union {b}
  /\ Writes(s, t, w, b, Blank) /\ t.nextpix = s.nextpix /\ t.free = s.free
  /\ Puts(R, R2, w, b, {})

(* ... it takes the region at a to b, ... *)
Moves(s, t, w, n, a, b, P, P2, R, R2) ==
  /\ a \in P /\ b \notin P /\ P2 = (P \ {a}) \union {b}
  /\ Writes(s, t, w, b, ListIn(s, n, a)) /\ t.nextpix = s.nextpix /\ t.free = s.free
  /\ Puts(R, R2, w, b, R[a])

(* ... it adds the region at b to the one at a, ... *)
Unites(s, t, w, n, a, b, P, P2, R, R2) ==
  /\ a \in P /\ b \in P /\ a # b /\ P2 = P \ {b}
  /\ Writes(s, t, w, a, Joined(ListIn(s, n, a), ListIn(s, n, b))) /\ t.free = s.free
  /\ t.nextpix = LinkedOn(s.nextpix, ListIn(s, n, a), ListIn(s, n, b))
  /\ Puts(R, R2, w, a, R[a] \union R[b])

(* ... or it frees the cells of the region at a. *)
Frees(s, t, n, a, P, P2, R, R2) ==
  /\ a \in P /\ P2 = P \ {a} /\ R2 = R
  /\ Holds(s, t, s.info, s.store, [s.nextpix EXCEPT ![ListIn(s, n, a).last] = s.free], ListIn(s, n, a).first, s.curpix)

(* The pictures of the lists through each of these. *)
LEMMA OpensDepicts ==
  ASSUME NEW s, NEW w \in Nat, NEW n \in Nat \ {0}, NEW P, NEW B,
         Accounts(s, w, n, P \union {Free}, B),
         NEW O, NEW R, Depicts(s, n, O, P, R), NEW t, t.pix = s.pix,
         NEW b, NEW P2, NEW R2, Opens(s, t, w, b, P, P2, R, R2)
  PROVE  Depicts(t, n, O, P2, R2)
<1>1. /\ b \notin P /\ P2 = P \union {b} /\ P \subseteq Names(w) /\ HasArrays(s, w)
      /\ Writes(s, t, w, b, Blank) /\ t.nextpix = s.nextpix /\ t.free = s.free
      /\ Puts(R, R2, w, b, {})
  BY DEF Opens, Accounts, HasArrays
<1>2. ListIn(t, n, b) = Blank /\ \A at \in Names(w) \ {b} : ListIn(t, n, at) = ListIn(s, n, at)
  <2>1. PICK v : v = Blank
    OBVIOUS
  <2>2. HasArrays(s, w) /\ Writes(s, t, w, b, v) /\ t.free = s.free
    BY <1>1, <2>1
  <2>3. ListIn(t, n, b) = v /\ \A at \in Names(w) \ {b} : ListIn(t, n, at) = ListIn(s, n, at)
    BY ONLY <2>2, w \in Nat, n \in Nat \ {0}, ListsWritten
  <2> QED
    BY <2>1, <2>3
<1>3. \A at \in P : SameList(s, t, n, at, at)
  BY <1>1, <1>2, ListsKept
<1>4. CellsOf(t, n, b) = {} /\ FlagOf(t, n, b) = FALSE
  <2>1. PICK mem : Chains(t.nextpix, mem)
    BY <1>1 DEF Accounts, Sound
  <2>2. CellSet(t, Blank) = mem[Blank.first]
    BY <2>1, BlankFields, CellSetIs
  <2>3. mem[Blank.first] = {}
    BY <2>1, BlankFields DEF Chains
  <2> QED
    BY <1>2, <2>2, <2>3, BlankFields DEF CellsOf, FlagOf
<1>5. R2[b] = {} /\ \A at \in P : R2[at] = R[at]
  BY <1>1 DEF Puts
<1>6. /\ Depicts(s, n, O, P, R) /\ t.pix = s.pix
      /\ b \notin P /\ P2 = P \union {b}
      /\ NoCells(t, n, b)
      /\ \A at \in P : SameList(s, t, n, at, at)
      /\ R2[b] = {} /\ \A at \in P : R2[at] = R[at]
  BY <1>1, <1>3, <1>4, <1>5 DEF NoCells
<1> QED
  BY ONLY <1>6, DepictsOpened

(* The pictures when a region is moved, ... *)
LEMMA MovesDepicts ==
  ASSUME NEW s, NEW w \in Nat, NEW n \in Nat \ {0}, NEW P, NEW B,
         Accounts(s, w, n, P \union {Free}, B),
         NEW O, NEW R, Depicts(s, n, O, P, R), NEW t, t.pix = s.pix,
         NEW a, NEW b, NEW P2, NEW R2, Moves(s, t, w, n, a, b, P, P2, R, R2)
  PROVE  Depicts(t, n, O, P2, R2)
<1>1. PICK v : v = ListIn(s, n, a)
  OBVIOUS
<1>2. /\ a \in P /\ b \notin P /\ P2 = (P \ {a}) \union {b} /\ P \subseteq Names(w) /\ HasArrays(s, w)
      /\ Writes(s, t, w, b, v) /\ t.nextpix = s.nextpix /\ t.free = s.free
      /\ Puts(R, R2, w, b, R[a])
  BY <1>1 DEF Moves, Accounts, HasArrays
<1>3. ListIn(t, n, b) = v /\ \A at \in Names(w) \ {b} : ListIn(t, n, at) = ListIn(s, n, at)
  <2>2. HasArrays(s, w) /\ Writes(s, t, w, b, v) /\ t.free = s.free
    BY <1>2
  <2> QED
    BY ONLY <2>2, w \in Nat, n \in Nat \ {0}, ListsWritten
<1>4. SameList(s, t, n, a, b) /\ \A at \in P : SameList(s, t, n, at, at)
  BY <1>1, <1>2, <1>3, ListsKept
<1>5. R2[b] = R[a] /\ \A at \in P : R2[at] = R[at]
  BY <1>2 DEF Puts
<1> QED
  BY <1>2, <1>4, <1>5, DepictsMoved

(* ... when two are joined, ... *)
LEMMA UnitesDepicts ==
  ASSUME NEW s, NEW w \in Nat, NEW n \in Nat \ {0}, NEW P, Free \notin P, NEW B,
         Accounts(s, w, n, P \union {Free}, B),
         NEW O, NEW R, Depicts(s, n, O, P, R), NEW t, t.pix = s.pix,
         NEW a, NEW b, NEW P2, NEW R2, Unites(s, t, w, n, a, b, P, P2, R, R2)
  PROVE  Depicts(t, n, O, P2, R2)
<1>1. PICK la, lb, value, P3 : /\ la = ListIn(s, n, a) /\ lb = ListIn(s, n, b) /\ value = Joined(la, lb)
                               /\ P3 = P \union {Free}
  OBVIOUS
<1>2. /\ a \in P3 \ {Free} /\ b \in P3 \ {Free} /\ a # b /\ P2 = P \ {b} /\ P \subseteq Names(w)
      /\ Writes(s, t, w, a, value) /\ t.free = s.free
      /\ t.nextpix = LinkedOn(s.nextpix, la, lb)
      /\ Puts(R, R2, w, a, R[a] \union R[b]) /\ Accounts(s, w, n, P3, B)
  BY <1>1 DEF Unites, Accounts
<1>3. /\ la.first # None /\ lb.last # None => Linked(t.nextpix, s.nextpix, la, lb)
      /\ ~(la.first # None /\ lb.last # None) => t.nextpix = s.nextpix
  BY <1>2 DEF LinkedOn, Linked
<1>4. /\ CellsOf(t, n, a) = CellsOf(s, n, a) \union CellsOf(s, n, b)
      /\ FlagOf(t, n, a) = (FlagOf(s, n, a) \/ FlagOf(s, n, b))
      /\ \A at \in P3 \ {a, b, Free} : SameList(s, t, n, at, at)
  BY <1>1, <1>2, <1>3, ListsUpdated
<1>5. R2[a] = R[a] \union R[b] /\ \A at \in P \ {a, b} : R2[at] = R[at] /\ SameList(s, t, n, at, at)
  BY <1>1, <1>2, <1>4 DEF Puts
<1> QED
  BY <1>1, <1>2, <1>4, <1>5, DepictsUnited

(* ... and when one is freed. *)
LEMMA FreesDepicts ==
  ASSUME NEW s, NEW w \in Nat, NEW n \in Nat \ {0}, NEW P, Free \notin P, NEW B,
         Accounts(s, w, n, P \union {Free}, B),
         NEW O, NEW R, Depicts(s, n, O, P, R), NEW t, t.pix = s.pix,
         NEW a, a \notin B, NEW P2, NEW R2, Frees(s, t, n, a, P, P2, R, R2)
  PROVE  Depicts(t, n, O, P2, R2)
<1>1. PICK la, next, P3 : /\ la = ListIn(s, n, a) /\ next = [s.nextpix EXCEPT ![la.last] = s.free]
                          /\ P3 = P \union {Free}
  OBVIOUS
<1>2. /\ a \in P3 \ {Free} /\ P2 = P \ {a} /\ R2 = R /\ Accounts(s, w, n, P3, B)
      /\ Holds(s, t, s.info, s.store, next, la.first, s.curpix)
  BY <1>1 DEF Frees
<1>3. \A at \in P3 \ {a, Free} : SameList(s, t, n, at, at)
  BY <1>1, <1>2, ListsFreed
<1>4. P2 \in SUBSET P /\ (\A at \in P2 : SameList(s, t, n, at, at)) /\ \A at \in P2 : R2[at] = R[at]
  BY <1>1, <1>2, <1>3
<1> QED
  BY <1>4, DepictsSame

(* The shapes of the regions through the same steps, and all their pixels. *)
LEMMA OpensShapes ==
  ASSUME NEW R, NEW Q, NEW S, NEW D, Shapes(R, Q, S, D), NEW w, Q \subseteq Names(w), NEW b,
         b \notin Q,
         NEW R2, Puts(R, R2, w, b, {}), NEW Q2, Q2 = Q \union {b}
  PROVE  Shapes(R2, Q2, S, D) /\ AllOf(R2, Q2) = AllOf(R, Q)
<1>1. R2[b] = {} /\ \A c \in Q : R2[c] = R[c]
  BY DEF Puts
<1>2. Shapes(R2, Q2, S, D)
  BY <1>1, ShapesOpened
<1>3. AllOf(R2, Q2) = AllOf(R, Q)
  BY <1>1 DEF AllOf
<1> QED
  BY <1>2, <1>3

(* The shapes when a region is moved, ... *)
LEMMA MovesShapes ==
  ASSUME NEW R, NEW Q, NEW S, NEW D, Shapes(R, Q, S, D), NEW w, Q \subseteq Names(w),
         NEW a \in Q, NEW b, b \notin Q,
         NEW R2, Puts(R, R2, w, b, R[a]), NEW Q2, Q2 = (Q \ {a}) \union {b}
  PROVE  Shapes(R2, Q2, S, D) /\ AllOf(R2, Q2) = AllOf(R, Q)
<1>1. R2[b] = R[a] /\ \A c \in Q \ {a} : R2[c] = R[c]
  BY DEF Puts
<1>2. Shapes(R2, Q2, S, D)
  BY <1>1, ShapesMoved
<1>3. AllOf(R2, Q2) = AllOf(R, Q)
  BY <1>1 DEF AllOf
<1> QED
  BY <1>2, <1>3

(* Two regions may be taken for one when they touch, or one has no pixel yet. *)
Joins(A, C) == A = {} \/ C = {} \/ \E p \in A : \E q \in C : Touch(p, q)

(* ... when two that touch are joined, ... *)
LEMMA UnitesShapes ==
  ASSUME NEW R, NEW Q, NEW S, NEW D, Shapes(R, Q, S, D), NEW w, Q \subseteq Names(w),
         NEW a \in Q, NEW b \in Q, a # b,
         Joins(R[a], R[b]), NEW R2, Puts(R, R2, w, a, R[a] \union R[b]), NEW Q2, Q2 = Q \ {b}
  PROVE  Shapes(R2, Q2, S, D) /\ AllOf(R2, Q2) = AllOf(R, Q)
<1>1. R2[a] = R[a] \union R[b] /\ \A c \in Q2 \ {a} : R2[c] = R[c]
  BY DEF Puts
<1>2. Shapes(R2, Q2, S, D)
  <2>1. CASE R[b] = {}
    <3>1. Q2 \in SUBSET Q /\ \A c \in Q2 : R2[c] = R[c]
      BY <1>1, <2>1
    <3> QED
      BY <3>1, ShapesSame
  <2>2. CASE R[b] # {}
    <3>1. R[a] = {} \/ \E p \in R[a] : \E q \in R[b] : Touch(p, q)
      BY <2>2 DEF Joins
    <3> QED
      BY <1>1, <3>1, ShapesUnited
  <2> QED
    BY <2>1, <2>2
<1>3. AllOf(R2, Q2) = AllOf(R, Q)
  <2>1. \A p : p \in AllOf(R, Q) <=> \E c \in Q : p \in R[c]
    BY DEF AllOf
  <2>2. \A p : p \in AllOf(R2, Q2) <=> \E c \in Q2 : p \in R2[c]
    BY DEF AllOf
  <2>3. ASSUME NEW p PROVE (\E c \in Q : p \in R[c]) <=> (\E c \in Q2 : p \in R2[c])
    BY <1>1
  <2> QED
    BY <2>1, <2>2, <2>3
<1> QED
  BY <1>2, <1>3

(* ... and when one is freed. *)
LEMMA FreesShapes ==
  ASSUME NEW R, NEW Q, NEW S, NEW D, Shapes(R, Q, S, D), NEW a \in Q, NEW Q2, Q2 = Q \ {a}
  PROVE  Shapes(R, Q2, S, D) /\ AllOf(R, Q2) = AllOf(R, Q) \ R[a]
<1>1. Shapes(R, Q2, S, D)
  <2>1. Q2 \in SUBSET Q /\ \A c \in Q2 : R[c] = R[c]
    OBVIOUS
  <2> QED
    BY ONLY <2>1, Shapes(R, Q, S, D), ShapesSame
<1>2. AllOf(R, Q2) = AllOf(R, Q) \ R[a]
  BY DEF AllOf, Shapes
<1> QED
  BY <1>1, <1>2

(* A pixel fits the region A: it touches it, and nothing else but pixels D. *)
Fits(p, S, A, D) ==
  /\ p \in Cells /\ p \notin S /\ p \in D /\ Joins(A, {p})
  /\ \A q \in S : Touch(p, q) => q \in A \/ q \in D

(* The new pixel is added to what is held at a. *)
PutsWith(R, R2, w, a, p) == Puts(R, R2, w, a, R[a] \union {p})

(* The new pixel is added to a region it touches. *)
LEMMA PixelShapes ==
  ASSUME NEW R, NEW Q, NEW S, Shapes(R, Q, S, {}), NEW w, Q \subseteq Names(w), NEW a \in Q,
         NEW p, NEW D,
         Fits(p, S, R[a], D), NEW R2, PutsWith(R, R2, w, a, p)
  PROVE  Shapes(R2, Q, S \union {p}, D) /\ AllOf(R2, Q) = AllOf(R, Q) \union {p}
<1> USE DEF Fits, PutsWith
<1>1. R2[a] = R[a] \union {p} /\ \A c \in Q \ {a} : R2[c] = R[c]
  BY DEF Puts
<1>2. R[a] = {} \/ \E q \in R[a] : Touch(p, q)
  <2>1. \A q \in R[a] : Touch(q, p) => Touch(p, q)
    BY TouchBoth DEF Shapes
  <2> QED
    BY <2>1 DEF Joins
<1>3. Shapes(R2, Q, S \union {p}, D)
  BY <1>1, <1>2, ShapesPixel
<1>4. AllOf(R2, Q) = AllOf(R, Q) \union {p}
  BY <1>1 DEF AllOf
<1> QED
  BY <1>3, <1>4

(* The regions at the places P, and the lists of cells that hold them. *)
Pictured(s, n, O, P, S, D, R) == Shapes(R, P \ {Cur}, S, D) /\ Depicts(s, n, O, P, R)

(* All pixels held at the places P; the new pixel is not yet one of them. *)
Total(R, P) == AllOf(R, P \ {Cur})

(* A step that loses no pixel. *)
Redraws(s, t, w, n, P, P2, R, R2) ==
  \/ Leaves(s, t, P, P2, R, R2)
  \/ \E b : b # Cur /\ Opens(s, t, w, b, P, P2, R, R2)
  \/ \E a, b : a # Cur /\ b # Cur /\ Moves(s, t, w, n, a, b, P, P2, R, R2)
  \/ \E a, b : a # Cur /\ b # Cur /\ Joins(R[a], R[b]) /\ Unites(s, t, w, n, a, b, P, P2, R, R2)

(* A step that redraws keeps the picture, and all pixels stay held. *)
LEMMA RedrawsPicture ==
  ASSUME NEW s, NEW w \in Nat, NEW n \in Nat \ {0}, NEW P, Free \notin P, NEW B,
         Accounts(s, w, n, P \union {Free}, B),
         NEW O, NEW S, NEW D, NEW R, Pictured(s, n, O, P, S, D, R), NEW t, t.pix = s.pix,
         NEW P2, NEW R2, Redraws(s, t, w, n, P, P2, R, R2)
  PROVE  Pictured(t, n, O, P2, S, D, R2) /\ Total(R2, P2) = Total(R, P)
<1>1. PICK Q, Q2 : Q = P \ {Cur} /\ Q2 = P2 \ {Cur}
  OBVIOUS
<1>2. Shapes(R, Q, S, D) /\ Depicts(s, n, O, P, R) /\ Q \subseteq Names(w) /\ P \subseteq Names(w)
  BY <1>1 DEF Pictured, Accounts
<1>3. CASE Leaves(s, t, P, P2, R, R2)
  <2>1. SameCells(s, t) /\ P2 = P /\ R2 = R /\ Q2 = Q
    BY <1>1, <1>3 DEF Leaves
  <2>2. P2 \in SUBSET P /\ (\A at \in P2 : SameList(s, t, n, at, at)) /\ \A at \in P2 : R2[at] = R[at]
    BY <2>1, ListsSame
  <2>3. Depicts(t, n, O, P2, R2)
    BY <1>2, <2>2, DepictsSame
  <2> QED
    BY <1>1, <1>2, <2>1, <2>3 DEF Pictured, Total
<1>4. CASE \E b : b # Cur /\ Opens(s, t, w, b, P, P2, R, R2)
  <2>1. PICK b : b # Cur /\ Opens(s, t, w, b, P, P2, R, R2)
    BY <1>4
  <2>2. Depicts(t, n, O, P2, R2)
    BY <1>2, <2>1, OpensDepicts
  <2>3. b \notin Q /\ Q2 = Q \union {b} /\ Puts(R, R2, w, b, {})
    BY <1>1, <2>1 DEF Opens
  <2>4. Shapes(R2, Q2, S, D) /\ AllOf(R2, Q2) = AllOf(R, Q)
    BY <1>2, <2>3, OpensShapes
  <2> QED
    BY <1>1, <2>2, <2>4 DEF Pictured, Total
<1>5. CASE \E a, b : a # Cur /\ b # Cur /\ Moves(s, t, w, n, a, b, P, P2, R, R2)
  <2>1. PICK a, b : a # Cur /\ b # Cur /\ Moves(s, t, w, n, a, b, P, P2, R, R2)
    BY <1>5
  <2>2. Depicts(t, n, O, P2, R2)
    BY <1>2, <2>1, MovesDepicts
  <2>3. a \in Q /\ b \notin Q /\ Q2 = (Q \ {a}) \union {b} /\ Puts(R, R2, w, b, R[a])
    BY <1>1, <2>1 DEF Moves
  <2>4. Shapes(R2, Q2, S, D) /\ AllOf(R2, Q2) = AllOf(R, Q)
    BY <1>2, <2>3, MovesShapes
  <2> QED
    BY <1>1, <2>2, <2>4 DEF Pictured, Total
<1>6. CASE \E a, b : a # Cur /\ b # Cur /\ Joins(R[a], R[b]) /\ Unites(s, t, w, n, a, b, P, P2, R, R2)
  <2>1. PICK a, b : a # Cur /\ b # Cur /\ Joins(R[a], R[b]) /\ Unites(s, t, w, n, a, b, P, P2, R, R2)
    BY <1>6
  <2>2. Depicts(t, n, O, P2, R2)
    BY <1>2, <2>1, UnitesDepicts
  <2>3. a \in Q /\ b \in Q /\ a # b /\ Q2 = Q \ {b} /\ Puts(R, R2, w, a, R[a] \union R[b])
    BY <1>1, <2>1 DEF Unites
  <2>4. Shapes(R2, Q2, S, D) /\ AllOf(R2, Q2) = AllOf(R, Q)
    <3>1. /\ Shapes(R, Q, S, D) /\ Q \subseteq Names(w) /\ a \in Q /\ b \in Q /\ a # b
          /\ Joins(R[a], R[b]) /\ Puts(R, R2, w, a, R[a] \union R[b]) /\ Q2 = Q \ {b}
      BY <1>2, <2>1, <2>3
    <3> QED
      BY ONLY <3>1, UnitesShapes
  <2> QED
    BY <1>1, <2>2, <2>4 DEF Pictured, Total
<1> QED
  BY <1>3, <1>4, <1>5, <1>6 DEF Redraws

(* The region B, at a, is freed and the others are kept. *)
GivesBack(s, t, w, n, a, B, P, P2, R, R2) ==
  /\ Free \notin P /\ Accounts(s, w, n, P \union {Free}, B) /\ t.pix = s.pix
  /\ a # Cur /\ a \notin B /\ Frees(s, t, n, a, P, P2, R, R2)

(* A region is freed. *)
LEMMA FreesPicture ==
  ASSUME NEW w \in Nat, NEW n \in Nat \ {0}, NEW s, NEW t, NEW a, NEW B, NEW P, NEW P2, NEW R,
         NEW R2,
         GivesBack(s, t, w, n, a, B, P, P2, R, R2), NEW O, NEW S, NEW D,
         Pictured(s, n, O, P, S, D, R)
  PROVE  Pictured(t, n, O, P2, S, D, R2) /\ Total(R2, P2) = Total(R, P) \ R[a]
<1> USE DEF GivesBack
<1>1. PICK Q, Q2 : Q = P \ {Cur} /\ Q2 = P2 \ {Cur}
  OBVIOUS
<1>2. Shapes(R, Q, S, D) /\ Depicts(s, n, O, P, R)
  BY <1>1 DEF Pictured
<1>3. Depicts(t, n, O, P2, R2)
  BY <1>2, FreesDepicts
<1>4. a \in Q /\ Q2 = Q \ {a} /\ R2 = R
  BY <1>1 DEF Frees
<1>5. Shapes(R, Q2, S, D) /\ AllOf(R, Q2) = AllOf(R, Q) \ R[a]
  BY <1>2, <1>4, FreesShapes
<1> QED
  BY <1>1, <1>3, <1>4, <1>5 DEF Pictured, Total

(* The places that grow in s and in t, with those of E. *)
GrowsTo(s, t, w, E, P, P2) == P = GrowingIn(w, s) \union E /\ P2 = GrowingIn(w, t) \union E

(* The lists and the regions through "start segment". *)
StartPuts(s, w, R, R2) ==
  IF s.cs # "OBJECT" /\ s.ps # "OBJECT" THEN PutsInfo(R, R2, w, s.co + 1, {}) ELSE R2 = R

(* StartSegment moves or opens one list at most and so redraws. *)
LEMMA StartRedraws ==
  ASSUME NEW w \in Nat, NEW n \in Nat \ {0}, NEW s, Inside(s, w), s.marker[s.x] = "none",
         s.cs # "OBJECT" /\ s.ps # "OBJECT" => s.co < w,
         NEW E, Cellular(s, w, n, E, {}), NEW t, t = StartSegment(s), NEW R, NEW R2,
         StartPuts(s, w, R, R2),
         NEW P, NEW P2, GrowsTo(s, t, w, E, P, P2)
  PROVE  Redraws(s, t, w, n, P, P2, R, R2) /\ t.pix = s.pix
<1> USE DEF GrowsTo
<1>1. PICK x, co, m, start :
        /\ x \in 0..w /\ co \in 0..w
        /\ x = s.x /\ co = s.co /\ m = s.marker /\ start = s.start
        /\ DOMAIN m = 0..w /\ DOMAIN start = 0..w /\ co \in Nat /\ m[x] = "none"
  BY DEF Inside, HasLine
<1>2. x \in 0..w /\ co \in 0..w
  BY <1>1
<1> USE <1>2
<1>3. Fields \subseteq DOMAIN s /\ AllFields \subseteq DOMAIN s /\ LineFields \subseteq DOMAIN s /\ "pix" \in DOMAIN s
  BY DEF Cellular, Fields, AllFields
<1>4. PICK G : G = GrowingAt(w, m, start, co) /\ G = GrowingIn(w, s)
  BY <1>1 DEF GrowingIn
<1>5. t.pix = s.pix
  BY <1>3 DEF StartSegment, Push, Fields, AllFields, LineFields, CellFields
<1>6. CASE s.cs = "OBJECT"
  <2>1. t = s /\ R2 = R
    BY <1>6 DEF StartSegment, StartPuts
  <2>2. Leaves(s, t, P, P2, R, R2)
    BY <2>1 DEF Leaves, SameCells, Holds
  <2> QED BY <1>5, <2>2 DEF Redraws
<1>7. CASE s.cs # "OBJECT" /\ s.ps # "OBJECT"
  <2>1. PICK m2, start2, a :
             /\ m2 = [s.marker EXCEPT ![s.x] = "S"] /\ start2 = [s.start EXCEPT ![s.co + 1] = s.x]
             /\ a = <<"info", co + 1>>
             /\ Put(m2, m, x, "S") /\ Put(start2, start, co + 1, x)
    BY <1>1 DEF Put
  <2>2. t.marker = m2 /\ t.start = start2 /\ t.co = co + 1 /\ t.x = x /\ DOMAIN t = DOMAIN s
    <3>1. Becomes(s, t, m2, start2, s.end, Append(s.psstack, s.ps), s.co + 1, "COMPLETE", "OBJECT")
      BY <1>1, <1>3, <1>7, <2>1, StartSegmentDoes
    <3> QED BY <1>1, <3>1 DEF Becomes
  <2>3. co + 1 \in 0..w
    BY <1>1, <1>7
  <2>4. GrowingAt(w, m2, start2, co + 1) = G \union {a} /\ a \notin G
    <3>1. /\ DOMAIN m = 0..w /\ DOMAIN start = 0..w /\ m[x] = "none" /\ co \in Nat
          /\ Put(m2, m, x, "S") /\ Put(start2, start, co + 1, x)
          /\ G = GrowingAt(w, m, start, co) /\ a = <<"info", co + 1>>
      BY <1>1, <1>4, <2>1
    <3>2. /\ GrowingAt(w, m2, start2, co + 1) = GrowingAt(w, m, start, co) \union {<<"info", co + 1>>}
          /\ <<"info", co + 1>> \notin GrowingAt(w, m, start, co)
      BY ONLY <2>3, <3>1, w \in Nat, x \in 0..w, GrowOpen, Zenon
    <3> QED BY <3>1, <3>2
  <2>5. GrowingIn(w, t) = G \union {a}
    BY <2>2, <2>4 DEF GrowingIn
  <2>6. a \notin P /\ P2 = P \union {a} /\ a # Cur
    <3>1. \A i : <<"info", i>> \notin E /\ <<"info", i>> # Cur
      BY ExtraPlaces
    <3>2. a \notin E /\ a # Cur
      BY <2>1, <3>1
    <3> QED BY <1>4, <2>4, <2>5, <3>2
  <2>7. Writes(s, t, w, a, Blank) /\ t.nextpix = s.nextpix /\ t.free = s.free
    <3>1. Holds(s, t, [s.info EXCEPT ![s.co + 1] = Blank], s.store, s.nextpix, s.free, s.curpix)
      BY <1>3, <1>7, StartSegmentCells
    <3> QED BY <1>1, <2>1, <2>3, <3>1 DEF Holds, Writes
  <2>8. Puts(R, R2, w, a, {})
    BY <1>1, <1>7, <2>1 DEF StartPuts, PutsInfo
  <2>9. Opens(s, t, w, a, P, P2, R, R2)
    BY <2>6, <2>7, <2>8 DEF Opens
  <2> QED BY <1>5, <2>6, <2>9 DEF Redraws
<1>8. CASE s.cs # "OBJECT" /\ s.ps = "OBJECT"
  <2>1. SameCells(s, t) /\ R2 = R
    BY <1>3, <1>8, StartSegmentCells DEF StartPuts
  <2>2. GrowingIn(w, t) = G
    <3>1. CASE start[co] = UNKNOWN
      <4>1. PICK m2, start2 :
                 /\ m2 = [s.marker EXCEPT ![s.x] = "S"] /\ start2 = [s.start EXCEPT ![s.co] = s.x]
                 /\ Put(m2, m, x, "S") /\ Put(start2, start, co, x)
        BY <1>1 DEF Put
      <4>2. t.marker = m2 /\ t.start = start2 /\ t.co = co /\ t.x = x
        <5>1. Becomes(s, t, m2, start2, s.end, s.psstack, s.co, s.ps, "OBJECT")
          BY <1>1, <1>3, <1>8, <3>1, <4>1, StartSegmentDoes
        <5> QED BY <1>1, <5>1 DEF Becomes
      <4>3. co # 0
        BY <1>1, <1>8, FramedCount DEF Inside
      <4>4. co \in 1..w
        BY <4>3
      <4>5. GrowingAt(w, m2, start2, co) = G
        <5>1. /\ DOMAIN m = 0..w /\ DOMAIN start = 0..w /\ start[co] = UNKNOWN /\ m[x] = "none"
              /\ Put(m2, m, x, "S") /\ Put(start2, start, co, x) /\ G = GrowingAt(w, m, start, co)
          BY <1>1, <1>4, <3>1, <4>1
        <5> QED BY ONLY <4>4, <5>1, w \in Nat, x \in 0..w, GrowFirst
      <4> QED BY <1>1, <4>2, <4>5 DEF GrowingIn
    <3>2. CASE start[co] # UNKNOWN
      <4>1. PICK m2 : m2 = [s.marker EXCEPT ![s.x] = "s"] /\ Put(m2, m, x, "s")
        BY <1>1 DEF Put
      <4>2. t.marker = m2 /\ t.start = start /\ t.co = co /\ t.x = x
        <5>1. Becomes(s, t, m2, s.start, s.end, s.psstack, s.co, s.ps, "OBJECT")
          BY <1>1, <1>3, <1>8, <3>2, <4>1, StartSegmentDoes
        <5> QED BY <1>1, <5>1 DEF Becomes
      <4>3. GrowingAt(w, m2, start, co) = G
          <5>1. DOMAIN m = 0..w /\ m[x] # "S" /\ "s" # "S" /\ Put(m2, m, x, "s") /\ G = GrowingAt(w, m, start, co)
            BY <1>1, <1>4, <4>1
          <5> QED BY ONLY <5>1, w \in Nat, x \in 0..w, GrowMark
      <4> QED BY <1>1, <4>2, <4>3 DEF GrowingIn
    <3> QED BY <3>1, <3>2
  <2>3. Leaves(s, t, P, P2, R, R2)
    BY <1>4, <2>1, <2>2 DEF Leaves
  <2> QED BY <1>5, <2>3 DEF Redraws
<1> QED BY <1>6, <1>7, <1>8

(* A marker of the line above completes the innermost region. *)
Completes(s, mark) == mark = "F" /\ TopCase(s) /\ s.start[s.co] = UNKNOWN

(* What a marker does: it completes a region or redraws. *)
LEMMA MarkerOutcome ==
  ASSUME NEW s, Fields \subseteq DOMAIN s, NEW mark, NEW minarea, NEW t,
         t = NewMarker(s, mark, minarea)
  PROVE  /\ t.pix = s.pix /\ t.y = s.y
         /\ ~Completes(s, mark) => t.ready = s.ready /\ t.object = s.object
<1>1. /\ AllFields \subseteq DOMAIN s /\ LineFields \subseteq DOMAIN s /\ CellFields \subseteq DOMAIN s
      /\ "pix" \in DOMAIN s /\ "y" \in DOMAIN s /\ "ready" \in DOMAIN s /\ "object" \in DOMAIN s
  BY DEF Fields, AllFields
<1>2. CASE mark = "S"
  <2>1. t = MarkerS(s)
    BY <1>2 DEF NewMarker
  <2> QED BY <1>1, <1>2, <2>1 DEF MarkerS, Push, Update, LineFields, CellFields, Completes
<1>3. CASE mark = "s"
  <2>1. t = MarkerInner(s)
    BY <1>3 DEF NewMarker
  <2>2. CASE s.cs = "OBJECT" /\ s.ps = "COMPLETE"
    <3>1. PICK p : p = Popped(s)
      OBVIOUS
    <3>2. p.pix = s.pix /\ p.y = s.y /\ p.ready = s.ready /\ p.object = s.object /\ DOMAIN p = DOMAIN s
      BY <1>1, <3>1 DEF Popped, LineFields
    <3>3. PICK q : q = Update(p, s.co - 1, s.info[s.co])
      OBVIOUS
    <3>4. q.pix = s.pix /\ q.y = s.y /\ q.ready = s.ready /\ q.object = s.object /\ DOMAIN q = DOMAIN s
      BY <1>1, <3>2, <3>3 DEF Update, CellFields
    <3>5. PICK u : u = Checked(q, s.start[s.co])
      OBVIOUS
    <3>6. u.pix = s.pix /\ u.y = s.y /\ u.ready = s.ready /\ u.object = s.object /\ DOMAIN u = DOMAIN s
      BY <1>1, <3>4, <3>5 DEF Checked, LineFields
    <3>7. t.pix = u.pix /\ t.y = u.y /\ t.ready = u.ready /\ t.object = u.object
      BY <1>1, <2>1, <2>2, <3>1, <3>3, <3>5, <3>6 DEF MarkerInner, LineFields
    <3> QED BY <3>6, <3>7
  <2>3. CASE ~(s.cs = "OBJECT" /\ s.ps = "COMPLETE")
    BY <1>1, <2>1, <2>3 DEF MarkerInner, LineFields
  <2> QED BY <2>2, <2>3
<1>4. CASE mark = "f"
  <2>1. t = [s EXCEPT !.ps = "INCOMPLETE"]
    BY <1>4 DEF NewMarker
  <2> QED BY <1>1, <2>1 DEF LineFields
<1>5. CASE mark = "F"
  <2>1. t = MarkerF(s, minarea)
    BY <1>5 DEF NewMarker
  <2>2. PICK p : p = Pop(s)
    OBVIOUS
  <2>3. /\ p.pix = s.pix /\ p.y = s.y /\ p.ready = s.ready /\ p.object = s.object /\ DOMAIN p = DOMAIN s
        /\ p.ps = s.psstack[Len(s.psstack)]
    BY <1>1, <2>2 DEF Pop, Popped, LineFields
  <2>4. CASE ~TopCase(s)
    <3>1. t = p
      BY <2>1, <2>2, <2>3, <2>4 DEF MarkerF, TopCase
    <3> QED BY <2>3, <3>1
  <2>5. CASE TopCase(s)
    <3>1. PICK q : q = IF s.start[s.co] = UNKNOWN THEN Complete(p, minarea) ELSE Suspend(p)
      OBVIOUS
    <3>2. DOMAIN q = DOMAIN s /\ q.pix = s.pix /\ q.y = s.y
          /\ (~Completes(s, mark) => q.ready = s.ready /\ q.object = s.object)
      <4>1. CASE s.start[s.co] = UNKNOWN
        <5>1. q = Complete(p, minarea) /\ Completes(s, mark)
          BY <1>5, <2>5, <3>1, <4>1 DEF Completes
        <5>2. DOMAIN q = DOMAIN s /\ q.pix = s.pix /\ q.y = s.y
          BY <1>1, <2>3, <5>1 DEF Complete, CellFields
        <5> QED BY <5>1, <5>2
      <4>2. CASE s.start[s.co] # UNKNOWN
        <5>1. PICK r : r = Checked(Checked(p, p.end[p.co]), p.start[p.co])
          OBVIOUS
        <5>2. DOMAIN r = DOMAIN s /\ r.pix = s.pix /\ r.y = s.y /\ r.ready = s.ready /\ r.object = s.object
          BY <1>1, <2>3, <5>1 DEF Checked, LineFields
        <5>3. q = Suspend(p)
          BY <3>1, <4>2
        <5>4. DOMAIN q = DOMAIN r /\ q.pix = r.pix /\ q.y = r.y /\ q.ready = r.ready /\ q.object = r.object
          BY <1>1, <5>1, <5>2, <5>3 DEF Suspend, LineFields, CellFields
        <5> QED BY <5>2, <5>4
      <4> QED BY <4>1, <4>2
    <3>3. PICK r : r = [q EXCEPT !.co = s.co - 1]
      OBVIOUS
    <3>4. /\ DOMAIN r = DOMAIN s /\ r.pix = q.pix /\ r.y = q.y /\ r.ready = q.ready /\ r.object = q.object
      BY <1>1, <3>2, <3>3 DEF LineFields
    <3>5. t = Pop(r)
      BY <2>1, <2>2, <2>3, <2>5, <3>1, <3>3 DEF MarkerF, TopCase
    <3>6. t.pix = r.pix /\ t.y = r.y /\ t.ready = r.ready /\ t.object = r.object
      BY <1>1, <3>4, <3>5 DEF Pop, Popped, LineFields
    <3> QED BY <3>2, <3>4, <3>6
  <2> QED BY <2>4, <2>5
<1>6. CASE mark \notin {"S", "s", "f", "F"}
  <2>1. t = s
    BY <1>6 DEF NewMarker
  <2> QED BY <2>1
<1> QED BY <1>2, <1>3, <1>4, <1>5, <1>6

(* MarkerS moves the list that waits to the open ones or joins it to one. *)
LEMMA MarkerSRedraws ==
  ASSUME NEW w \in Nat, NEW n \in Nat \ {0}, NEW s, Inside(s, w),
         s.cs # "OBJECT" => s.co < w, s.cs = "OBJECT" => s.co # 0,
         NEW E, <<"store", s.x>> \in E, NEW B, Cellular(s, w, n, E, B),
         NEW t, t = MarkerS(s), NEW R, NEW R2, MarkerPuts(s, w, s.x, "S", R, R2),
         s.cs = "OBJECT" => Joins(R[<<"info", s.co>>], R[<<"store", s.x>>]),
         NEW P, P = GrowingIn(w, s) \union E,
         NEW P2, P2 = GrowingIn(w, t) \union (E \ {<<"store", s.x>>})
  PROVE  Redraws(s, t, w, n, P, P2, R, R2)
<1>1. PICK x, co, m, start :
        /\ x \in 0..w /\ co \in 0..w
        /\ x = s.x /\ co = s.co /\ m = s.marker /\ start = s.start
        /\ DOMAIN m = 0..w /\ DOMAIN start = 0..w /\ co \in Nat
  BY DEF Inside, HasLine
<1>2. x \in 0..w /\ co \in 0..w
  BY <1>1
<1> USE <1>2
<1>3. Fields \subseteq DOMAIN s /\ AllFields \subseteq DOMAIN s /\ LineFields \subseteq DOMAIN s
  BY DEF Cellular, Fields, AllFields
<1>4. PICK G, b, lb : /\ G = GrowingAt(w, m, start, co) /\ G = GrowingIn(w, s)
                      /\ b = <<"store", x>> /\ lb = s.store[x]
  BY <1>1 DEF GrowingIn
<1>5. /\ b \in P /\ b \notin G /\ b \in E /\ b # Cur
      /\ E \subseteq {b, Cur} /\ E \intersect G = {}
      /\ \A i : <<"info", i>> \notin E /\ <<"info", i>> # b /\ <<"info", i>> # Cur
  <2>1. b \notin {Free, Cur} /\ \A i : <<"info", i>> \notin E /\ <<"info", i>> # Cur
    BY <1>4, ExtraPlaces
  <2>2. E \subseteq {b, Cur} /\ E \intersect G = {}
    BY <1>1, <1>4 DEF Cellular
  <2> QED BY <1>1, <1>4, <2>1, <2>2
<1>6. lb = ListIn(s, n, b)
  BY <1>1, <1>4, PlainPlaces DEF ListIn, ListAt
<1>7. s.cs = "NONOBJECT" \/ s.cs = "OBJECT"
  BY DEF Inside
<1>8. CASE s.cs = "NONOBJECT"
  <2>1. PICK a, start2 : /\ a = <<"info", co + 1>> /\ start2 = [s.start EXCEPT ![s.co + 1] = UNKNOWN]
                         /\ Put(start2, start, co + 1, UNKNOWN)
    BY <1>1 DEF Put
  <2>2. t.marker = m /\ t.start = start2 /\ t.co = co + 1 /\ t.x = x /\ DOMAIN t = DOMAIN s
    <3>1. Becomes(s, t, s.marker, start2, s.end,
                      Append(Append(s.psstack, s.ps), "COMPLETE"), s.co + 1, "OBJECT", s.cs)
      BY <1>3, <1>8, <2>1, MarkerSDoes
    <3> QED BY <1>1, <3>1 DEF Becomes
  <2>3. co + 1 \in 0..w
    BY <1>1, <1>8
  <2>4. GrowingIn(w, t) = G \union {a} /\ a \notin G
    <3>1. /\ GrowingAt(w, m, start2, co + 1) = GrowingAt(w, m, start, co) \union {<<"info", co + 1>>}
          /\ <<"info", co + 1>> \notin GrowingAt(w, m, start, co)
      <4>1. DOMAIN start = 0..w /\ co \in Nat /\ Put(start2, start, co + 1, UNKNOWN)
        BY <1>1, <2>1
      <4> QED BY ONLY <4>1, <2>3, w \in Nat, GrowPush, Zenon
    <3> QED BY <1>4, <2>1, <2>2, <3>1 DEF GrowingIn
  <2>5. Writes(s, t, w, a, lb) /\ t.nextpix = s.nextpix /\ t.free = s.free
    <3>1. Holds(s, t, [s.info EXCEPT ![s.co + 1] = s.store[s.x]], s.store, s.nextpix, s.free, s.curpix)
      BY <1>3, <1>8, MarkerSCells
    <3> QED BY <1>1, <1>4, <2>1, <2>3, <3>1 DEF Holds, Writes
  <2>6. a \notin P /\ a # Cur
    BY <1>4, <1>5, <2>1, <2>4
  <2>7. P2 = (P \ {b}) \union {a}
    <3>1. P2 = G \union {a} \union (E \ {b})
      BY <1>1, <1>4, <2>4
    <3> QED BY <1>4, <1>5, <3>1
  <2>8. Puts(R, R2, w, a, R[b])
    <3>1. PutsInfo(R, R2, w, s.co + 1, R[<<"store", s.x>>])
      BY <1>8 DEF MarkerPuts
    <3> QED BY <1>1, <1>4, <2>1, <3>1 DEF PutsInfo
  <2>9. Moves(s, t, w, n, b, a, P, P2, R, R2)
    BY <1>5, <1>6, <2>5, <2>6, <2>7, <2>8 DEF Moves
  <2> QED BY <1>5, <2>6, <2>9 DEF Redraws
<1>9. CASE s.cs = "OBJECT"
  <2>1. t.marker = m /\ t.start = start /\ t.co = co /\ t.x = x /\ DOMAIN t = DOMAIN s
    <3>1. Becomes(s, t, s.marker, s.start, s.end, Append(s.psstack, s.ps), s.co, "OBJECT", s.cs)
      BY <1>3, <1>9, MarkerSDoes
    <3> QED BY <1>1, <3>1 DEF Becomes
  <2>2. GrowingIn(w, t) = G
    BY <1>4, <2>1 DEF GrowingIn
  <2>3. PICK a, la : a = <<"info", co>> /\ la = s.info[co]
    OBVIOUS
  <2>4. a \in P /\ a # b /\ a # Cur
    <3>1. co \in 1..co
      BY <1>1, <1>9
    <3>2. a \in G
      BY <1>4, <2>3, <3>1, GrowingPlaces
    <3> QED BY <1>4, <1>5, <2>3, <3>2
  <2>5. Holds(s, t, [s.info EXCEPT ![co] = Joined(s.info[co], lb)], s.store,
                      LinkedOn(s.nextpix, s.info[co], lb), s.free, s.curpix)
    BY <1>1, <1>3, <1>4, <1>9, MarkerSCells
  <2>6. la = ListIn(s, n, a)
    BY <2>3, PlainPlaces DEF ListIn, ListAt
  <2>7. Writes(s, t, w, a, Joined(la, lb)) /\ t.free = s.free /\ t.nextpix = LinkedOn(s.nextpix, la, lb)
    BY <2>3, <2>5 DEF Holds, Writes
  <2>8. P2 = P \ {b}
    <3>1. P2 = G \union (E \ {b})
      BY <1>1, <1>4, <2>2
    <3> QED BY <1>4, <1>5, <3>1
  <2>9. Puts(R, R2, w, a, R[a] \union R[b]) /\ Joins(R[a], R[b])
    <3>1. PutsInfo(R, R2, w, s.co, R[<<"info", s.co>>] \union R[<<"store", s.x>>])
      BY <1>9 DEF MarkerPuts
    <3> QED BY <1>1, <1>4, <1>9, <2>3, <3>1 DEF PutsInfo
  <2>10. Unites(s, t, w, n, a, b, P, P2, R, R2)
    BY <1>5, <1>6, <2>4, <2>6, <2>7, <2>8, <2>9 DEF Unites
  <2> QED BY <1>5, <2>4, <2>9, <2>10 DEF Redraws
<1> QED BY <1>7, <1>8, <1>9

(* The inner region is joined to the outer one. *)
LEMMA MarkerInnerRedraws ==
  ASSUME NEW w \in Nat, NEW n \in Nat \ {0}, NEW s, Inside(s, w), NEW X \in 0..(w + 1),
         Known(s, X),
         s.cs = "OBJECT" /\ s.ps = "COMPLETE" => s.co - 1 # 0,
         NEW E, NEW B, Cellular(s, w, n, E, B),
         NEW t, t = MarkerInner(s), NEW x, NEW R, NEW R2, MarkerPuts(s, w, x, "s", R, R2),
         s.cs = "OBJECT" /\ s.ps = "COMPLETE" => Joins(R[<<"info", s.co - 1>>], R[<<"info", s.co>>]),
         NEW P, P = GrowingIn(w, s) \union E, NEW P2, P2 = GrowingIn(w, t) \union E
  PROVE  Redraws(s, t, w, n, P, P2, R, R2)
<1>1. PICK co, m, start :
        /\ co \in 0..w
        /\ co = s.co /\ m = s.marker /\ start = s.start
        /\ DOMAIN m = 0..w /\ DOMAIN start = 0..w /\ co \in Nat /\ s.wild = FALSE
  BY DEF Inside, HasLine
<1>2. co \in 0..w
  BY <1>1
<1> USE <1>2
<1>3. Fields \subseteq DOMAIN s /\ AllFields \subseteq DOMAIN s /\ LineFields \subseteq DOMAIN s
  BY DEF Cellular, Fields, AllFields
<1>4. PICK G : G = GrowingAt(w, m, start, co) /\ G = GrowingIn(w, s)
  BY <1>1 DEF GrowingIn
<1>5. s.cs = "OBJECT" => co # 0 /\ start[co] \in 0..w /\ start[co] \in DOMAIN s.marker
  <2>1. Past(m, start, s.end, s.cs, co, X) /\ co \in Nat /\ X \in Nat
    BY <1>1 DEF Known
  <2>2. s.cs = "OBJECT" => co # 0 /\ start[co] \in 0..(X - 1)
    BY <2>1, PastKnown
  <2> QED BY <1>1, <2>2
<1>6. CASE ~(s.cs = "OBJECT" /\ s.ps = "COMPLETE")
  <2>1. Becomes(s, t, s.marker, s.start, s.end, s.psstack, s.co, "OBJECT", s.cs)
    BY <1>1, <1>3, <1>6, MarkerInnerDoes
  <2>2. GrowingIn(w, t) = GrowingIn(w, s)
    BY <2>1 DEF Becomes, GrowingIn
  <2>3. SameCells(s, t)
    BY <1>3, <1>6, MarkerInnerCells
  <2>4. R2 = R
    BY <1>6 DEF MarkerPuts
  <2>5. Leaves(s, t, P, P2, R, R2)
    BY <2>2, <2>3, <2>4 DEF Leaves
  <2> QED BY <2>5 DEF Redraws
<1>7. CASE s.cs = "OBJECT" /\ s.ps = "COMPLETE"
  <2>1. PICK i \in 1..w : i = co - 1 /\ i # co /\ co \in 2..w /\ co \in 1..w /\ i \in 1..co /\ co \in 1..co
    <3>1. PICK i : i = co - 1
      OBVIOUS
    <3>2. i # 0 /\ co # 0
      BY <1>1, <1>5, <1>7, <3>1
    <3> QED BY <1>1, <3>1, <3>2
  <2>2. PICK a, b, la, lb : a = <<"info", i>> /\ b = <<"info", co>> /\ la = s.info[i] /\ lb = s.info[co]
    OBVIOUS
  <2>3. /\ a \in P /\ b \in P /\ b # a /\ a # Cur /\ b # Cur /\ b \notin E /\ G \subseteq P
    <3>1. a \in G /\ b \in G
      BY <1>4, <2>1, <2>2, GrowingPlaces
    <3>2. a # b
      BY <2>1, <2>2
    <3>3. \A j : <<"info", j>> \notin E /\ <<"info", j>> # Cur
      BY ExtraPlaces
    <3> QED BY <1>4, <2>2, <3>1, <3>2, <3>3
  <2>4. lb = ListIn(s, n, b) /\ la = ListIn(s, n, a)
    BY <2>2, PlainPlaces DEF ListIn, ListAt
  <2>5. Holds(s, t, [s.info EXCEPT ![i] = Joined(s.info[i], lb)], s.store,
                      LinkedOn(s.nextpix, s.info[i], lb), s.free, s.curpix)
    BY <1>1, <1>3, <1>7, <2>1, <2>2, MarkerInnerCells
  <2>7. GrowingIn(w, t) = G \ {b}
    <3>1. CASE start[i] = UNKNOWN
      <4>1. PICK start2 : start2 = [s.start EXCEPT ![s.co - 1] = s.start[s.co]] /\ Put(start2, start, co - 1, start[co])
        BY <1>1 DEF Put
      <4>2. Becomes(s, t, s.marker, start2, s.end,
                      SubSeq(s.psstack, 1, Len(s.psstack) - 1), s.co - 1, "OBJECT", s.cs)
        BY <1>1, <1>3, <1>5, <1>7, <2>1, <3>1, <4>1, MarkerInnerDoes
      <4>3. GrowingAt(w, m, start2, co - 1) = GrowingAt(w, m, start, co) \ {<<"info", co>>}
        <5>1. start[co - 1] = UNKNOWN /\ DOMAIN start = 0..w /\ co \in 2..w /\ Put(start2, start, co - 1, start[co])
          BY <1>1, <2>1, <3>1, <4>1
        <5> QED BY ONLY <5>1, w \in Nat, GrowUnite, SMTT(60)
      <4> QED BY <1>1, <1>4, <2>2, <4>2, <4>3 DEF Becomes, GrowingIn
    <3>2. CASE start[i] # UNKNOWN
      <4>1. PICK m2 : m2 = [s.marker EXCEPT ![s.start[s.co]] = "s"] /\ Put(m2, m, start[co], "s")
        BY <1>1 DEF Put
      <4>2. PICK start2 : /\ start2 = [s.start EXCEPT ![s.co - 1] = @]
                          /\ Becomes(s, t, m2, start2, s.end,
                               SubSeq(s.psstack, 1, Len(s.psstack) - 1), s.co - 1, "OBJECT", s.cs)
        BY <1>1, <1>3, <1>5, <1>7, <2>1, <3>2, <4>1, MarkerInnerDoes
      <4>3. GrowingAt(w, m2, start2, co - 1) = GrowingAt(w, m, start, co) \ {<<"info", co>>}
        <5>1. \A j \in 0..w : start2[j] = start[j]
          BY <1>1, <4>2
        <5>2. DOMAIN m = 0..w /\ start[co] \in 0..w /\ co \in 1..w /\ Put(m2, m, start[co], "s")
          BY <1>1, <1>5, <1>7, <2>1, <4>1
        <5> QED BY ONLY <5>1, <5>2, w \in Nat, GrowJoin
      <4> QED BY <1>1, <1>4, <2>2, <4>2, <4>3 DEF Becomes, GrowingIn
    <3> QED BY <3>1, <3>2
  <2>8. P2 = P \ {b}
    BY <1>4, <2>3, <2>7
  <2>9. Puts(R, R2, w, a, R[a] \union R[b]) /\ Joins(R[a], R[b])
    <3>1. PutsInfo(R, R2, w, s.co - 1, R[<<"info", s.co - 1>>] \union R[<<"info", s.co>>])
      BY <1>7 DEF MarkerPuts
    <3> QED BY <1>1, <1>7, <2>1, <2>2, <3>1 DEF PutsInfo
  <2>10. Writes(s, t, w, a, Joined(la, lb)) /\ t.free = s.free /\ t.nextpix = LinkedOn(s.nextpix, la, lb)
    <3>1. i \in 0..w
      BY <2>1
    <3> QED BY <2>2, <2>5, <3>1 DEF Holds, Writes
  <2>11. Unites(s, t, w, n, a, b, P, P2, R, R2)
    BY <2>3, <2>4, <2>8, <2>9, <2>10 DEF Unites
  <2> QED BY <2>3, <2>9, <2>11 DEF Redraws
<1> QED BY <1>6, <1>7

(* The innermost region is moved to the column where it will be met again. *)
LEMMA SuspendRedraws ==
  ASSUME NEW w \in Nat, NEW n \in Nat \ {0}, NEW s, NEW co \in 1..w, NEW m, DOMAIN m = 0..w,
         NEW start,
         s.co = co, s.marker = m, s.start = start,
         start[co] \in 0..w, m[start[co]] = "S", \A i \in 1..(co - 1) : start[i] # start[co],
         NEW e \in 0..w, m[e] # "S", NEW m2, Put(m2, m, e, "F"),
         NEW E, <<"store", s.x>> \notin E, NEW B, Cellular(s, w, n, E, B),
         NEW store, Put(store, s.store, start[co], s.info[co]),
         NEW t, Holds(s, t, s.info, store, s.nextpix, s.free, s.curpix),
         t.co = co - 1, t.marker = m2, t.start = start,
         NEW R, NEW R2, PutsStore(R, R2, w, start[co], R[<<"info", co>>]),
         NEW P, P = GrowingIn(w, s) \union E, NEW P2, P2 = GrowingIn(w, t) \union E
  PROVE  Redraws(s, t, w, n, P, P2, R, R2)
<1>1. PICK G, a, b, la : /\ G = GrowingIn(w, s)
                         /\ a = <<"info", co>> /\ b = <<"store", start[co]>> /\ la = s.info[co]
  OBVIOUS
<1>2. a \notin E /\ a # Cur /\ b \notin {Free, Cur}
  BY <1>1, ExtraPlaces
<1>3. E \subseteq {<<"store", s.x>>, Cur}
  BY DEF Cellular
<1>4. GrowingIn(w, t) = (G \ {a}) \union {b} /\ b \notin G
  <2>1. /\ GrowingAt(w, m2, start, co - 1) =
              (GrowingAt(w, m, start, co) \ {<<"info", co>>}) \union {<<"store", start[co]>>}
        /\ <<"store", start[co]>> \notin GrowingAt(w, m, start, co)
    <3>1. /\ start[co] \in 0..w /\ m[start[co]] = "S" /\ (\A i \in 1..(co - 1) : start[i] # start[co])
          /\ DOMAIN m = 0..w /\ e \in 0..w /\ m[e] # "S" /\ Put(m2, m, e, "F")
      OBVIOUS
    <3> QED BY ONLY <3>1, w \in Nat, co \in 1..w, GrowSuspend
  <2> QED BY <1>1, <2>1 DEF GrowingIn
<1>5. b \notin E /\ b \notin P
  BY <1>1, <1>2, <1>3, <1>4
<1>6. a \in G /\ a # b /\ a \in P
  <2>1. co \in 1..co
    OBVIOUS
  <2> QED BY <1>1, <2>1, GrowingPlaces DEF GrowingIn
<1>7. la = ListIn(s, n, a)
  BY <1>1, PlainPlaces DEF ListIn, ListAt
<1>8. Writes(s, t, w, b, la) /\ t.nextpix = s.nextpix /\ t.free = s.free
  BY <1>1 DEF Holds, Writes, Put
<1>9. P2 = (P \ {a}) \union {b}
  BY <1>1, <1>2, <1>4
<1>10. Puts(R, R2, w, b, R[a])
  BY <1>1 DEF PutsStore
<1>11. Moves(s, t, w, n, a, b, P, P2, R, R2)
  BY <1>5, <1>6, <1>7, <1>8, <1>9, <1>10 DEF Moves
<1> QED BY <1>2, <1>11 DEF Redraws

(* MarkerF redraws unless it completes the innermost region. *)
LEMMA MarkerFRedraws ==
  ASSUME NEW w \in Nat, NEW n \in Nat \ {0}, NEW s, Inside(s, w), NEW X \in 0..(w + 1),
         Known(s, X),
         s.ps = "OBJECT",
         NEW E, <<"store", s.x>> \notin E, NEW B, Cellular(s, w, n, E, B),
         NEW minarea, NEW t, t = MarkerF(s, minarea), NEW x, NEW R, NEW R2,
         MarkerPuts(s, w, x, "F", R, R2),
         NEW P, P = GrowingIn(w, s) \union E, NEW P2, P2 = GrowingIn(w, t) \union E
  PROVE  /\ ~Completes(s, "F") => Redraws(s, t, w, n, P, P2, R, R2)
         /\ Completes(s, "F") => Frees(s, t, n, <<"info", s.co>>, P, P2, R, R2)
<1>1. PICK co, m, start, top :
        /\ co \in 0..w
        /\ co = s.co /\ m = s.marker /\ start = s.start /\ top = s.psstack[Len(s.psstack)]
        /\ DOMAIN m = 0..w /\ DOMAIN start = 0..w /\ co \in Nat /\ X \in Nat /\ s.wild = FALSE
        /\ s.cs \in {"OBJECT", "NONOBJECT"}
  BY DEF Inside, HasLine
<1>2. co \in 0..w
  BY <1>1
<1> USE <1>2
<1>3. /\ Fields \subseteq DOMAIN s /\ AllFields \subseteq DOMAIN s /\ LineFields \subseteq DOMAIN s
      /\ "ready" \in DOMAIN s /\ "object" \in DOMAIN s
  BY DEF Cellular, Fields, AllFields
<1>4. co # 0
  <2>1. IsStack(s.psstack) /\ Framed(s.psstack, "OBJECT", s.cs, co)
    BY <1>1 DEF Inside
  <2>2. PICK st2 : st2 = SubSeq(s.psstack, 1, Len(s.psstack) - 1)
    OBVIOUS
  <2> QED BY <1>1, <2>1, <2>2, FramedPop
<1>5. Past(m, start, s.end, s.cs, co, X)
  BY <1>1 DEF Known
<1>6. s.cs = "NONOBJECT" /\ start[co] # UNKNOWN =>
        /\ start[co] \in 0..w /\ s.end[co] \in 0..w /\ m[start[co]] = "S" /\ m[s.end[co]] # "S"
        /\ \A i \in 1..(co - 1) : start[i] # start[co]
  <2>1. s.cs = "NONOBJECT" /\ start[co] # UNKNOWN => start[co] \in 0..(X - 1) /\ s.end[co] \in 0..(X - 1)
    BY <1>1, <1>4, <1>5, PastKnown
  <2>2. s.cs = "NONOBJECT" /\ start[co] # UNKNOWN =>
          /\ m[start[co]] = "S" /\ m[s.end[co]] # "S" /\ \A i \in 1..(co - 1) : start[i] # start[co]
    BY <1>1, <1>4, <1>5, PastWaits
  <2> QED BY <1>1, <2>1, <2>2
<1>7. PICK st2 : st2 = SubSeq(s.psstack, 1, Len(s.psstack) - 1)
  OBVIOUS
<1>8. s.cs = "NONOBJECT" /\ top = "COMPLETE" /\ s.start[s.co] # UNKNOWN =>
           s.end[s.co] \in DOMAIN s.marker /\ s.start[s.co] \in DOMAIN s.marker
  BY <1>1, <1>6
<1>9. CASE ~(s.cs = "NONOBJECT" /\ top = "COMPLETE")
  <2>1. Becomes(s, t, s.marker, s.start, s.end, st2, s.co, top, s.cs)
    BY <1>1, <1>3, <1>7, <1>8, <1>9, MarkerFDoes
  <2>2. GrowingIn(w, t) = GrowingIn(w, s)
    BY <2>1 DEF Becomes, GrowingIn
  <2>3. SameCells(s, t)
    BY <1>1, <1>3, <1>9, MarkerFCells
  <2>4. ~TopCase(s)
    BY <1>1, <1>9 DEF TopCase
  <2>5. R2 = R
    BY <2>4 DEF MarkerPuts
  <2>6. Leaves(s, t, P, P2, R, R2)
    BY <2>2, <2>3, <2>5 DEF Leaves
  <2> QED BY <2>4, <2>6 DEF Redraws, Completes
<1>10. CASE s.cs = "NONOBJECT" /\ top = "COMPLETE"
  <2>1. co \in 1..w /\ TopCase(s)
    BY <1>1, <1>4, <1>10 DEF TopCase
  <2>2. CASE start[co] = UNKNOWN
    <3>1. Becomes(s, t, s.marker, s.start, s.end, SubSeq(st2, 1, Len(st2) - 1), s.co - 1, st2[Len(st2)], s.cs)
      BY <1>1, <1>3, <1>7, <1>8, <1>10, <2>2, MarkerFDoes
    <3>2. PICK la, next : la = s.info[co] /\ next = [s.nextpix EXCEPT ![la.last] = s.free]
      OBVIOUS
    <3>3. Holds(s, t, s.info, s.store, next, la.first, s.curpix)
      BY <1>1, <1>3, <1>10, <2>2, <3>2, MarkerFCells
    <3>4. t.co = co - 1 /\ t.marker = s.marker /\ t.start = s.start
      BY <1>1, <3>1 DEF Becomes
    <3>5. Completes(s, "F") /\ R2 = R
      BY <1>1, <2>1, <2>2 DEF Completes, MarkerPuts
    <3>6. PICK a, G : a = <<"info", co>> /\ G = GrowingIn(w, s)
      OBVIOUS
    <3>7. GrowingIn(w, t) = G \ {a}
      BY <1>1, <2>1, <2>2, <3>4, <3>6, GrowDrop DEF GrowingIn
    <3>8. a \in G /\ a \notin E
      <4>1. co \in 1..co
        BY <2>1
      <4> QED BY <1>1, <3>6, <4>1, GrowingPlaces, ExtraPlaces DEF GrowingIn
    <3>9. a \in P /\ P2 = P \ {a}
      BY <3>6, <3>7, <3>8
    <3>10. la = ListIn(s, n, a)
      BY <3>2, <3>6, PlainPlaces DEF ListIn, ListAt
    <3>11. Frees(s, t, n, a, P, P2, R, R2)
      BY <3>2, <3>3, <3>5, <3>9, <3>10 DEF Frees
    <3> QED BY <1>1, <3>5, <3>6, <3>11
  <2>3. CASE start[co] # UNKNOWN
    <3>1. PICK m2, e : m2 = [s.marker EXCEPT ![s.end[s.co]] = "F"] /\ e = s.end[co]
      OBVIOUS
    <3>2. Becomes(s, t, m2, s.start, s.end, SubSeq(st2, 1, Len(st2) - 1), s.co - 1, st2[Len(st2)], s.cs)
      BY <1>1, <1>3, <1>7, <1>8, <1>10, <2>3, <3>1, MarkerFDoes
    <3>3. PICK store : store = [s.store EXCEPT ![s.start[s.co]] = s.info[s.co]]
      OBVIOUS
    <3>4. Holds(s, t, s.info, store, s.nextpix, s.free, s.curpix)
      BY <1>1, <1>3, <1>10, <2>3, <3>3, MarkerFCells
    <3>5. t.co = co - 1 /\ t.marker = m2 /\ t.start = start
      BY <1>1, <3>2 DEF Becomes
    <3>6. Put(m2, m, e, "F") /\ Put(store, s.store, start[co], s.info[co])
      BY <1>1, <3>1, <3>3 DEF Put
    <3>7. /\ start[co] \in 0..w /\ e \in 0..w /\ m[start[co]] = "S" /\ m[e] # "S"
          /\ \A i \in 1..(co - 1) : start[i] # start[co]
      BY <1>6, <1>10, <2>3, <3>1
    <3>8. DOMAIN m = 0..w /\ s.co = co /\ s.marker = m /\ s.start = start
      BY <1>1
    <3>9. PutsStore(R, R2, w, start[co], R[<<"info", co>>]) /\ ~Completes(s, "F")
      BY <1>1, <2>1, <2>3 DEF MarkerPuts, Completes
    <3>10. Redraws(s, t, w, n, P, P2, R, R2)
      BY ONLY <2>1, <3>4, <3>5, <3>6, <3>7, <3>8, <3>9, w \in Nat, n \in Nat \ {0}, <<"store",
         s.x>> \notin E,
              Cellular(s, w, n, E, B), P = GrowingIn(w, s) \union E, P2 = GrowingIn(w, t) \union E, SuspendRedraws
    <3> QED BY <3>9, <3>10
  <2> QED BY <2>2, <2>3
<1> QED BY <1>1, <1>9, <1>10

(* The regions that meet at a marker touch. *)
Meet(s, mark, R) ==
  /\ mark = "S" /\ s.cs = "OBJECT" => Joins(R[<<"info", s.co>>], R[<<"store", s.x>>])
  /\ mark = "s" /\ s.cs = "OBJECT" /\ s.ps = "COMPLETE" => Joins(R[<<"info", s.co - 1>>], R[<<"info", s.co>>])

(* The marker of the line above, if it completes no region, loses no pixel *)
(* and joins only regions that touch.                                      *)
LEMMA MarkerRedraws ==
  ASSUME NEW w \in Nat, NEW n \in Nat \ {0}, NEW s, NEW X, NEW mark, NEW E, NEW B,
         Followable(s, w, X, mark, E, B), Cellular(s, w, n, E, B),
         NEW minarea, NEW t, t = NewMarker(s, mark, minarea),
         NEW R, NEW R2, MarkerPuts(s, w, s.x, mark, R, R2), Meet(s, mark, R),
         NEW P, P = GrowingIn(w, s) \union E,
         NEW P2, P2 = GrowingIn(w, t) \union (E \ {<<"store", s.x>>})
  PROVE  /\ ~Completes(s, mark) => Redraws(s, t, w, n, P, P2, R, R2)
         /\ Completes(s, mark) => Frees(s, t, n, <<"info", s.co>>, P, P2, R, R2)
<1>1. PICK g2, a2 : Turn(mark, Depth(s), Under(s), g2, a2)
  BY DEF Followable
<1> USE <1>1
<1>2. /\ Inside(s, w) /\ X \in 0..(w + 1) /\ Known(s, X)
      /\ s.cs # "OBJECT" /\ s.ps # "OBJECT" => s.co < w
      /\ <<"store", s.x>> \in E <=> mark = "S"
      /\ s.cs # "OBJECT" => B = {}
  BY DEF Followable
<1> USE <1>2
<1>3. PICK co \in 0..w : co = s.co /\ co \in Nat
  BY DEF Inside
<1>4. IsStack(s.psstack) /\ Framed(s.psstack, s.ps, s.cs, co)
  BY <1>3 DEF Inside
<1>5. s.cs = "OBJECT" => co # 0
  BY <1>3, <1>4, FramedCount
<1>6. mark # "S" => P2 = GrowingIn(w, t) \union E /\ <<"store", s.x>> \notin E
  OBVIOUS
<1>7. mark # "F" => ~Completes(s, mark)
  BY DEF Completes
<1>8. CASE mark \in {"none", "f"}
  <2>1. SameCells(s, t) /\ GrowingIn(w, t) = GrowingIn(w, s)
    <3>1. CASE mark = "none"
      <4>1. t = s
        BY <3>1 DEF NewMarker
      <4> QED BY <4>1 DEF SameCells, Holds
    <3>2. CASE mark = "f"
      <4>1. t = [s EXCEPT !.ps = "INCOMPLETE"]
        BY <3>2 DEF NewMarker
      <4>2. Fields \subseteq DOMAIN s
        BY DEF Cellular
      <4>3. SameCells(s, t) /\ t.co = s.co /\ t.marker = s.marker /\ t.start = s.start
        BY <4>1, <4>2 DEF Fields, AllFields, LineFields, CellFields, SameCells, Holds
      <4> QED BY <4>3 DEF GrowingIn
    <3> QED BY <1>8, <3>1, <3>2
  <2>2. R2 = R
    BY <1>8 DEF MarkerPuts
  <2>3. Leaves(s, t, P, P2, R, R2)
    BY <1>6, <1>8, <2>1, <2>2 DEF Leaves
  <2> QED BY <1>7, <1>8, <2>3 DEF Redraws
<1>9. CASE mark = "S"
  <2>1. t = MarkerS(s) /\ <<"store", s.x>> \in E
    BY <1>9 DEF NewMarker
  <2>2. s.ps # "OBJECT"
    BY <1>9 DEF Turn, Under
  <2>3. (s.cs # "OBJECT" => s.co < w) /\ (s.cs = "OBJECT" => s.co # 0)
    BY <1>3, <1>5, <2>2
  <2>4. /\ MarkerPuts(s, w, s.x, "S", R, R2)
        /\ s.cs = "OBJECT" => Joins(R[<<"info", s.co>>], R[<<"store", s.x>>])
    BY <1>9 DEF Meet
  <2>5. Redraws(s, t, w, n, P, P2, R, R2)
    BY <2>1, <2>3, <2>4, MarkerSRedraws
  <2> QED BY <1>7, <1>9, <2>5
<1>10. CASE mark = "s"
  <2>1. t = MarkerInner(s) /\ <<"store", s.x>> \notin E
    BY <1>6, <1>10 DEF NewMarker
  <2>2. ASSUME s.cs = "OBJECT", s.ps = "COMPLETE" PROVE s.co - 1 # 0
    <3>1. PICK st2 : st2 = SubSeq(s.psstack, 1, Len(s.psstack) - 1)
      OBVIOUS
    <3>2. Depth(s) >= 1
      BY <1>10 DEF Turn
    <3>3. Len(s.psstack) - co # 0
      BY <1>3, <3>2 DEF Depth
    <3> QED BY <1>3, <1>4, <1>5, <2>2, <3>1, <3>3, FramedClose
  <2>3. /\ MarkerPuts(s, w, s.x, "s", R, R2)
        /\ s.cs = "OBJECT" /\ s.ps = "COMPLETE" => Joins(R[<<"info", s.co - 1>>], R[<<"info", s.co>>])
    BY <1>10 DEF Meet
  <2>4. P2 = GrowingIn(w, t) \union E
    BY <1>6, <1>10
  <2>5. Redraws(s, t, w, n, P, P2, R, R2)
    BY <2>1, <2>2, <2>3, <2>4, MarkerInnerRedraws
  <2> QED BY <1>7, <1>10, <2>5
<1>11. CASE mark = "F"
  <2>1. t = MarkerF(s, minarea) /\ <<"store", s.x>> \notin E
    BY <1>6, <1>11 DEF NewMarker
  <2>2. s.ps = "OBJECT" /\ MarkerPuts(s, w, s.x, "F", R, R2) /\ P2 = GrowingIn(w, t) \union E
    BY <1>6, <1>11 DEF Turn, Under
  <2>3. /\ ~Completes(s, "F") => Redraws(s, t, w, n, P, P2, R, R2)
        /\ Completes(s, "F") => Frees(s, t, n, <<"info", s.co>>, P, P2, R, R2)
    BY <2>1, <2>2, MarkerFRedraws
  <2> QED BY <1>11, <2>3
<1> QED BY <1>8, <1>9, <1>10, <1>11 DEF Turn

(* The lists at the places P have cells of this scan. *)
LEMMA CellsHere ==
  ASSUME NEW s, NEW w, NEW n, NEW P, NEW B, Accounts(s, w, n, P, B)
  PROVE  \A at \in P : CellsOf(s, n, at) \subseteq DOMAIN s.nextpix /\ IsFiniteSet(CellsOf(s, n, at))
<1>1. PICK L, mem : IsLists(L, s, w, n) /\ Sound(s.nextpix, P, L, mem) /\ P \subseteq Names(w)
  BY DEF Accounts
<1>2. Listed(s, w, n, P, L, mem)
  BY <1>1 DEF Listed
<1>3. ASSUME NEW at \in P PROVE CellsOf(s, n, at) \subseteq DOMAIN s.nextpix
  <2>1. CellsOf(s, n, at) = mem[L[at].first] /\ L[at].first \in {None} \union DOMAIN s.nextpix
    BY <1>2, CellsListed
  <2>2. Chains(s.nextpix, mem)
    BY <1>1 DEF Sound
  <2> QED BY <2>1, <2>2 DEF Chains
<1>4. IsFiniteSet(DOMAIN s.nextpix)
  BY <1>1 DEF Sound, Chains
<1> QED BY <1>3, <1>4, FS_Subset

(* What the marker at x leaves growing outside the arrays. *)
LeavesAt(s, E) == E = IF s.marker[s.x] = "S" THEN {<<"store", s.x>>} ELSE {}

(* The marker of the visited column is taken: its region is still listed. *)
LEMMA ClearRedraws ==
  ASSUME NEW w \in Nat, NEW n, NEW s, Inside(s, w), Known(s, s.x), Cellular(s, w, n, {}, {}),
         NEW c, c = Cleared(s), NEW E, LeavesAt(s, E)
  PROVE  /\ SameCells(s, c) /\ c.pix = s.pix /\ c.y = s.y /\ c.ready = Blank /\ c.object = <<>>
         /\ GrowingIn(w, c) \union E = GrowingIn(w, s)
<1> USE DEF LeavesAt
<1>1. PICK x, co, m, start :
        /\ x \in 0..w /\ co \in 0..w
        /\ x = s.x /\ co = s.co /\ m = s.marker /\ start = s.start
        /\ DOMAIN m = 0..w
  BY DEF Inside, HasLine
<1>2. x \in 0..w /\ co \in 0..w
  BY <1>1
<1> USE <1>2
<1>3. PICK m2 : m2 = [s.marker EXCEPT ![s.x] = "none"] /\ Put(m2, m, x, "none")
  BY <1>1 DEF Put
<1>4. /\ Fields \subseteq DOMAIN s /\ AllFields \subseteq DOMAIN s /\ "ready" \in DOMAIN s /\ "object" \in DOMAIN s
      /\ "pix" \in DOMAIN s /\ "y" \in DOMAIN s
  BY DEF Cellular, Fields
<1>5. /\ DOMAIN c = DOMAIN s /\ c.x = x /\ c.co = co /\ c.marker = m2 /\ c.start = start
      /\ c.pix = s.pix /\ c.y = s.y /\ c.ready = Blank /\ c.object = <<>>
  BY <1>1, <1>3, <1>4 DEF Cleared, AllFields, LineFields
<1>6. SameCells(s, c)
  BY <1>4, ClearedCells
<1>7. \A i \in 1..co : start[i] # x
  <2>1. Past(m, start, s.end, s.cs, co, x) /\ co \in Nat /\ x \in Nat
    BY <1>1 DEF Known
  <2> QED BY <2>1, PastWaits
<1>8. /\ m[x] # "S" => GrowingAt(w, m2, start, co) = GrowingAt(w, m, start, co)
      /\ m[x] = "S" => /\ GrowingAt(w, m, start, co) = GrowingAt(w, m2, start, co) \union {<<"store", x>>}
                       /\ <<"store", x>> \notin GrowingAt(w, m2, start, co)
  <2>1. DOMAIN m = 0..w /\ (\A i \in 1..co : start[i] # x) /\ Put(m2, m, x, "none")
    BY <1>1, <1>3, <1>7
  <2> QED BY ONLY <2>1, w \in Nat, x \in 0..w, GrowClear
<1>9. GrowingIn(w, s) = GrowingAt(w, m, start, co) /\ GrowingIn(w, c) = GrowingAt(w, m2, start, co)
  BY <1>1, <1>5 DEF GrowingIn
<1> QED BY <1>1, <1>5, <1>6, <1>8, <1>9

(* A cell is taken for the pixel p; what the lists hold before it. *)
Takes(s, w, n, P, O, S, D, R, p, truncated, t, R2, P2) ==
  /\ Free \notin P /\ Cur \notin P
  /\ Accounts(s, w, n, P \union {Free}, {}) /\ AllFields \subseteq DOMAIN s /\ "pix" \in DOMAIN s
  /\ DOMAIN s.pix = DOMAIN s.nextpix /\ s.nextpix[s.free] # n - 1
  /\ Pictured(s, n, O, P, S, D, R)
  /\ p = <<s.x, s.y>> /\ p \notin S /\ truncated = (p \in O) /\ t = TakeCell(s, truncated)
  /\ Puts(R, R2, w, Cur, {p}) /\ P2 = P \union {Cur}

(* A pixel takes a cell: the new list holds the new pixel alone. *)
LEMMA TakenPicture ==
  ASSUME NEW w \in Nat, NEW n \in Nat \ {0}, NEW s, NEW P, NEW O, NEW S, NEW D, NEW R, NEW p,
         NEW truncated,
         NEW t, NEW R2, NEW P2, Takes(s, w, n, P, O, S, D, R, p, truncated, t, R2, P2)
  PROVE  /\ Pictured(t, n, O, P2, S, D, R2) /\ Total(R2, P2) = Total(R, P) /\ R2[Cur] = {p}
         /\ DOMAIN t.pix = DOMAIN s.pix /\ \A at \in P : R2[at] = R[at]
<1> USE DEF Takes
<1>1. PICK next, cur, f : /\ next = [s.nextpix EXCEPT ![s.free] = None] /\ f = s.free
                       /\ cur = [pixnb |-> 1, flag |-> truncated, first |-> s.free, last |-> s.free]
  OBVIOUS
<1>2. Holds(s, t, s.info, s.store, next, s.nextpix[s.free], cur)
  BY <1>1, TakeCellCells
<1>3. cur.first = s.free /\ cur.flag = truncated /\ Cur \notin P \union {Free}
  BY <1>1, PlainPlaces
<1>4. /\ CellsOf(t, n, Cur) = {s.free} /\ FlagOf(t, n, Cur) = cur.flag
      /\ \A at \in (P \union {Free}) \ {Free} : SameList(s, t, n, at, at) /\ s.free \notin CellsOf(s, n, at)
      /\ s.free \in DOMAIN s.nextpix
  <2>1. PICK P3 : P3 = P \union {Free}
    OBVIOUS
  <2>2. Accounts(s, w, n, P3, {}) /\ Cur \notin P3
    BY <1>3, <2>1
  <2>3. next = [s.nextpix EXCEPT ![s.free] = None] /\ Holds(s, t, s.info, s.store, next, s.nextpix[s.free], cur) /\ cur.first = s.free
    BY <1>1, <1>2, <1>3
  <2>4. /\ CellsOf(t, n, Cur) = {s.free} /\ FlagOf(t, n, Cur) = cur.flag
        /\ \A at \in P3 \ {Free} : SameList(s, t, n, at, at) /\ s.free \notin CellsOf(s, n, at)
        /\ s.free \in DOMAIN s.nextpix
    BY ONLY <2>2, <2>3, w \in Nat, n \in Nat \ {0}, s.nextpix[s.free] # n - 1, ListsTaken,
       ZenonT(60)
  <2> QED BY <2>1, <2>4
<1>5. t.pix = [s.pix EXCEPT ![f] = p] /\ f \in DOMAIN s.pix
  BY <1>1, <1>4 DEF TakeCell, AllFields, LineFields, CellFields
<1>6. P \ {Cur} = P /\ P2 \ {Cur} = P /\ P \subseteq Names(w)
  BY DEF Accounts
<1>7. Shapes(R, P, S, D) /\ Depicts(s, n, O, P, R)
  BY <1>6 DEF Pictured
<1>8. R2[Cur] = {p} /\ \A at \in P : R2[at] = R[at]
  BY <1>6 DEF Puts
<1>9. \A at \in P : /\ SameList(s, t, n, at, at) /\ f \notin CellsOf(s, n, at) /\ p \notin R[at]
                    /\ CellsOf(s, n, at) \subseteq DOMAIN s.pix
  <2>1. \A at \in P : p \notin R[at]
    BY <1>7 DEF Shapes
  <2> QED BY <1>1, <1>4, <2>1, CellsHere
<1>10. CellsOf(t, n, Cur) = {f} /\ FlagOf(t, n, Cur) = (p \in O)
  BY <1>1, <1>3, <1>4
<1>11. Depicts(t, n, O, P2, R2)
  <2>1. t.pix[f] = p /\ \A c \in DOMAIN s.pix : c # f => t.pix[c] = s.pix[c]
    BY <1>5
  <2>2. Untouched(s, t, n, P, f, p, R)
    BY <1>9 DEF Untouched
  <2>3. Fills(s, t, n, f, p, Cur, O) /\ Cur \notin P /\ P2 = P \union {Cur}
    BY <1>10, <2>1 DEF Fills
  <2> QED BY ONLY <1>7, <1>8, <2>2, <2>3, DepictsTaken
<1>12. P \in SUBSET P
  OBVIOUS
<1>13. Shapes(R2, P, S, D)
  BY <1>7, <1>8, <1>12, ShapesSame
<1>14. AllOf(R2, P) = AllOf(R, P)
  BY <1>8 DEF AllOf
<1>15. DOMAIN t.pix = DOMAIN s.pix
  BY <1>5
<1> QED BY <1>6, <1>8, <1>11, <1>13, <1>14, <1>15 DEF Pictured, Total

(* The new pixel is added to the region B at a. *)
AddsPixel(s, w, n, P, a, B, O, S, R, p, t, R2, P2, D) ==
  /\ s.co \in 1..w /\ Free \notin P /\ Cur \in P /\ a = <<"info", s.co>> /\ a \in P
  /\ Accounts(s, w, n, P \union {Free}, B) /\ AllFields \subseteq DOMAIN s /\ "pix" \in DOMAIN s
  /\ Pictured(s, n, O, P, S, {}, R) /\ R[Cur] = {p} /\ Fits(p, S, R[a], D)
  /\ t = Update(s, s.co, s.curpix) /\ Puts(R, R2, w, a, R[a] \union {p}) /\ P2 = P \ {Cur}

(* update(): the new pixel joins the innermost region. *)
LEMMA PixelPicture ==
  ASSUME NEW w \in Nat, NEW n \in Nat \ {0}, NEW s, NEW P, NEW a, NEW B, NEW O, NEW S, NEW R,
         NEW p, NEW t, NEW R2,
         NEW P2, NEW D, AddsPixel(s, w, n, P, a, B, O, S, R, p, t, R2, P2, D)
  PROVE  Pictured(t, n, O, P2, S \union {p}, D, R2) /\ Total(R2, P2) = Total(R, P) \union {p} /\ t.pix = s.pix
<1> USE DEF AddsPixel
<1>1. PICK co, la, lb : co = s.co /\ la = s.info[s.co] /\ lb = s.curpix
  OBVIOUS
<1>2. a # Cur /\ la = ListIn(s, n, a) /\ lb = ListIn(s, n, Cur)
  BY <1>1, PlainPlaces DEF ListIn, ListAt
<1>3. Holds(s, t, [s.info EXCEPT ![s.co] = Joined(s.info[s.co], s.curpix)], s.store,
                      LinkedOn(s.nextpix, s.info[s.co], s.curpix), s.free, s.curpix)
  BY UpdateCells
<1>4. Writes(s, t, w, a, Joined(la, lb)) /\ t.free = s.free /\ t.nextpix = LinkedOn(s.nextpix, la, lb)
  <2>1. co \in 0..w
    BY <1>1
  <2> QED BY <1>1, <1>3, <2>1 DEF Holds, Writes
<1>5. t.pix = s.pix
  BY DEF Update
<1>6. Puts(R, R2, w, a, R[a] \union R[Cur])
  OBVIOUS
<1>7. Unites(s, t, w, n, a, Cur, P, P2, R, R2)
  BY <1>2, <1>4, <1>6 DEF Unites
<1>8. Shapes(R, P2, S, {}) /\ Depicts(s, n, O, P, R) /\ P2 \subseteq Names(w) /\ a \in P2 /\ P2 \ {Cur} = P2
  BY <1>2 DEF Pictured, Accounts
<1>9. Depicts(t, n, O, P2, R2)
  BY <1>5, <1>7, <1>8, UnitesDepicts
<1>10. Shapes(R2, P2, S \union {p}, D) /\ AllOf(R2, P2) = AllOf(R, P2) \union {p}
  <2>1. /\ Shapes(R, P2, S, {}) /\ P2 \subseteq Names(w) /\ a \in P2 /\ Fits(p, S, R[a], D)
        /\ Puts(R, R2, w, a, R[a] \union {p})
    BY <1>8
  <2>2. /\ Shapes(R, P2, S, {}) /\ P2 \subseteq Names(w) /\ a \in P2 /\ Fits(p, S, R[a], D)
        /\ PutsWith(R, R2, w, a, p)
    BY <2>1 DEF PutsWith
  <2>3. Shapes(R2, P2, S \union {p}, D)
    BY ONLY <2>2, PixelShapes
  <2>4. AllOf(R2, P2) = AllOf(R, P2) \union {p}
    <3>1. R2[a] = R[a] \union {p} /\ \A c \in P2 \ {a} : R2[c] = R[c]
      BY <2>2 DEF PutsWith, Puts
    <3> QED BY <2>2, <3>1 DEF AllOf
  <2> QED BY <2>3, <2>4
<1> QED BY <1>5, <1>8, <1>9, <1>10 DEF Pictured, Total

(* EndSegment moves the innermost region to the column where it waits. *)
LEMMA EndRedraws ==
  ASSUME NEW w \in Nat, NEW n \in Nat \ {0}, NEW s, Inside(s, w),
         Known(s, s.x), s.marker[s.x] = "none",
         NEW B, Cellular(s, w, n, {}, B), NEW t, t = EndSegment(s), NEW R, NEW R2,
         EndPuts(s, w, R, R2),
         NEW P, P = GrowingIn(w, s), NEW P2, P2 = GrowingIn(w, t)
  PROVE  Redraws(s, t, w, n, P, P2, R, R2) /\ t.pix = s.pix /\ t.y = s.y /\ t.ready = s.ready /\ t.object = s.object
<1>1. PICK x, co, m, start :
        /\ x \in 0..w /\ co \in 0..w
        /\ x = s.x /\ co = s.co /\ m = s.marker /\ start = s.start /\ m[x] = "none"
        /\ DOMAIN m = 0..w /\ DOMAIN start = 0..w /\ co \in Nat /\ x \in Nat /\ s.wild = FALSE
  BY DEF Inside, HasLine
<1>2. x \in 0..w /\ co \in 0..w
  BY <1>1
<1> USE <1>2
<1>3. /\ Fields \subseteq DOMAIN s /\ AllFields \subseteq DOMAIN s /\ LineFields \subseteq DOMAIN s
      /\ "pix" \in DOMAIN s /\ "y" \in DOMAIN s /\ "ready" \in DOMAIN s /\ "object" \in DOMAIN s /\ "store" \in DOMAIN s
  BY DEF Cellular, Fields, AllFields, CellFields
<1>4. Past(m, start, s.end, s.cs, co, x)
  BY <1>1 DEF Known
<1>5. s.cs = "OBJECT" => /\ co \in 1..w /\ start[co] \in 0..w /\ m[start[co]] = "S"
                         /\ start[co] \in DOMAIN s.marker
                         /\ \A i \in 1..(co - 1) : start[i] # start[co]
  <2>1. s.cs = "OBJECT" => co # 0 /\ start[co] # UNKNOWN /\ start[co] \in 0..(x - 1)
    BY <1>1, <1>4, PastKnown
  <2>2. s.cs = "OBJECT" => m[start[co]] = "S" /\ \A i \in 1..(co - 1) : start[i] # start[co]
    <3>1. co \in Nat /\ x \in Nat /\ Past(m, start, s.end, s.cs, co, x)
      BY <1>1, <1>4
    <3>2. co # 0 /\ start[co] # UNKNOWN => m[start[co]] = "S" /\ \A i \in 1..(co - 1) : start[i] # start[co]
      BY ONLY <3>1, PastWaits
    <3> QED BY <2>1, <3>2
  <2> QED BY <1>1, <2>1, <2>2
<1>6. t.pix = s.pix /\ t.y = s.y /\ t.ready = s.ready /\ t.object = s.object
  <2>1. CASE s.cs # "OBJECT"
    BY <2>1 DEF EndSegment
  <2>2. CASE s.cs = "OBJECT"
    <3>1. PICK r : r = [s EXCEPT !.cs = "NONOBJECT"]
      OBVIOUS
    <3>2. DOMAIN r = DOMAIN s /\ r.pix = s.pix /\ r.y = s.y /\ r.ready = s.ready /\ r.object = s.object
      BY <1>3, <3>1 DEF LineFields
    <3>3. PICK q : q = Pop(r)
      OBVIOUS
    <3>4. DOMAIN q = DOMAIN s /\ q.pix = s.pix /\ q.y = s.y /\ q.ready = s.ready /\ q.object = s.object
      BY <1>3, <3>2, <3>3 DEF Pop, Popped, LineFields
    <3>5. PICK p : p = Checked(q, s.start[s.co])
      OBVIOUS
    <3>6. DOMAIN p = DOMAIN s /\ p.pix = s.pix /\ p.y = s.y /\ p.ready = s.ready /\ p.object = s.object
      BY <1>3, <3>4, <3>5 DEF Checked, LineFields
    <3>7. CASE s.ps # "COMPLETE"
      <4>1. t = [r EXCEPT !.marker[s.x] = "f", !.end[s.co] = s.x]
        BY <2>2, <3>1, <3>7 DEF EndSegment
      <4> QED BY <1>3, <3>2, <4>1 DEF LineFields
    <3>8. CASE s.ps = "COMPLETE"
      <4>1. t = [p EXCEPT !.marker[s.x] = "F", !.store[s.start[s.co]] = s.info[s.co], !.co = s.co - 1]
        BY <2>2, <3>1, <3>3, <3>5, <3>8 DEF EndSegment
      <4> QED BY <1>3, <3>6, <4>1 DEF LineFields
    <3> QED BY <3>7, <3>8
  <2> QED BY <2>1, <2>2
<1>7. CASE ~(s.cs = "OBJECT" /\ s.ps = "COMPLETE")
  <2>1. SameCells(s, t) /\ R2 = R
    BY <1>3, <1>7, EndSegmentCells DEF EndPuts
  <2>2. GrowingIn(w, t) = GrowingIn(w, s)
    <3>1. CASE s.cs # "OBJECT"
      BY <3>1 DEF EndSegment
    <3>2. CASE s.cs = "OBJECT" /\ s.ps # "COMPLETE"
      <4>1. PICK m2 : m2 = [s.marker EXCEPT ![s.x] = "f"] /\ Put(m2, m, x, "f")
        BY <1>1 DEF Put
      <4>2. Becomes(s, t, m2, s.start, [s.end EXCEPT ![s.co] = s.x], s.psstack, s.co, s.ps, "NONOBJECT")
        BY <1>1, <1>3, <1>5, <3>2, <4>1, EndSegmentDoes
      <4>3. GrowingAt(w, m2, start, co) = GrowingAt(w, m, start, co)
        <5>1. DOMAIN m = 0..w /\ m[x] # "S" /\ "f" # "S" /\ Put(m2, m, x, "f")
          BY <1>1, <4>1
        <5> QED BY ONLY <5>1, w \in Nat, x \in 0..w, GrowMark
      <4> QED BY <1>1, <4>2, <4>3 DEF Becomes, GrowingIn
    <3> QED BY <1>7, <3>1, <3>2
  <2> QED BY <1>6, <2>1, <2>2 DEF Redraws, Leaves
<1>8. CASE s.cs = "OBJECT" /\ s.ps = "COMPLETE"
  <2>1. PICK m2 : m2 = [s.marker EXCEPT ![s.x] = "F"] /\ Put(m2, m, x, "F")
    BY <1>1 DEF Put
  <2>2. Becomes(s, t, m2, s.start, s.end, SubSeq(s.psstack, 1, Len(s.psstack) - 1), s.co - 1,
                      s.psstack[Len(s.psstack)], "NONOBJECT")
    BY <1>1, <1>3, <1>5, <1>8, <2>1, EndSegmentDoes
  <2>3. PICK store : store = [s.store EXCEPT ![s.start[s.co]] = s.info[s.co]]
    OBVIOUS
  <2>4. Holds(s, t, s.info, store, s.nextpix, s.free, s.curpix)
    BY <1>3, <1>8, <2>3, EndSegmentCells
  <2>5. t.co = co - 1 /\ t.marker = m2 /\ t.start = start
    BY <1>1, <2>2 DEF Becomes
  <2>6. Put(store, s.store, start[co], s.info[co]) /\ Put(m2, m, x, "F")
    BY <1>1, <2>1, <2>3 DEF Put
  <2>7. /\ start[co] \in 0..w /\ m[start[co]] = "S" /\ m[x] # "S" /\ co \in 1..w
        /\ \A i \in 1..(co - 1) : start[i] # start[co]
    BY <1>1, <1>5, <1>8
  <2>8. /\ DOMAIN m = 0..w /\ s.co = co /\ s.marker = m /\ s.start = start /\ Cellular(s, w, n, {}, B)
        /\ <<"store", s.x>> \notin {} /\ P = GrowingIn(w, s) \union {} /\ P2 = GrowingIn(w, t) \union {}
    BY <1>1
  <2>9. PutsStore(R, R2, w, start[co], R[<<"info", co>>])
    BY <1>1, <1>8 DEF EndPuts
  <2>10. Redraws(s, t, w, n, P, P2, R, R2)
    BY ONLY <2>4, <2>5, <2>6, <2>7, <2>8, <2>9, w \in Nat, n \in Nat \ {0}, x \in 0..w,
       SuspendRedraws
  <2> QED BY <1>6, <2>10
<1> QED BY <1>7, <1>8

(* The pixel before this one is lit exactly when a run goes on. *)
LEMMA RunHere ==
  ASSUME NEW T, NEW y, NEW m, NEW start, NEW end, NEW cs, NEW co \in Nat, NEW X \in Nat, NEW R,
         Sees(T, y, m, start, end, cs, co, X, X, R), <<-1, y>> \notin T
  PROVE  <<X - 1, y>> \in T <=> cs = "OBJECT"
<1>1. PICK h, n, lev :
        /\ Draws(m, start, end, cs, co, X, h, n, lev)
        /\ Drawn(T, y, n, 0, X - 1)
  BY DEF Sees
<1>2. n[X] = InRun(cs) /\ n[0] = 0
  BY <1>1 DEF Draws, Regions, Line
<1>3. CASE X = 0
  <2>1. X - 1 = -1 /\ n[X] = 0
    BY <1>2, <1>3
  <2> QED BY <1>2, <2>1 DEF InRun
<1>4. CASE X # 0
  <2>1. PICK d : d = X - 1 /\ d \in 0..(X - 1) /\ d + 1 = X
    BY <1>4
  <2>2. <<d, y>> \in T <=> n[X] = 1
    BY <1>1, <2>1 DEF Drawn
  <2> QED BY <1>2, <2>1, <2>2 DEF InRun
<1> QED BY <1>3, <1>4

(* How the innermost open region of a run comes to be there. *)
Rooted(s, x, y, R) ==
  s.cs = "OBJECT" => R[<<"info", s.co>>] = {} \/ <<x - 1, y>> \in R[<<"info", s.co>>] \/ s.ps = "OBJECT"

(* It is so while the run goes on, ... *)
LEMMA RootedRun ==
  ASSUME NEW w \in Nat, NEW s, Inside(s, w), NEW x \in 0..w, NEW T, NEW y, <<-1, y>> \notin T,
         NEW mr, NEW R,
         Tells(s, w, T, y, mr, x, x, x, R)
  PROVE  /\ <<x - 1, y>> \in T <=> s.cs = "OBJECT"
         /\ Rooted(s, x, y, R)
<1>1. s.co \in Nat /\ s.cs \in {"OBJECT", "NONOBJECT"} /\ x \in Nat
  BY DEF Inside
<1>2. Sees(T, y, s.marker, s.start, s.end, s.cs, s.co, x, x, R)
  BY DEF Tells
<1>3. <<x - 1, y>> \in T <=> s.cs = "OBJECT"
  BY <1>1, <1>2, RunHere
<1>4. ASSUME s.cs = "OBJECT" PROVE <<x - 1, y>> \in R[<<"info", s.co>>]
  <2>1. <<x - 1, y>> \in T
    BY <1>3, <1>4
  <2>2. x # 0
    <3>1. x = 0 => x - 1 = -1
      OBVIOUS
    <3> QED BY <2>1, <3>1
  <2>3. x \in Nat \ {0}
    BY <1>1, <2>2
  <2>4. Sees(T, y, s.marker, s.start, s.end, "OBJECT", s.co, x, x, R)
    BY <1>2, <1>4
  <2> QED BY <1>1, <2>1, <2>3, <2>4, LastInRun
<1> QED BY <1>3, <1>4 DEF Rooted

(* ... and when it begins. *)
LEMMA RootedStart ==
  ASSUME NEW w \in Nat, NEW s, Inside(s, w), NEW x \in 0..w, s.x = x, s.marker[x] = "none",
         NEW T, NEW y, <<-1, y>> \notin T, NEW mr, NEW R, Tells(s, w, T, y, mr, x, x, x, R),
         NEW t, t = StartSegment(s), NEW R2,
         StartPuts(s, w, R, R2), s.cs # "OBJECT" /\ s.ps # "OBJECT" => s.co < w
  PROVE  Rooted(t, x, y, R2)
<1>1. LineFields \subseteq DOMAIN s /\ s.co \in 0..w
  BY DEF Inside, HasLine
<1>2. CASE s.cs = "OBJECT"
  <2>1. t = s /\ R2 = R
    BY <1>2 DEF StartSegment, StartPuts
  <2> QED BY <2>1, RootedRun
<1>3. CASE s.cs # "OBJECT" /\ s.ps # "OBJECT"
  <2>1. PICK k : k = s.co + 1
    OBVIOUS
  <2>2. t.co = k
    <3>1. PICK m2, start2 : m2 = [s.marker EXCEPT ![s.x] = "S"] /\ start2 = [s.start EXCEPT ![s.co + 1] = s.x]
      OBVIOUS
    <3>2. Becomes(s, t, m2, start2, s.end, Append(s.psstack, s.ps), s.co + 1, "COMPLETE", "OBJECT")
      BY <1>1, <1>3, <3>1, StartSegmentDoes
    <3> QED BY <2>1, <3>2 DEF Becomes
  <2>3. R2[<<"info", k>>] = {}
    BY <1>3, <2>1 DEF StartPuts, PutsInfo, Puts
  <2> QED BY <2>2, <2>3 DEF Rooted
<1>4. CASE s.cs # "OBJECT" /\ s.ps = "OBJECT"
  <2>1. t.ps = "OBJECT"
    BY <1>1, <1>4 DEF StartSegment, LineFields
  <2> QED BY <2>1 DEF Rooted
<1> QED BY <1>2, <1>3, <1>4

(* Regions that meet at a marker touch. *)
LEMMA MarkerMeets ==
  ASSUME NEW w \in Nat, NEW t, Inside(t, w), NEW x \in 0..w, t.x = x, NEW T, NEW y \in Int,
         NEW mr, NEW X, NEW R,
         Tells(t, w, T, y, mr, X, x, x, R), Rooted(t, x, y, R),
         mr[x] = "s" /\ t.cs = "OBJECT" /\ t.ps = "COMPLETE" => t.co # 0 /\ t.co - 1 # 0
  PROVE  Meet(t, mr[x], R)
<1>1. PICK z, mark, a, p, q : /\ z = y - 1 /\ mark = mr[x] /\ a = <<"info", t.co>> /\ p = <<x - 1, y>> /\ q = <<x, z>>
  OBVIOUS
<1>2. Touch(p, q) /\ Touch(q, p)
  BY <1>1 DEF Touch, Near
<1>3. Recalls(T, z, mr, t.psstack, t.ps, t.cs, t.co, x, w, R)
  BY <1>1 DEF Tells
<1>4. /\ mark = "S" => q \in R[<<"store", x>>] /\ t.ps # "OBJECT"
      /\ mark = "s" /\ t.ps = "COMPLETE" /\ t.co # 0 /\ t.co - 1 # 0 => q \in R[<<"info", t.co - 1>>]
  <2>1. t.co \in Nat /\ IsStack(t.psstack) /\ w \in Nat /\ x \in 0..w
    BY DEF Inside
  <2>2. /\ mr[x] = "S" => <<x, z>> \in R[<<"store", x>>] /\ t.ps # "OBJECT"
        /\ mr[x] = "s" /\ t.ps = "COMPLETE" /\ t.co # 0 /\ t.co - 1 # 0 => <<x, z>> \in R[<<"info", t.co - 1>>]
    BY ONLY <1>3, <2>1, MarkAbove
  <2> QED BY ONLY <1>1, <2>2
<1>5. t.cs = "OBJECT" => R[a] = {} \/ p \in R[a] \/ t.ps = "OBJECT"
  BY <1>1 DEF Rooted
<1>6. ASSUME mark = "S", t.cs = "OBJECT" PROVE Joins(R[a], R[<<"store", t.x>>]) \/ t.x # x
  BY <1>2, <1>4, <1>5, <1>6 DEF Joins
<1>7. ASSUME mark = "s", t.cs = "OBJECT", t.ps = "COMPLETE" PROVE Joins(R[<<"info", t.co - 1>>], R[a])
  <2>1. q \in R[<<"info", t.co - 1>>]
    BY <1>1, <1>4, <1>7
  <2> QED BY <1>2, <1>5, <1>7, <2>1 DEF Joins
<1>8. t.x = x
  OBVIOUS
<1> QED BY <1>1, <1>6, <1>7, <1>8 DEF Meet

(* The lit neighbours that can no longer be separated are in the open region. *)
LEMMA RunsMeet ==
  ASSUME NEW w \in Nat, NEW u, Inside(u, w), NEW x \in 0..w, NEW T,
         NEW y \in Int, <<-1, y>> \notin T, NEW mr,
         NEW X, X = x \/ X = x + 1, NEW R, Tells(u, w, T, y, mr, X, x, x + 1, R), u.cs = "OBJECT"
  PROVE  /\ <<x - 1, y>> \in T => <<x - 1, y>> \in R[<<"info", u.co>>]
         /\ <<x, y - 1>> \in T => <<x, y - 1>> \in R[<<"info", u.co>>]
<1>1. u.co \in Nat /\ x \in Nat /\ X \in Nat /\ IsStack(u.psstack)
  BY DEF Inside
<1>2. ASSUME <<x - 1, y>> \in T PROVE <<x - 1, y>> \in R[<<"info", u.co>>]
  <2>1. x # 0
    <3>1. x = 0 => x - 1 = -1
      OBVIOUS
    <3> QED BY <1>2, <3>1
  <2>2. x \in Nat \ {0}
    BY <1>1, <2>1
  <2>3. Sees(T, y, u.marker, u.start, u.end, "OBJECT", u.co, X, x, R)
    BY DEF Tells
  <2> QED BY <1>1, <1>2, <2>2, <2>3, LastInRun
<1>3. ASSUME <<x, y - 1>> \in T PROVE <<x, y - 1>> \in R[<<"info", u.co>>]
  <2>1. PICK z, x1 : z = y - 1 /\ x1 = x + 1 /\ x1 \in 0..(w + 1) /\ x1 - 1 = x
    OBVIOUS
  <2>2. Recalls(T, z, mr, u.psstack, u.ps, u.cs, u.co, x1, w, R)
    BY <2>1 DEF Tells
  <2>3. /\ <<x1 - 1, z>> \in T <=> u.ps = "OBJECT"
        /\ u.ps = "OBJECT" => <<x1 - 1, z>> \in R[<<"info", u.co>>]
    BY ONLY <1>1, <2>1, <2>2, w \in Nat, LastAbove
  <2> QED BY <1>3, <2>1, <2>3
<1> QED BY <1>2, <1>3

(* No lit pixel before this one, nor above it: the marker changes nothing. *)
LEMMA AloneAtMarker ==
  ASSUME NEW w \in Nat, NEW t, Inside(t, w), NEW x \in 0..w, NEW T, NEW y \in Int, NEW mr, NEW X,
         NEW R,
         Tells(t, w, T, y, mr, X, x, x, R),
         Rooted(t, x, y, R), t.cs = "OBJECT", R[<<"info", t.co>>] \subseteq T,
         <<x - 1, y>> \notin T, <<x, y - 1>> \notin T,
         NEW minarea, NEW u, u = NewMarker(t, mr[x], minarea), NEW R2,
         MarkerPuts(t, w, x, mr[x], R, R2)
  PROVE  /\ R2[<<"info", u.co>>] = {} \/ <<x - 1, y - 1>> \in R2[<<"info", u.co>>]
         /\ <<x - 1, y - 1>> \in T => <<x - 1, y - 1>> \in R2[<<"info", u.co>>]
<1>1. PICK z, mark, a : z = y - 1 /\ mark = mr[x] /\ a = <<"info", t.co>>
  OBVIOUS
<1>2. Recalls(T, z, mr, t.psstack, t.ps, t.cs, t.co, x, w, R)
  BY <1>1 DEF Tells
<1>3. t.co \in Nat /\ IsStack(t.psstack) /\ x \in 0..(w + 1) /\ LineFields \subseteq DOMAIN t
  BY DEF Inside, HasLine
<1>4. mark \in {"none", "f", "F"}
  BY <1>3, <1>1, <1>2, MarkAbove
<1>5. /\ <<x - 1, z>> \in T <=> t.ps = "OBJECT"
      /\ t.ps = "OBJECT" => <<x - 1, z>> \in R[a]
  <2>1. /\ <<x - 1, z>> \in T <=> t.ps = "OBJECT"
        /\ t.ps = "OBJECT" => <<x - 1, z>> \in R[<<"info", t.co>>]
    BY ONLY <1>3, <1>2, w \in Nat, LastAbove
  <2> QED BY <1>1, <2>1
<1>6. R[a] = {} \/ t.ps = "OBJECT"
  BY <1>1 DEF Rooted
<1>7. R2 = R
  BY <1>1, <1>4 DEF MarkerPuts, TopCase
<1>8. u.co = t.co
  <2>1. CASE mark = "none"
    BY <1>1, <2>1 DEF NewMarker
  <2>2. CASE mark = "f"
    BY <1>3, <1>1, <2>2 DEF NewMarker, LineFields
  <2>3. CASE mark = "F"
    BY <1>3, <1>1, <2>3 DEF NewMarker, MarkerF, Pop, Popped, LineFields
  <2> QED BY <1>4, <2>1, <2>2, <2>3
<1> QED BY <1>1, <1>5, <1>6, <1>7, <1>8

(* The pixels visited before <<x, y>>. *)
Reached(T, x, y) == {p \in T : p[2] < y \/ (p[2] = y /\ p[1] < x)}

(* The two pixels that may belong to different regions that will meet. *)
Corner(x, y) == {<<x - 1, y>>, <<x, y - 1>>}

(* The neighbours of a pixel that come before it. *)
LEMMA NeighboursBefore ==
  ASSUME NEW T \in SUBSET Cells, NEW x \in Int, NEW y \in Int, NEW q \in Reached(T, x, y),
         Touch(<<x, y>>, q)
  PROVE  q \in {<<x - 1, y>>, <<x - 1, y - 1>>, <<x, y - 1>>, <<x + 1, y - 1>>}
<1>1. PICK i \in Int, j \in Int : q = <<i, j>> /\ q \in T
  BY DEF Reached, Cells
<1>2. x - i \in {-1, 0, 1} /\ y - j \in {-1, 0, 1} /\ (j < y \/ (j = y /\ i < x))
  BY <1>1 DEF Touch, Near, Reached
<1> QED BY <1>1, <1>2

(* What is known of a pixel's neighbours when the marker is followed. *)
FitsHere(T, x, y, A) ==
  /\ <<x - 1, y>> \in T => <<x - 1, y>> \in A
  /\ <<x, y - 1>> \in T => <<x, y - 1>> \in A
  /\ <<x - 1, y>> \notin T /\ <<x, y - 1>> \notin T =>
       /\ A = {} \/ <<x - 1, y - 1>> \in A
       /\ <<x - 1, y - 1>> \in T => <<x - 1, y - 1>> \in A

(* The pixel <<x, y>> may join the region A: what it touches of S is in A, *)
(* or may still turn out to be of the same region at the next position.    *)
FitsAll(S, x, y, A) == /\ Joins(A, {<<x, y>>})
                       /\ \A q \in S : Touch(<<x, y>>, q) => q \in A \/ q \in Corner(x + 1, y)

(* So the pixel touches its region and nothing else that was seen. *)
LEMMA PixelFits ==
  ASSUME NEW T \in SUBSET Cells, NEW x \in Int, NEW y \in Int, NEW R, NEW Q,
         NEW S, S = Reached(T, x, y),
         Shapes(R, Q, S, {}), NEW a \in Q, FitsHere(T, x, y, R[a])
  PROVE  FitsAll(S, x, y, R[a])
<1>0. /\ <<x - 1, y>> \in T => <<x - 1, y>> \in R[a]
      /\ <<x, y - 1>> \in T => <<x, y - 1>> \in R[a]
      /\ <<x - 1, y>> \notin T /\ <<x, y - 1>> \notin T =>
           /\ R[a] = {} \/ <<x - 1, y - 1>> \in R[a]
           /\ <<x - 1, y - 1>> \in T => <<x - 1, y - 1>> \in R[a]
  BY DEF FitsHere
<1> USE <1>0
<1>1. PICK p, l, d, u, r : p = <<x, y>> /\ l = <<x - 1, y>> /\ d = <<x - 1, y - 1>> /\ u = <<x, y - 1>> /\ r = <<x + 1, y - 1>>
  OBVIOUS
<1>2. Touch(l, p) /\ Touch(d, p) /\ Touch(u, p) /\ Touch(l, d) /\ Touch(u, d)
  BY <1>1 DEF Touch, Near
<1>3. Joins(R[a], {p})
  BY <1>1, <1>2 DEF Joins
<1>4. ASSUME NEW q \in S, Touch(p, q) PROVE q \in R[a] \/ q \in Corner(x + 1, y)
  <2>1. q \in {l, d, u, r} /\ q \in T
    BY <1>1, <1>4, NeighboursBefore DEF Reached
  <2>2. r \in Corner(x + 1, y)
    <3>1. r = <<x + 1, y - 1>>
      BY <1>1
    <3> QED BY <3>1 DEF Corner
  <2>3. ASSUME q = d, l \in R[a] \/ u \in R[a] PROVE q \in R[a]
    <3>1. \A e \in R[a] : Touch(e, q) => q \in R[a]
      BY DEF Shapes, Shut
    <3> QED BY <1>2, <2>3, <3>1
  <2> QED BY <1>1, <2>1, <2>2, <2>3
<1> QED BY <1>1, <1>3, <1>4 DEF FitsAll

(* The parts of a visit that complete no region. *)
LEMMA TakeOutcome ==
  ASSUME NEW s, Fields \subseteq DOMAIN s, NEW truncated, NEW t, t = TakeCell(s, truncated)
  PROVE  t.y = s.y /\ t.ready = s.ready /\ t.object = s.object
BY DEF TakeCell, Fields, AllFields, LineFields, CellFields

(* The part of a visit that adds the new pixel to its region. *)
LEMMA UpdateOutcome ==
  ASSUME NEW s, Fields \subseteq DOMAIN s, NEW i, NEW b, NEW t, t = Update(s, i, b)
  PROVE  t.y = s.y /\ t.pix = s.pix /\ t.ready = s.ready /\ t.object = s.object
BY DEF Update, Fields, AllFields, LineFields, CellFields

(* The part of a visit that starts a run. *)
LEMMA StartOutcome ==
  ASSUME NEW s, Fields \subseteq DOMAIN s, NEW t, t = StartSegment(s)
  PROVE  t.y = s.y /\ t.ready = s.ready /\ t.object = s.object
<1>1. /\ "y" \in DOMAIN s /\ "ready" \in DOMAIN s /\ "object" \in DOMAIN s /\ LineFields \subseteq DOMAIN s
      /\ "info" \in DOMAIN s
  BY DEF Fields, AllFields, CellFields
<1>2. CASE s.cs = "OBJECT"
  BY <1>2 DEF StartSegment
<1>3. CASE s.cs # "OBJECT" /\ s.ps # "OBJECT"
  BY <1>1, <1>3 DEF StartSegment, Push, LineFields
<1>4. CASE s.cs # "OBJECT" /\ s.ps = "OBJECT" /\ s.start[s.co] = UNKNOWN
  BY <1>1, <1>4 DEF StartSegment, LineFields
<1>5. CASE s.cs # "OBJECT" /\ s.ps = "OBJECT" /\ s.start[s.co] # UNKNOWN
  BY <1>1, <1>5 DEF StartSegment, LineFields
<1> QED BY <1>2, <1>3, <1>4, <1>5

-----------------------------------------------------------------------------
(* Pixels of an image of w + 1 columns. *)
OnGrid(T, w) == /\ T \in SUBSET Cells
                /\ \A y : <<-1, y>> \notin T /\ <<w, y>> \notin T
                /\ \A x : <<x, -1>> \notin T
                /\ \A p \in T : p[1] \in 0..(w - 1)

(* The scan s has visited all before its position, holds R, and says       *)
(* nothing that T contradicts.                                             *)
AtTop(s, w, n, T, O, R) ==
  /\ LineInv(s, w) /\ Cellular(s, w, n, {}, {}) /\ s.y \in Nat /\ DOMAIN s.pix = 0..n-1
  /\ Tells(s, w, T, s.y, s.marker, s.x, s.x, s.x, R)
  /\ Pictured(s, n, O, GrowingIn(w, s), Reached(T, s.x, s.y), Corner(s.x, s.y), R)

(* The scan before the marker is followed. *)
AtMarker(t, w, n, T, O, mr, lit, x, X, y, E, B, S, D, R) ==
  /\ Tells(t, w, T, y, mr, X, x, x, R) /\ Rooted(t, x, y, R)
  /\ Pictured(t, n, O, GrowingIn(w, t) \union E, S, D, R) /\ Cellular(t, w, n, E, B)
  /\ ~lit => B = {}
  /\ lit => R[Cur] = {<<x, y>>}
  /\ DOMAIN t.pix = 0..n-1 /\ t.y = y /\ t.ready = Blank /\ t.object = <<>>

(* The scan k, whose pixel has taken its cell. *)
Taken(k, w, n, T, O, mr, x, y, E, S, D, R) ==
  /\ Tells(k, w, T, y, mr, x, x, x, R)
  /\ Pictured(k, n, O, GrowingIn(w, k) \union E, S, D, R)
  /\ Cellular(k, w, n, E, {})
  /\ R[Cur] = {<<x, y>>}
  /\ DOMAIN k.pix = 0..n-1 /\ k.y = y /\ k.ready = Blank /\ k.object = <<>>

(* What taking a cell leads to. *)
TakenAs(c, k, w, n, T, O, mr, x, y, E, E2, S, D, R) ==
  \E R2 : /\ Taken(k, w, n, T, O, mr, x, y, E2, S, D, R2)
          /\ Total(R2, GrowingIn(w, k) \union E2) = Total(R, GrowingIn(w, c) \union E)

(* The flag of a pixel: it lies on the border O. *)
Edge(truncated, p, O) == truncated = (p \in O)

(* A cell is taken. *)
LEMMA VisitTakes ==
  ASSUME NEW w \in Nat, NEW n \in Nat \ {0}, NEW T, NEW O, NEW mr, NEW x \in 0..w, NEW y \in Nat,
         NEW E, Cur \notin E,
         NEW S, NEW D, NEW R, <<x, y>> \notin S, NEW B, NEW c, Inside(c, w), c.x = x, Known(c, x),
         AtMarker(c, w, n, T, O, mr, FALSE, x, x, y, E, B, S, D, R), c.nextpix[c.free] # n - 1,
         NEW truncated, Edge(truncated, <<x, y>>, O), NEW k, k = TakeCell(c, truncated),
         Same(c, k), NEW E2, E2 = E \union {Cur}
  PROVE  TakenAs(c, k, w, n, T, O, mr, x, y, E, E2, S, D, R)
<1>0. truncated = (<<x, y>> \in O)
  BY DEF Edge
<1>1. PICK P, P2, p, G : P = GrowingIn(w, c) \union E /\ P2 = P \union {Cur} /\ p = <<x, y>> /\ G = GrowingIn(w, c)
  OBVIOUS
<1>2. /\ Tells(c, w, T, y, mr, x, x, x, R) /\ Pictured(c, n, O, P, S, D, R) /\ Cellular(c, w, n, E, {})
      /\ DOMAIN c.pix = 0..n-1 /\ c.y = y /\ c.ready = Blank /\ c.object = <<>>
  BY <1>1 DEF AtMarker
<1>3. PICK R2 : Puts(R, R2, w, Cur, {p})
  BY PutsExists
<1>4. /\ Fields \subseteq DOMAIN c /\ AllFields \subseteq DOMAIN c /\ "pix" \in DOMAIN c
      /\ Accounts(c, w, n, P \union {Free}, {}) /\ E \subseteq {<<"store", c.x>>, Cur}
  BY <1>1, <1>2 DEF Cellular, Fields
<1>5. Free \notin P /\ Cur \notin P
  <2>1. Free \notin G /\ Cur \notin G
    BY <1>1, GrowingPlaces DEF GrowingIn
  <2>2. Free \notin E
    BY <1>4, PlainPlaces
  <2> QED BY <1>1, <2>1, <2>2
<1>6. DOMAIN c.pix = DOMAIN c.nextpix
  BY <1>2, <1>4 DEF Accounts
<1>7. /\ Pictured(k, n, O, P2, S, D, R2) /\ Total(R2, P2) = Total(R, P) /\ R2[Cur] = {p}
      /\ DOMAIN k.pix = DOMAIN c.pix
  <2>1. p = <<c.x, c.y>> /\ p \notin S
    BY <1>1, <1>2
  <2>2. Takes(c, w, n, P, O, S, D, R, p, truncated, k, R2, P2)
    BY <1>0, <1>1, <1>2, <1>3, <1>4, <1>5, <1>6, <2>1 DEF Takes
  <2> QED BY <2>2, TakenPicture
<1>8. Cellular(k, w, n, E \union {Cur}, {})
  BY <1>2, CellsTake
<1>9. GrowingIn(w, k) = G /\ P2 = GrowingIn(w, k) \union (E \union {Cur})
  BY <1>1 DEF Same, Becomes, GrowingIn
<1>10. Tells(k, w, T, y, mr, x, x, x, R2)
  <2>1. c.co \in 0..w /\ x \in 0..(w + 1) /\ x \in 0..x
    BY DEF Inside
  <2>2. R[Cur] \subseteq {p} => Holdings(R, R2, w, c.co)
    BY <1>3, <2>1, PutsHoldings
  <2>3. Holdings(R, R2, w, c.co)
    <3>1. /\ \A i \in 0..w : <<"info", i>> # Cur => R2[<<"info", i>>] = R[<<"info", i>>]
          /\ \A i \in 0..w : <<"store", i>> # Cur => R2[<<"store", i>>] = R[<<"store", i>>]
      BY <1>3, <2>1, PutsHoldings
    <3>2. \A j \in 1..c.co : j \in 0..w
      BY <2>1
    <3> QED BY <3>1, <3>2, PlainPlaces DEF Holdings
  <2> QED BY <1>2, <2>1, <2>3, TellsMore
<1>11. k.y = y /\ k.ready = Blank /\ k.object = <<>>
  BY <1>2, <1>4, TakeOutcome
<1>12. Taken(k, w, n, T, O, mr, x, y, E2, S, D, R2)
  BY <1>1, <1>2, <1>7, <1>8, <1>9, <1>10, <1>11 DEF Taken
<1>13. Total(R2, GrowingIn(w, k) \union E2) = Total(R, GrowingIn(w, c) \union E)
  BY <1>1, <1>7, <1>9
<1> QED BY <1>12, <1>13 DEF TakenAs

(* The scan s with its marker taken. *)
ClearedAs(s, c, w, n, T, O, x, y, E, R) ==
  /\ AtMarker(c, w, n, T, O, s.marker, FALSE, x, x, y, E, {}, Reached(T, x, y), Corner(x, y), R)
  /\ GrowingIn(w, c) \union E = GrowingIn(w, s)
  /\ SameCells(s, c)
  /\ <<x - 1, y>> \in T <=> c.cs = "OBJECT"

(* The marker is taken. *)
LEMMA VisitClears ==
  ASSUME NEW w \in Nat, NEW n \in Nat \ {0}, NEW T, OnGrid(T, w), NEW O, NEW s, NEW R,
         AtTop(s, w, n, T, O, R),
         NEW x, x = s.x, NEW y, y = s.y, NEW c, c = Cleared(s), NEW E, LeavesAt(s, E)
  PROVE  ClearedAs(s, c, w, n, T, O, x, y, E, R)
<1> DEFINE mr == s.marker
<1>0. E = IF s.marker[s.x] = "S" THEN {<<"store", s.x>>} ELSE {}
  BY DEF LeavesAt
<1>1. /\ Inside(s, w) /\ Known(s, s.x) /\ Cellular(s, w, n, {}, {}) /\ DOMAIN s.pix = 0..n-1
      /\ Tells(s, w, T, y, mr, x, x, x, R)
      /\ Pictured(s, n, O, GrowingIn(w, s), Reached(T, x, y), Corner(x, y), R)
  BY DEF AtTop, LineInv
<1>2. PICK P : P = GrowingIn(w, s)
  OBVIOUS
<1>3. /\ SameCells(s, c) /\ c.pix = s.pix /\ c.y = s.y /\ c.ready = Blank /\ c.object = <<>>
      /\ GrowingIn(w, c) \union E = P
  BY <1>1, <1>2, ClearRedraws
<1>4. Cellular(c, w, n, E, {})
  BY <1>0, <1>1, CellsCleared
<1>5. Tells(c, w, T, y, mr, x, x, x, R)
  BY <1>1, TellsCleared
<1>6. c.x = x /\ Inside(c, w)
  BY <1>1, ClearedKeeps
<1>7. /\ <<x - 1, y>> \in T <=> c.cs = "OBJECT"
      /\ Rooted(c, x, y, R)
  <2>1. x \in 0..w /\ <<-1, y>> \notin T
    BY <1>1 DEF Inside, OnGrid
  <2> QED BY <1>5, <1>6, <2>1, RootedRun
<1>8. Pictured(c, n, O, P, Reached(T, x, y), Corner(x, y), R)
  <2>1. Free \notin P /\ Accounts(s, w, n, P \union {Free}, {})
    <3>1. Free \notin P
      BY <1>2, GrowingPlaces DEF GrowingIn
    <3>2. GrowingIn(w, s) \union {} \union {Free} = P \union {Free}
      BY <1>2
    <3> QED BY <1>1, <3>1, <3>2 DEF Cellular
  <2>2. Redraws(s, c, w, n, P, P, R, R)
    BY <1>3 DEF Redraws, Leaves
  <2>3. c.pix = s.pix /\ Pictured(s, n, O, P, Reached(T, x, y), Corner(x, y), R)
    BY <1>1, <1>2, <1>3
  <2> QED BY ONLY <2>1, <2>2, <2>3, w \in Nat, n \in Nat \ {0}, RedrawsPicture
<1>9. AtMarker(c, w, n, T, O, mr, FALSE, x, x, y, E, {}, Reached(T, x, y), Corner(x, y), R)
  BY <1>1, <1>2, <1>3, <1>4, <1>5, <1>7, <1>8 DEF AtMarker
<1> QED BY <1>2, <1>3, <1>7, <1>9 DEF ClearedAs

(* What starting a segment leads to. *)
BegunAs(k, t, w, n, T, O, mr, x, y, E, S, D, R) ==
  \E R2, B : /\ AtMarker(t, w, n, T, O, mr, TRUE, x, x + 1, y, E, B, S, D, R2)
             /\ Total(R2, GrowingIn(w, t) \union E) = Total(R, GrowingIn(w, k) \union E)

(* The segment is started. *)
LEMMA VisitBegins ==
  ASSUME NEW w \in Nat, NEW n \in Nat \ {0}, NEW T, OnGrid(T, w), NEW O, NEW mr, NEW x \in 0..w,
         NEW y \in Nat, NEW E,
         NEW S, NEW D, NEW R,
         NEW k, Inside(k, w), k.x = x,
         Known(k, x), k.marker[x] = "none", k.cs # "OBJECT" /\ k.ps # "OBJECT" => k.co < w,
         Taken(k, w, n, T, O, mr, x, y, E, S, D, R), NEW t, t = StartSegment(k)
  PROVE  BegunAs(k, t, w, n, T, O, mr, x, y, E, S, D, R)
<1>0. /\ Tells(k, w, T, y, mr, x, x, x, R) /\ Pictured(k, n, O, GrowingIn(w, k) \union E, S, D, R)
      /\ Cellular(k, w, n, E, {}) /\ R[Cur] = {<<x, y>>} /\ DOMAIN k.pix = 0..n-1
      /\ k.y = y /\ k.ready = Blank /\ k.object = <<>>
  BY DEF Taken
<1>1. \E R2 : StartPuts(k, w, R, R2)
  <2>1. PICK i : i = k.co + 1
    OBVIOUS
  <2>2. \E R2 : PutsInfo(R, R2, w, i, {})
    BY PutsExists DEF PutsInfo
  <2>3. CASE k.cs # "OBJECT" /\ k.ps # "OBJECT"
    BY <2>1, <2>2, <2>3 DEF StartPuts
  <2>4. CASE ~(k.cs # "OBJECT" /\ k.ps # "OBJECT")
    BY <2>4 DEF StartPuts
  <2> QED BY <2>3, <2>4
<1>2. PICK R2 : StartPuts(k, w, R, R2)
  BY <1>1
<1>3. PICK B : Cellular(t, w, n, E, B)
  BY <1>0, CellsStart
<1>4. PICK P, P2 : P = GrowingIn(w, k) \union E /\ P2 = GrowingIn(w, t) \union E
  OBVIOUS
<1>5. Redraws(k, t, w, n, P, P2, R, R2) /\ t.pix = k.pix
  <2>1. /\ Inside(k, w) /\ k.marker[k.x] = "none" /\ (k.cs # "OBJECT" /\ k.ps # "OBJECT" => k.co < w)
        /\ Cellular(k, w, n, E, {}) /\ t = StartSegment(k) /\ StartPuts(k, w, R, R2)
        /\ GrowsTo(k, t, w, E, P, P2)
    BY <1>0, <1>2, <1>4 DEF GrowsTo
  <2> QED BY ONLY <2>1, w \in Nat, n \in Nat \ {0}, StartRedraws
<1>6. Free \notin P /\ Accounts(k, w, n, P \union {Free}, {})
  <2>1. Free \notin GrowingIn(w, k)
    BY GrowingPlaces DEF GrowingIn
  <2>2. E \subseteq {<<"store", k.x>>, Cur} /\ Accounts(k, w, n, GrowingIn(w, k) \union E \union {Free}, {})
    BY <1>0 DEF Cellular
  <2> QED BY <1>4, <2>1, <2>2, PlainPlaces
<1>7. Pictured(t, n, O, P2, S, D, R2) /\ Total(R2, P2) = Total(R, P)
  <2>1. Pictured(k, n, O, P, S, D, R)
    BY <1>0, <1>4
  <2> QED BY ONLY <1>5, <1>6, <2>1, w \in Nat, n \in Nat \ {0}, RedrawsPicture
<1>8. Tells(t, w, T, y, mr, x + 1, x, x, R2)
  <2>1. /\ k.cs # "OBJECT" /\ k.ps # "OBJECT" => Puts(R, R2, w, <<"info", k.co + 1>>, {})
        /\ ~(k.cs # "OBJECT" /\ k.ps # "OBJECT") => R2 = R
    BY <1>2 DEF StartPuts, PutsInfo
  <2>2. /\ Inside(k, w) /\ Known(k, k.x) /\ k.marker[k.x] = "none" /\ (k.cs # "OBJECT" /\ k.ps # "OBJECT" => k.co < w)
        /\ Tells(k, w, T, y, mr, k.x, k.x, k.x, R) /\ t = StartSegment(k)
    BY <1>0
  <2>3. Tells(t, w, T, y, mr, k.x + 1, k.x, k.x, R2)
    BY ONLY <2>1, <2>2, w \in Nat, TellsStart
  <2> QED BY <2>3
<1>9. Rooted(t, x, y, R2)
  <2>1. <<-1, y>> \notin T
    BY DEF OnGrid
  <2> QED BY <1>0, <1>2, <2>1, RootedStart
<1>10. R2[Cur] = R[Cur]
  <2>1. CASE k.cs # "OBJECT" /\ k.ps # "OBJECT"
    <3>1. Puts(R, R2, w, <<"info", k.co + 1>>, {})
      BY <1>2, <2>1 DEF StartPuts, PutsInfo
    <3>2. Cur \in Names(w) /\ Cur # <<"info", k.co + 1>>
      BY PlainPlaces DEF Names
    <3> QED BY <3>1, <3>2 DEF Puts
  <2>2. CASE ~(k.cs # "OBJECT" /\ k.ps # "OBJECT")
    BY <1>2, <2>2 DEF StartPuts
  <2> QED BY <2>1, <2>2
<1>11. t.y = y /\ t.ready = Blank /\ t.object = <<>>
  <2>1. Fields \subseteq DOMAIN k
    BY <1>0 DEF Cellular
  <2> QED BY <1>0, <2>1, StartOutcome
<1>12. AtMarker(t, w, n, T, O, mr, TRUE, x, x + 1, y, E, B, S, D, R2)
  BY <1>0, <1>3, <1>4, <1>5, <1>7, <1>8, <1>9, <1>10, <1>11 DEF AtMarker
<1> QED BY <1>4, <1>7, <1>12 DEF BegunAs

(* A marker inside a region of the line above, at a run that met none: there is a region outside. *)
LEMMA OuterAtInner ==
  ASSUME NEW w \in Nat, NEW t, Inside(t, w), NEW g2, NEW a2,
         Turn("s", Depth(t), Under(t), g2, a2),
         t.cs = "OBJECT", t.ps = "COMPLETE"
  PROVE  t.co # 0 /\ t.co - 1 # 0
<1>1. PICK co \in 0..w : co = t.co /\ co \in Nat
  BY DEF Inside
<1>2. IsStack(t.psstack) /\ Framed(t.psstack, t.ps, t.cs, co)
  BY <1>1 DEF Inside
<1>3. co # 0
  BY <1>1, <1>2, FramedCount
<1>4. PICK st2 : st2 = SubSeq(t.psstack, 1, Len(t.psstack) - 1)
  OBVIOUS
<1>5. Len(t.psstack) - co # 0
  BY <1>1 DEF Depth, Turn
<1> QED BY <1>1, <1>2, <1>3, <1>4, <1>5, FramedClose

(* The scan after the marker is followed. *)
Followed(u, w, n, T, O, mr, lit, x, X, y, E, B, S, D, R) ==
  /\ Tells(u, w, T, y, mr, X, x, x + 1, R)
  /\ Pictured(u, n, O, GrowingIn(w, u) \union E, S, D, R) /\ Cellular(u, w, n, E, B)
  /\ ~lit => B = {}
  /\ lit => R[Cur] = {<<x, y>>}
  /\ DOMAIN u.pix = 0..n-1 /\ u.y = y

(* What following the marker does to the pixels held, V before and V2 after. *)
Delivers(t, u, mark, V, V2, R) ==
  /\ ~Completes(t, mark) => V2 = V /\ u.ready = Blank /\ u.object = <<>>
  /\ Completes(t, mark) => V2 = V \ R[<<"info", t.co>>] /\ t.cs # "OBJECT" /\ t.co \in 1..t.co

(* What following the marker leads to. *)
FollowedAs(t, u, w, n, T, O, mr, lit, x, X, y, E, E2, S, D, R) ==
  \E R2, B2 : /\ Followed(u, w, n, T, O, mr, lit, x, X, y, E2, B2, S, D, R2)
              /\ MarkerPuts(t, w, x, mr[x], R, R2)
              /\ Delivers(t, u, mr[x], Total(R, GrowingIn(w, t) \union E), Total(R2, GrowingIn(w, u) \union E2), R)

(* The marker is followed. *)
LEMMA VisitFollows ==
  ASSUME NEW w \in Nat, NEW n \in Nat \ {0}, NEW T, OnGrid(T, w), NEW O, NEW mr, NEW lit,
         NEW x \in 0..w, NEW y \in Nat,
         NEW X, X = (IF lit THEN x + 1 ELSE x), NEW E, NEW B, NEW S, NEW D, NEW R,
         NEW t, AtMarker(t, w, n, T, O, mr, lit, x, X, y, E, B, S, D, R),
         t.x = x, lit => t.cs = "OBJECT", Followable(t, w, X, mr[x], E, B),
         NEW minarea, NEW u, u = NewMarker(t, mr[x], minarea),
         NEW E2, E2 = E \ {<<"store", x>>}
  PROVE  FollowedAs(t, u, w, n, T, O, mr, lit, x, X, y, E, E2, S, D, R)
<1>1. PICK mark, P, P2 : mark = mr[x] /\ P = GrowingIn(w, t) \union E /\ P2 = GrowingIn(w, u) \union E2
  OBVIOUS
<1>2. PICK R2 : MarkerPuts(t, w, x, mark, R, R2)
  BY MarkerPutsExists
<1>3. PICK B2 : B2 \subseteq B /\ Cellular(u, w, n, E2, B2)
  <2>1. /\ Followable(t, w, X, mr[x], E, B) /\ Cellular(t, w, n, E, B) /\ E2 = E \ {<<"store", t.x>>}
        /\ u = NewMarker(t, mr[x], minarea)
    BY DEF AtMarker
  <2> QED BY ONLY <2>1, w \in Nat, n \in Nat \ {0}, CellsMarker
<1>4. PICK g2, a2 : Turn(mark, Depth(t), Under(t), g2, a2)
  BY <1>1 DEF Followable
<1>5. /\ Inside(t, w) /\ X \in 0..(w + 1) /\ Known(t, X)
      /\ t.cs # "OBJECT" /\ t.ps # "OBJECT" => t.co < w
      /\ t.cs # "OBJECT" => B = {}
      /\ Tells(t, w, T, y, mr, X, x, x, R) /\ Rooted(t, x, y, R)
      /\ Pictured(t, n, O, P, S, D, R) /\ Cellular(t, w, n, E, B)
  BY <1>1 DEF Followable, AtMarker
<1>6. Meet(t, mark, R)
  <2>1. mark = "s" /\ t.cs = "OBJECT" /\ t.ps = "COMPLETE" => t.co # 0 /\ t.co - 1 # 0
    BY <1>4, <1>5, OuterAtInner
  <2> QED BY <1>1, <1>5, <2>1, MarkerMeets
<1>7. /\ ~Completes(t, mark) => Redraws(t, u, w, n, P, P2, R, R2)
      /\ Completes(t, mark) => Frees(t, u, n, <<"info", t.co>>, P, P2, R, R2)
  <2>1. /\ Followable(t, w, X, mark, E, B) /\ Cellular(t, w, n, E, B) /\ u = NewMarker(t, mark, minarea)
        /\ MarkerPuts(t, w, t.x, mark, R, R2) /\ Meet(t, mark, R)
        /\ P = GrowingIn(w, t) \union E /\ P2 = GrowingIn(w, u) \union (E \ {<<"store", t.x>>})
    BY <1>1, <1>2, <1>5, <1>6
  <2> QED BY ONLY <2>1, w \in Nat, n \in Nat \ {0}, MarkerRedraws
<1>8. Free \notin P /\ Accounts(t, w, n, P \union {Free}, B)
  <2>1. Free \notin GrowingIn(w, t)
    BY GrowingPlaces DEF GrowingIn
  <2>2. E \subseteq {<<"store", t.x>>, Cur} /\ Accounts(t, w, n, GrowingIn(w, t) \union E \union {Free}, B)
    BY <1>5 DEF Cellular
  <2> QED BY <1>1, <2>1, <2>2, PlainPlaces
<1>9. /\ u.pix = t.pix /\ u.y = t.y
      /\ ~Completes(t, mark) => u.ready = t.ready /\ u.object = t.object
  <2>1. Fields \subseteq DOMAIN t
    BY <1>5 DEF Cellular
  <2> QED BY <1>1, <2>1, MarkerOutcome
<1>10. Completes(t, mark) => t.cs # "OBJECT" /\ B = {}
  <2>1. Completes(t, mark) => t.cs # "OBJECT"
    BY DEF Completes, TopCase
  <2> QED BY <1>5, <2>1
<1>11. /\ Pictured(u, n, O, P2, S, D, R2)
       /\ ~Completes(t, mark) => Total(R2, P2) = Total(R, P)
       /\ Completes(t, mark) => Total(R2, P2) = Total(R, P) \ R[<<"info", t.co>>]
  <2>1. CASE ~Completes(t, mark)
    <3>1. Pictured(u, n, O, P2, S, D, R2) /\ Total(R2, P2) = Total(R, P)
      <4>1. Redraws(t, u, w, n, P, P2, R, R2) /\ u.pix = t.pix /\ Pictured(t, n, O, P, S, D, R)
        BY <1>5, <1>7, <1>9, <2>1
      <4> QED BY ONLY <1>8, <4>1, w \in Nat, n \in Nat \ {0}, RedrawsPicture
    <3> QED BY <2>1, <3>1
  <2>2. CASE Completes(t, mark)
    <3>1. PICK a : a = <<"info", t.co>>
      OBVIOUS
    <3>2. a # Cur /\ a \notin B /\ Frees(t, u, n, a, P, P2, R, R2)
      BY <1>7, <1>10, <2>2, <3>1, PlainPlaces
    <3>3. Pictured(u, n, O, P2, S, D, R2) /\ Total(R2, P2) = Total(R, P) \ R[a]
      <4>1. u.pix = t.pix /\ Pictured(t, n, O, P, S, D, R)
        BY <1>5, <1>9
      <4>2. GivesBack(t, u, w, n, a, B, P, P2, R, R2)
        BY <1>8, <3>2, <4>1 DEF GivesBack
      <4> QED BY ONLY <4>1, <4>2, w \in Nat, n \in Nat \ {0}, FreesPicture
    <3> QED BY <2>2, <3>1, <3>3
  <2> QED BY <2>1, <2>2
<1>12. Follows(t, u, w, X, g2, a2)
  BY <1>1, <1>4, <1>5, NewMarkerKeeps
<1>13. Tells(u, w, T, y, mr, X, x, x + 1, R2)
  <2>1. x \in 0..X /\ (t.cs = "NONOBJECT" => X <= x)
    <3>1. t.cs = "NONOBJECT" => ~lit
      OBVIOUS
    <3>2. x <= X /\ x \in Nat /\ X \in Nat /\ (~lit => X = x)
      OBVIOUS
    <3> QED BY <3>1, <3>2
  <2>2. Marked(t, u, w, X, x, x, mr)
    BY <1>1, <1>4, <1>5, <1>12, <2>1 DEF Marked
  <2> QED BY <1>1, <1>2, <1>5, <2>1, <2>2, TellsMarker
<1>14. R2[Cur] = R[Cur]
  <2>1. \A i : Cur # <<"info", i>> /\ Cur # <<"store", i>>
    BY PlainPlaces
  <2>2. Cur \in Names(w)
    BY DEF Names
  <2>3. \A i, V : PutsInfo(R, R2, w, i, V) \/ PutsStore(R, R2, w, i, V) => R2[Cur] = R[Cur]
    BY <2>1, <2>2 DEF PutsInfo, PutsStore, Puts
  <2> QED BY <1>2, <2>3 DEF MarkerPuts
<1>15. Followed(u, w, n, T, O, mr, lit, x, X, y, E2, B2, S, D, R2)
  BY <1>1, <1>3, <1>9, <1>11, <1>13, <1>14 DEF Followed, AtMarker
<1>16. Completes(t, mark) => t.co \in 1..t.co
  <2>1. SUFFICES ASSUME Completes(t, mark) PROVE t.co \in 1..t.co
    OBVIOUS
  <2>2. <<"info", t.co>> \in P
    BY <1>7, <2>1 DEF Frees
  <2>3. E \subseteq {<<"store", t.x>>, Cur}
    BY <1>5 DEF Cellular
  <2>4. <<"info", t.co>> \notin E
    BY <2>3, PlainPlaces, ExtraPlaces
  <2>5. <<"info", t.co>> \in GrowingIn(w, t)
    BY <1>1, <2>2, <2>4
  <2> QED BY <2>5, GrowingPlaces DEF GrowingIn
<1>17. Delivers(t, u, mark, Total(R, P), Total(R2, P2), R)
  BY <1>9, <1>10, <1>11, <1>16 DEF Delivers, AtMarker
<1> QED BY <1>1, <1>2, <1>15, <1>17 DEF FollowedAs

(* The runs above the scan's are known to be its region's. *)
Resolved(u, w, n, T, O, x, y, E, S, R) ==
  /\ Pictured(u, n, O, GrowingIn(w, u) \union E, S, {}, R)
  /\ u.cs = "OBJECT" => /\ u.co \in 1..w
                        /\ <<x - 1, y>> \in T => <<x - 1, y>> \in R[<<"info", u.co>>]
                        /\ <<x, y - 1>> \in T => <<x, y - 1>> \in R[<<"info", u.co>>]

(* Once the marker is followed no two regions held touch. *)
LEMMA VisitResolves ==
  ASSUME NEW w \in Nat, NEW n, NEW T, OnGrid(T, w), NEW O, NEW mr, NEW lit, NEW x \in 0..w,
         NEW y \in Nat,
         NEW X, X = x \/ X = x + 1, NEW E, NEW B, NEW R, NEW S, S = Reached(T, x, y),
         NEW u, Inside(u, w), u.cs # "OBJECT" => <<x - 1, y>> \notin T,
         Followed(u, w, n, T, O, mr, lit, x, X, y, E, B, S, Corner(x, y), R)
  PROVE  Resolved(u, w, n, T, O, x, y, E, S, R)
<1>1. PICK P, Q, a, D, p, q : /\ P = GrowingIn(w, u) \union E /\ Q = P \ {Cur} /\ a = <<"info", u.co>> /\ D = Corner(x, y)
                              /\ p = <<x - 1, y>> /\ q = <<x, y - 1>>
  OBVIOUS
<1>2. Shapes(R, Q, S, D) /\ Depicts(u, n, O, P, R) /\ Tells(u, w, T, y, mr, X, x, x + 1, R)
  BY <1>1 DEF Followed, Pictured
<1>3. PICK co \in 0..w : co = u.co /\ IsStack(u.psstack) /\ Framed(u.psstack, u.ps, u.cs, co) /\ co \in Nat
  BY DEF Inside
<1>4. u.cs = "OBJECT" => co \in 1..w /\ a \in Q
  <2>1. u.cs = "OBJECT" => co # 0
    BY <1>3, FramedCount
  <2>2. co # 0 => a \in GrowingIn(w, u)
    BY <1>1, <1>3, GrowingPlaces DEF GrowingIn
  <2> QED BY <1>1, <1>3, <2>1, <2>2, PlainPlaces
<1>5. u.cs = "OBJECT" => /\ p \in T => p \in R[a]
                         /\ q \in T => q \in R[a]
  <2>1. <<-1, y>> \notin T
    BY DEF OnGrid
  <2>2. y \in Int
    OBVIOUS
  <2> QED BY <1>1, <1>2, <2>1, <2>2, RunsMeet
<1>6. S \subseteq T /\ D = {p, q}
  BY <1>1 DEF Reached, Corner
<1>7. Shapes(R, Q, S, {})
  <2>1. CASE Q = {}
    BY <1>2, <2>1 DEF Shapes
  <2>2. CASE Q # {}
    <3>1. \E b \in Q : D \intersect S \subseteq R[b] \/ \A i, j \in D \intersect S : i = j
      <4>1. CASE u.cs = "OBJECT"
        BY <1>4, <1>5, <1>6, <4>1
      <4>2. CASE u.cs # "OBJECT"
        BY <1>1, <1>6, <2>2, <4>2
      <4> QED BY <4>1, <4>2
    <3> QED BY <1>2, <3>1, ShapesResolved
  <2> QED BY <2>1, <2>2
<1> QED BY <1>1, <1>2, <1>3, <1>4, <1>5, <1>7 DEF Pictured, Resolved

(* The scan after the visit's work. *)
AfterWork(v, w, n, T, O, mr, x, y, R) ==
  /\ Tells(v, w, T, y, mr, x + 1, x + 1, x + 1, R)
  /\ Pictured(v, n, O, GrowingIn(w, v), Reached(T, x + 1, y), Corner(x + 1, y), R)
  /\ DOMAIN v.pix = 0..n-1 /\ v.y = y

(* What the last part of the visit leads to: V are the pixels held. *)
WorkedAs(u, v, w, n, T, O, mr, x, y, V) ==
  \E R2 : /\ AfterWork(v, w, n, T, O, mr, x, y, R2)
          /\ Total(R2, GrowingIn(w, v)) = V
          /\ v.ready = u.ready /\ v.object = u.object

(* The pixels reached one position on. *)
LEMMA ReachedNext ==
  ASSUME NEW T \in SUBSET Cells, NEW x \in Int, NEW y \in Int
  PROVE  /\ <<x, y>> \in T => Reached(T, x + 1, y) = Reached(T, x, y) \union {<<x, y>>}
         /\ <<x, y>> \notin T => Reached(T, x + 1, y) = Reached(T, x, y)
         /\ <<x, y>> \notin Reached(T, x, y)
<1>0. PICK p : p = <<x, y>>
  OBVIOUS
<1>1. p = <<x, y>> /\ p[1] = x /\ p[2] = y
  BY <1>0
<1>2. ASSUME NEW q \in T PROVE q \in Reached(T, x + 1, y) <=> q \in Reached(T, x, y) \/ q = p
  <2>1. q[1] \in Int /\ q[2] \in Int /\ q = <<q[1], q[2]>>
    BY DEF Cells
  <2>2. q = p <=> q[1] = x /\ q[2] = y
    BY <1>1, <2>1
  <2> QED BY <2>1, <2>2 DEF Reached
<1>3. Reached(T, x + 1, y) \subseteq T /\ Reached(T, x, y) \subseteq T /\ p \notin Reached(T, x, y)
  BY <1>1 DEF Reached
<1> QED BY <1>1, <1>2, <1>3

(* The visit of a dark position ends the run. *)
LEMMA VisitEnds ==
  ASSUME NEW w \in Nat, NEW n \in Nat \ {0}, NEW T, OnGrid(T, w), NEW O, NEW mr, NEW x \in 0..w,
         NEW y \in Nat,
         <<x, y>> \notin T, NEW R, NEW S, S = Reached(T, x, y), NEW D,
         NEW u, Inside(u, w), u.x = x, Known(u, x), u.marker[x] = "none",
         Followed(u, w, n, T, O, mr, FALSE, x, x, y, {}, {}, S, D, R),
         Pictured(u, n, O, GrowingIn(w, u), S, {}, R), NEW v, v = EndSegment(u)
  PROVE  WorkedAs(u, v, w, n, T, O, mr, x, y, Total(R, GrowingIn(w, u)))
<1>1. PICK P, P2 : P = GrowingIn(w, u) /\ P2 = GrowingIn(w, v)
  OBVIOUS
<1>2. \E R2 : EndPuts(u, w, R, R2)
  <2>1. \A i, V : \E R2 : PutsStore(R, R2, w, i, V)
    BY PutsExists DEF PutsStore
  <2>2. CASE u.cs = "OBJECT" /\ u.ps = "COMPLETE"
    BY <2>1, <2>2 DEF EndPuts
  <2>3. CASE ~(u.cs = "OBJECT" /\ u.ps = "COMPLETE")
    BY <2>3 DEF EndPuts
  <2> QED BY <2>2, <2>3
<1>3. PICK R2 : EndPuts(u, w, R, R2)
  BY <1>2
<1>4. /\ Tells(u, w, T, y, mr, x, x, x + 1, R) /\ Cellular(u, w, n, {}, {}) /\ DOMAIN u.pix = 0..n-1 /\ u.y = y
  BY DEF Followed
<1>5. Redraws(u, v, w, n, P, P2, R, R2) /\ v.pix = u.pix /\ v.y = u.y /\ v.ready = u.ready /\ v.object = u.object
  <2>1. Known(u, u.x) /\ u.marker[u.x] = "none"
    OBVIOUS
  <2> QED BY <1>1, <1>3, <1>4, <2>1, EndRedraws
<1>6. Free \notin P /\ Accounts(u, w, n, P \union {Free}, {})
  <2>1. Free \notin P
    BY <1>1, GrowingPlaces DEF GrowingIn
  <2>2. GrowingIn(w, u) \union {} \union {Free} = P \union {Free}
    BY <1>1
  <2> QED BY <1>4, <2>1, <2>2 DEF Cellular
<1>7. Pictured(v, n, O, P2, S, {}, R2) /\ Total(R2, P2) = Total(R, P)
  <2>1. Pictured(u, n, O, P, S, {}, R)
    BY <1>1
  <2> QED BY ONLY <1>5, <1>6, <2>1, w \in Nat, n \in Nat \ {0}, RedrawsPicture
<1>8. PICK D2 : D2 = Corner(x + 1, y)
  OBVIOUS
<1>9. Pictured(v, n, O, P2, S, D2, R2)
  BY <1>7, ShapesPending DEF Pictured
<1>10. Reached(T, x + 1, y) = S
  <2>1. T \in SUBSET Cells /\ x \in Int /\ y \in Int
    BY DEF OnGrid
  <2> QED BY <2>1, ReachedNext
<1>11. Tells(v, w, T, y, mr, x + 1, x + 1, x + 1, R2)
  BY <1>3, <1>4, TellsEnd
<1>12. AfterWork(v, w, n, T, O, mr, x, y, R2)
  BY <1>1, <1>4, <1>5, <1>7, <1>8, <1>9, <1>10, <1>11 DEF AfterWork
<1> QED BY <1>1, <1>4, <1>5, <1>7, <1>12 DEF WorkedAs

(* A lit pixel fits the region of its run once the marker is followed. *)
LEMMA VisitFits ==
  ASSUME NEW w \in Nat, NEW n \in Nat \ {0}, NEW T, OnGrid(T, w), NEW O, NEW mr, NEW x \in 0..w,
         NEW y \in Nat,
         NEW E, NEW B, NEW R, NEW S, S = Reached(T, x, y), NEW D,
         NEW t, Inside(t, w), t.cs = "OBJECT",
         AtMarker(t, w, n, T, O, mr, TRUE, x, x + 1, y, E, B, S, D, R),
         NEW minarea, NEW u, u = NewMarker(t, mr[x], minarea), NEW R2,
         MarkerPuts(t, w, x, mr[x], R, R2),
         <<x - 1, y>> \in T => <<x - 1, y>> \in R2[<<"info", u.co>>],
         <<x, y - 1>> \in T => <<x, y - 1>> \in R2[<<"info", u.co>>]
  PROVE  FitsHere(T, x, y, R2[<<"info", u.co>>])
<1>1. Tells(t, w, T, y, mr, x + 1, x, x, R) /\ Rooted(t, x, y, R) /\ Pictured(t, n, O, GrowingIn(w, t) \union E, S, D, R)
  BY DEF AtMarker
<1>2. R[<<"info", t.co>>] \subseteq T
  <2>1. PICK a, P : a = <<"info", t.co>> /\ P = GrowingIn(w, t) \union E
    OBVIOUS
  <2>2. PICK co \in 0..w : co = t.co /\ IsStack(t.psstack) /\ Framed(t.psstack, t.ps, t.cs, co) /\ co \in Nat
    BY DEF Inside
  <2>3. co # 0
    BY <2>2, FramedCount
  <2>4. a \in GrowingIn(w, t)
    BY <2>1, <2>2, <2>3, GrowingPlaces DEF GrowingIn
  <2>5. a \in P \ {Cur}
    BY <2>1, <2>4, PlainPlaces
  <2>6. R[a] \subseteq S
    BY <1>1, <2>1, <2>5 DEF Pictured, Shapes
  <2>7. S \subseteq T
    BY DEF Reached
  <2> QED BY <2>1, <2>6, <2>7
<1>3. <<x - 1, y>> \notin T /\ <<x, y - 1>> \notin T =>
        /\ R2[<<"info", u.co>>] = {} \/ <<x - 1, y - 1>> \in R2[<<"info", u.co>>]
        /\ <<x - 1, y - 1>> \in T => <<x - 1, y - 1>> \in R2[<<"info", u.co>>]
  <2>1. y \in Int
    OBVIOUS
  <2> QED BY <1>1, <1>2, <2>1, AloneAtMarker
<1> QED BY <1>3 DEF FitsHere

(* The visit of a pixel adds it to the innermost region. *)
LEMMA VisitAdds ==
  ASSUME NEW w \in Nat, NEW n \in Nat \ {0}, NEW T, OnGrid(T, w), NEW O, NEW mr, NEW x \in 0..w,
         NEW y \in Nat,
         <<x, y>> \in T, NEW B, NEW R, NEW S, S = Reached(T, x, y), NEW D,
         NEW u, Inside(u, w), u.x = x, Known(u, x + 1), u.cs = "OBJECT", u.co \in 1..w,
         Followed(u, w, n, T, O, mr, TRUE, x, x + 1, y, {Cur}, B, S, D, R),
         Pictured(u, n, O, GrowingIn(w, u) \union {Cur}, S, {}, R),
         FitsHere(T, x, y, R[<<"info", u.co>>]),
         NEW v, v = Update(u, u.co, u.curpix)
  PROVE  WorkedAs(u, v, w, n, T, O, mr, x, y, Total(R, GrowingIn(w, u) \union {Cur}) \union {<<x, y>>})
<1>1. PICK P, P2, p, a, D2 : /\ P = GrowingIn(w, u) \union {Cur} /\ P2 = GrowingIn(w, u) /\ p = <<x, y>> /\ a = <<"info", u.co>>
                             /\ D2 = Corner(x + 1, y)
  OBVIOUS
<1>2. PICK R2 : Puts(R, R2, w, a, R[a] \union {p})
  BY PutsExists
<1>3. /\ Tells(u, w, T, y, mr, x + 1, x, x + 1, R) /\ Cellular(u, w, n, {Cur}, B) /\ DOMAIN u.pix = 0..n-1 /\ u.y = y
      /\ R[Cur] = {p}
  BY <1>1 DEF Followed
<1>4. /\ Fields \subseteq DOMAIN u /\ AllFields \subseteq DOMAIN u /\ "pix" \in DOMAIN u
      /\ LineFields \subseteq DOMAIN u /\ Accounts(u, w, n, P \union {Free}, B)
  BY <1>1, <1>3 DEF Cellular, Fields, AllFields
<1>5. a \in P2 /\ Free \notin P2 /\ Cur \notin P2 /\ a # Cur
  <2>1. Free \notin P2 /\ Cur \notin P2 /\ (a \in P2 <=> u.co \in 1..u.co)
    BY <1>1, GrowingPlaces DEF GrowingIn
  <2> QED BY <1>1, <2>1, PlainPlaces
<1>6. a \in P /\ Cur \in P /\ Free \notin P /\ P2 = P \ {Cur} /\ P \ {Cur} = P2
  BY <1>1, <1>5, PlainPlaces
<1>7. T \in SUBSET Cells /\ p \in Cells /\ p \notin S /\ Reached(T, x + 1, y) = S \union {p}
  <2>1. T \in SUBSET Cells /\ x \in Int /\ y \in Int
    BY DEF OnGrid
  <2>2. p \in Cells
    BY <1>1, <2>1
  <2> QED BY <1>1, <2>1, <2>2, ReachedNext
<1>8. /\ Joins(R[a], {p})
      /\ \A q \in S : Touch(p, q) => q \in R[a] \/ q \in D2
  <2>1. Shapes(R, P2, S, {})
    BY <1>1, <1>6 DEF Pictured
  <2>2. T \in SUBSET Cells /\ x \in Int /\ y \in Int /\ FitsHere(T, x, y, R[a]) /\ a \in P2
    BY <1>1, <1>5, <1>7
  <2>3. FitsAll(S, x, y, R[a])
    BY ONLY <2>1, <2>2, S = Reached(T, x, y), PixelFits
  <2> QED BY <1>1, <2>3 DEF FitsAll
<1>9. p \in D2
  <2>1. p = <<x + 1 - 1, y>>
    BY <1>1
  <2> QED BY <1>1, <2>1 DEF Corner
<1>10. Pictured(v, n, O, P2, S \union {p}, D2, R2) /\ Total(R2, P2) = Total(R, P) \union {p} /\ v.pix = u.pix
  <2>1. Pictured(u, n, O, P, S, {}, R)
    BY <1>1
  <2>2. AddsPixel(u, w, n, P, a, B, O, S, R, p, v, R2, P2, D2)
    <3>1. Fits(p, S, R[a], D2)
      BY <1>7, <1>8, <1>9 DEF Fits
    <3> QED BY <1>1, <1>2, <1>3, <1>4, <1>6, <2>1, <3>1 DEF AddsPixel
  <2> QED BY ONLY <2>2, w \in Nat, n \in Nat \ {0}, PixelPicture
<1>11. Same(u, v)
  BY <1>4, UpdateSame
<1>12. GrowingIn(w, v) = P2
  BY <1>1, <1>11 DEF Same, Becomes, GrowingIn
<1>13. Tells(v, w, T, y, mr, x + 1, x + 1, x + 1, R2)
  <2>1. PutsInfo(R, R2, w, u.co, R[<<"info", u.co>>] \union {<<x, y>>}) /\ u.co # 0
    BY <1>1, <1>2 DEF PutsInfo
  <2> QED BY <1>3, <1>11, <2>1, TellsPixel
<1>14. v.y = u.y /\ v.ready = u.ready /\ v.object = u.object
  BY <1>4, UpdateOutcome
<1>15. AfterWork(v, w, n, T, O, mr, x, y, R2)
  BY <1>1, <1>3, <1>7, <1>10, <1>12, <1>13, <1>14 DEF AfterWork
<1> QED BY <1>1, <1>10, <1>12, <1>14, <1>15 DEF WorkedAs

(* The scan s has been followed to t, before the marker. *)
ToMarker(s, t, w, n, T, O, lit, x, X, y, R, E, B, Rt) ==
  /\ AtMarker(t, w, n, T, O, s.marker, lit, x, X, y, E, B, Reached(T, x, y), Corner(x, y), Rt)
  /\ Total(Rt, GrowingIn(w, t) \union E) = Total(R, GrowingIn(w, s))
  /\ Followable(t, w, X, s.marker[x], E, B)
  /\ t.cs # "OBJECT" => <<x - 1, y>> \notin T
  /\ E \ {<<"store", x>>} = IF lit THEN {Cur} ELSE {}

(* A visit up to the marker loses no pixel. *)
LEMMA VisitToMarker ==
  ASSUME NEW w \in Nat \ {0}, NEW n \in Nat \ {0}, NEW T, OnGrid(T, w), NEW O, NEW s, NEW R,
         AtTop(s, w, n, T, O, R),
         NEW x, x = s.x, NEW y, y = s.y, NEW lit, lit <=> <<x, y>> \in T, NEW truncated,
         Edge(truncated, <<x, y>>, O),
         lit => s.nextpix[s.free] # n - 1,
         NEW minarea, NEW X, NEW c, NEW k, NEW t, NEW u,
         VisitSteps(s, lit, truncated, minarea, x, X, c, k, t, u)
  PROVE  \E E, B, Rt : ToMarker(s, t, w, n, T, O, lit, x, X, y, R, E, B, Rt)
<1>1. VisitHolds(s, w, lit, x, X, c, k, t, u)
  <2>1. LineInv(s, w)
    BY DEF AtTop
  <2> QED BY ONLY <2>1, w \in Nat \ {0}, VisitSteps(s, lit, truncated, minarea, x, X, c, k, t, u), WorkedSteps
<1>2. /\ x \in 0..w /\ X \in 0..(w + 1)
      /\ Inside(c, w) /\ c.x = x /\ Same(c, k)
      /\ Inside(k, w) /\ k.x = x /\ k.marker[x] = "none" /\ (k.cs # "OBJECT" /\ k.ps # "OBJECT" => k.co < w)
      /\ Inside(t, w) /\ Known(t, X) /\ t.x = x /\ (t.cs # "OBJECT" /\ t.ps # "OBJECT" => t.co < w)
      /\ lit => t.cs = "OBJECT"
      /\ \E g2, a2 : Turn(s.marker[x], Depth(t), Under(t), g2, a2)
  BY <1>1 DEF VisitHolds
<1>3. PICK mr, b, E, S, D : /\ mr = s.marker /\ b = <<"store", x>> /\ E = IF s.marker[s.x] = "S" THEN {<<"store", s.x>>} ELSE {}
                            /\ S = Reached(T, x, y) /\ D = Corner(x, y)
  OBVIOUS
<1>4. w \in Nat /\ y \in Nat /\ Inside(s, w) /\ Known(s, s.x) /\ c = Cleared(s)
  BY DEF AtTop, LineInv, VisitSteps
<1>5. ClearedAs(s, c, w, n, T, O, x, y, E, R)
  BY <1>3, <1>4, VisitClears DEF LeavesAt
<1>6. /\ AtMarker(c, w, n, T, O, mr, FALSE, x, x, y, E, {}, S, D, R)
      /\ GrowingIn(w, c) \union E = GrowingIn(w, s) /\ SameCells(s, c)
      /\ <<x - 1, y>> \in T <=> c.cs = "OBJECT"
  BY <1>3, <1>5 DEF ClearedAs
<1>7. Cur # b /\ Cur \notin E /\ E \ {b} = {} /\ (b \in E <=> mr[x] = "S") /\ (E \union {Cur}) \ {b} = {Cur}
      /\ (b \in E \union {Cur} <=> mr[x] = "S")
  BY <1>3, PlainPlaces
<1>8. Known(c, x)
  BY <1>4, ClearedKeeps
<1>9. CASE lit
  <2>1. <<x, y>> \notin S /\ x \in Int /\ y \in Int
    <3>1. T \in SUBSET Cells /\ x \in Int /\ y \in Int
      BY <1>2, <1>4 DEF OnGrid
    <3> QED BY <1>3, <3>1, ReachedNext
  <2>2. c.nextpix[c.free] # n - 1
    BY <1>6, <1>9 DEF SameCells, Holds
  <2>3. k = TakeCell(c, truncated) /\ t = StartSegment(k) /\ X = x + 1
    BY <1>9 DEF VisitSteps
  <2>4. PICK Ek : Ek = E \union {Cur}
    OBVIOUS
  <2>5. PICK Rk : /\ Taken(k, w, n, T, O, mr, x, y, Ek, S, D, Rk)
                  /\ Total(Rk, GrowingIn(w, k) \union Ek) = Total(R, GrowingIn(w, c) \union E)
    <3>1. /\ x \in 0..w /\ y \in Nat /\ Cur \notin E /\ <<x, y>> \notin S /\ Inside(c, w) /\ c.x = x /\ Known(c, x)
          /\ AtMarker(c, w, n, T, O, mr, FALSE, x, x, y, E, {}, S, D, R) /\ c.nextpix[c.free] # n - 1
          /\ k = TakeCell(c, truncated) /\ Same(c, k)
      BY <1>2, <1>4, <1>6, <1>7, <1>8, <2>1, <2>2, <2>3
    <3>2. TakenAs(c, k, w, n, T, O, mr, x, y, E, Ek, S, D, R)
      BY ONLY <3>1, <2>4, w \in Nat, n \in Nat \ {0}, Edge(truncated, <<x, y>>, O), <1>4,
         VisitTakes
    <3> QED BY <3>2 DEF TakenAs
  <2>6. Known(k, x)
    BY <1>2, <1>8, SameKeeps
  <2>7. PICK Rt, B : /\ AtMarker(t, w, n, T, O, mr, TRUE, x, x + 1, y, Ek, B, S, D, Rt)
                     /\ Total(Rt, GrowingIn(w, t) \union Ek) = Total(Rk, GrowingIn(w, k) \union Ek)
    <3>1. /\ x \in 0..w /\ y \in Nat /\ Inside(k, w) /\ k.x = x /\ Known(k, x) /\ k.marker[x] = "none"
          /\ (k.cs # "OBJECT" /\ k.ps # "OBJECT" => k.co < w)
          /\ Taken(k, w, n, T, O, mr, x, y, Ek, S, D, Rk) /\ t = StartSegment(k)
      BY <1>2, <1>4, <2>3, <2>5, <2>6
    <3>2. BegunAs(k, t, w, n, T, O, mr, x, y, Ek, S, D, Rk)
      BY ONLY <3>1, <1>4, n \in Nat \ {0}, OnGrid(T, w), VisitBegins
    <3> QED BY <3>2 DEF BegunAs
  <2>8. Followable(t, w, X, mr[x], Ek, B)
    BY <1>2, <1>3, <1>7, <1>9, <2>4 DEF Followable
  <2>9. AtMarker(t, w, n, T, O, mr, lit, x, X, y, Ek, B, S, D, Rt)
    BY <1>9, <2>3, <2>7 DEF AtMarker
  <2>10. ToMarker(s, t, w, n, T, O, lit, x, X, y, R, Ek, B, Rt)
    BY <1>2, <1>3, <1>6, <1>7, <1>9, <2>5, <2>4, <2>7, <2>8, <2>9 DEF ToMarker
  <2> QED BY <2>10
<1>10. CASE ~lit
  <2>1. t = c /\ X = x
    BY <1>10 DEF VisitSteps
  <2>2. Followable(t, w, X, mr[x], E, {})
    BY <1>2, <1>3, <1>7, <2>1 DEF Followable
  <2>3. AtMarker(t, w, n, T, O, mr, lit, x, X, y, E, {}, S, D, R)
    BY <1>6, <1>10, <2>1 DEF AtMarker
  <2>4. ToMarker(s, t, w, n, T, O, lit, x, X, y, R, E, {}, R)
    BY <1>3, <1>6, <1>7, <1>10, <2>1, <2>2, <2>3 DEF ToMarker
  <2> QED BY <2>4
<1> QED BY <1>9, <1>10

(* The list of a place counts the pixels it holds. *)
Counts(s, n, at, R) ==
  /\ R[at] # {} /\ IsFiniteSet(R[at])
  /\ ListIn(s, n, at).pixnb = Cardinality(R[at])
  /\ R[at] = {s.pix[c] : c \in CellsOf(s, n, at)}

(* A list that is not blank holds as many pixels as it counts. *)
LEMMA PlaceHolds ==
  ASSUME NEW w, NEW n, NEW s, NEW P, NEW B, Accounts(s, w, n, P \union {Free}, B), NEW O, NEW R,
         Depicts(s, n, O, P, R),
         NEW at \in P, at \notin B, at # Free
  PROVE  Counts(s, n, at, R)
<1>1. PICK L, mem : IsLists(L, s, w, n) /\ Sound(s.nextpix, P \union {Free}, L, mem) /\ P \union {Free} \subseteq Names(w)
                    /\ ListIn(s, n, at) # Blank
  BY DEF Accounts
<1>2. PICK Q : Q = P \union {Free}
  OBVIOUS
<1>3. Listed(s, w, n, Q, L, mem) /\ Sound(s.nextpix, Q, L, mem) /\ at \in Q \ {Free}
  BY <1>1, <1>2 DEF Listed
<1>4. L[at] = ListIn(s, n, at) /\ CellsOf(s, n, at) = mem[L[at].first]
  BY <1>3, CellsListed
<1>5. /\ IsFiniteSet(mem[L[at].first]) /\ L[at].first # None /\ L[at].first \in mem[L[at].first]
      /\ L[at].pixnb = Cardinality(mem[L[at].first])
  <2>1. at \in Q /\ L[at] # Blank
    BY <1>1, <1>3, <1>4
  <2>2. /\ IsFiniteSet(mem[L[at].first]) /\ L[at].first # None /\ L[at].first \in mem[L[at].first]
    BY <1>3, <2>1, ListFields
  <2>3. L[at].pixnb = Cardinality(mem[L[at].first])
    BY <1>3 DEF Sound
  <2> QED BY <2>2, <2>3
<1>6. PICK A : A = CellsOf(s, n, at)
  OBVIOUS
<1>7. A # {} /\ IsFiniteSet(A) /\ ListIn(s, n, at).pixnb = Cardinality(A)
  BY <1>4, <1>5, <1>6
<1>8. R[at] = {s.pix[c] : c \in A} /\ \A c, d \in A : s.pix[c] = s.pix[d] => c = d
  BY <1>6 DEF Depicts
<1>9. ExistsBijection(A, R[at])
  <2>1. PICK f : f = [c \in A |-> s.pix[c]]
    OBVIOUS
  <2>2. f \in [A -> R[at]] /\ \A c \in A : f[c] = s.pix[c]
    BY <1>8, <2>1
  <2>3. f \in Injection(A, R[at])
    BY <1>8, <2>2 DEF Injection, IsInjective
  <2>4. f \in Surjection(A, R[at])
    BY <1>8, <2>2 DEF Surjection
  <2> QED BY <2>3, <2>4 DEF Bijection, ExistsBijection
<1>10. IsFiniteSet(R[at]) /\ Cardinality(R[at]) = Cardinality(A)
  BY <1>7, <1>9, FS_Bijection
<1> QED BY <1>6, <1>7, <1>8, <1>10 DEF Counts

(* What a completed region is handed over as. *)
LEMMA CompletedIs ==
  ASSUME NEW s, Fields \subseteq DOMAIN s, NEW mark, NEW minarea, NEW t,
         t = NewMarker(s, mark, minarea), Completes(s, mark),
         NEW i, i = s.info[s.co]
  PROVE  /\ i.pixnb >= minarea => t.ready = i /\ t.object = PixelsOf(s, i)
         /\ ~(i.pixnb >= minarea) => t.ready = s.ready /\ t.object = s.object
<1>1. /\ AllFields \subseteq DOMAIN s /\ LineFields \subseteq DOMAIN s /\ CellFields \subseteq DOMAIN s
      /\ "pix" \in DOMAIN s /\ "y" \in DOMAIN s /\ "ready" \in DOMAIN s /\ "object" \in DOMAIN s
  BY DEF Fields, AllFields
<1>2. t = MarkerF(s, minarea) /\ TopCase(s) /\ s.start[s.co] = UNKNOWN
  BY DEF NewMarker, Completes
<1>3. PICK p : p = Pop(s)
  OBVIOUS
<1>4. /\ p.pix = s.pix /\ p.nextpix = s.nextpix /\ p.ready = s.ready /\ p.object = s.object /\ DOMAIN p = DOMAIN s
      /\ p.ps = s.psstack[Len(s.psstack)] /\ p.co = s.co /\ p.info = s.info
  BY <1>1, <1>3 DEF Pop, Popped, LineFields, CellFields
<1>5. PixelsOf(p, i) = PixelsOf(s, i)
  <2>1. CellsFrom(p, i.first) = CellsFrom(s, i.first)
    BY <1>4 DEF CellsFrom
  <2> QED BY <1>4, <2>1 DEF PixelsOf
<1>6. PICK q : q = Complete(p, minarea)
  OBVIOUS
<1>7. /\ DOMAIN q = DOMAIN s
      /\ i.pixnb >= minarea => q.ready = i /\ q.object = PixelsOf(s, i)
      /\ ~(i.pixnb >= minarea) => q.ready = s.ready /\ q.object = s.object
  BY <1>1, <1>4, <1>5, <1>6 DEF Complete, CellFields
<1>8. PICK r : r = [q EXCEPT !.co = s.co - 1]
  OBVIOUS
<1>9. DOMAIN r = DOMAIN s /\ r.ready = q.ready /\ r.object = q.object
  BY <1>1, <1>7, <1>8 DEF LineFields
<1>10. t = Pop(r)
  BY <1>2, <1>3, <1>4, <1>6, <1>8 DEF MarkerF, TopCase
<1>11. t.ready = r.ready /\ t.object = r.object
  BY <1>1, <1>9, <1>10 DEF Pop, Popped, LineFields
<1> QED BY <1>7, <1>9, <1>11

(* A marker that completes a region, in the visit of a dark position. *)
Closing(t, u, w, n, T, O, mr, x, y, E, R, R2) ==
  /\ AtMarker(t, w, n, T, O, mr, FALSE, x, x, y, E, {}, Reached(T, x, y), Corner(x, y), R)
  /\ Followed(u, w, n, T, O, mr, FALSE, x, x, y, {}, {}, Reached(T, x, y), Corner(x, y), R2)
  /\ Delivers(t, u, mr[x], Total(R, GrowingIn(w, t) \union E), Total(R2, GrowingIn(w, u) \union {}), R)
  /\ Completes(t, mr[x])

(* A pixel from which a position still to be visited can be touched: it is on *)
(* the line before x, or on the line above from x on, unless that position is *)
(* x itself.                                                                  *)
LEMMA FrontierOf ==
  ASSUME NEW T \in SUBSET Cells, NEW x \in Int, NEW y \in Int, <<x, y>> \notin T,
         NEW p \in Reached(T, x, y), NEW q \in T, q \notin Reached(T, x, y), Touch(p, q)
  PROVE  \/ p[2] = y /\ p[1] < x
         \/ p[2] = y - 1 /\ p[1] >= x
<1>1. p \in T /\ p[1] \in Int /\ p[2] \in Int /\ q[1] \in Int /\ q[2] \in Int /\ q = <<q[1], q[2]>>
  BY DEF Reached, Cells
<1>2. p[2] < y \/ (p[2] = y /\ p[1] < x)
  BY DEF Reached
<1>3. ~(q[2] < y) /\ ~(q[2] = y /\ q[1] < x)
  BY DEF Reached
<1>4. ~(q[1] = x /\ q[2] = y)
  BY <1>1
<1>5. p[1] - q[1] \in -1..1 /\ p[2] - q[2] \in -1..1
  BY <1>1 DEF Touch, Near
<1> QED BY <1>1, <1>2, <1>3, <1>4, <1>5

(* A region that a marker completes is a region of T: nothing that is      *)
(* still to come can touch it.                                             *)
LEMMA CompletedRegion ==
  ASSUME NEW w \in Nat, NEW n \in Nat \ {0}, NEW T, OnGrid(T, w), NEW O, NEW mr, NEW x \in 0..w,
         NEW y \in Nat,
         <<x, y>> \notin T, <<x - 1, y>> \notin T, NEW E, NEW R, NEW R2, NEW t,
         NEW u, Inside(u, w), Known(u, x), \A c \in (x + 1)..w : u.marker[c] = mr[c],
         Closing(t, u, w, n, T, O, mr, x, y, E, R, R2), NEW C, C = R[<<"info", t.co>>]
  PROVE  IsRegion(C, T) /\ C \subseteq Total(R, GrowingIn(w, t) \union E)
<1>1. PICK a, P, S, D, G2 : /\ a = <<"info", t.co>> /\ P = GrowingIn(w, t) \union E /\ S = Reached(T, x, y)
                            /\ D = Corner(x, y) /\ G2 = GrowingIn(w, u)
  OBVIOUS
<1>2. /\ Shapes(R, P \ {Cur}, S, D) /\ Depicts(t, n, O, P, R) /\ Cellular(t, w, n, E, {})
      /\ Tells(u, w, T, y, mr, x, x, x + 1, R2)
      /\ Total(R2, G2 \union {}) = Total(R, P) \ R[a] /\ t.co \in 1..t.co
  BY <1>1 DEF Closing, AtMarker, Followed, Delivers, Pictured
<1>3. a \in P \ {Cur} /\ a # Free
  BY <1>1, <1>2, GrowingPlaces, PlainPlaces DEF GrowingIn
<1>4. C # {}
  <2>0. PICK B : B = {}
    OBVIOUS
  <2>1. Accounts(t, w, n, P \union {Free}, B)
    BY <1>1, <1>2, <2>0 DEF Cellular
  <2>2. Depicts(t, n, O, P, R) /\ a \in P /\ a \notin B /\ a # Free
    BY <1>2, <1>3, <2>0
  <2>3. Counts(t, n, a, R)
    BY ONLY <2>1, <2>2, PlaceHolds
  <2> QED BY <1>1, <2>3 DEF Counts
<1>5. C \subseteq S /\ Whole(C) /\ Shut(C, S, D) /\ S \subseteq T
  BY <1>1, <1>2, <1>3 DEF Shapes, Reached
<1>6. C \subseteq Total(R, P)
  BY <1>1, <1>3 DEF Total, AllOf
<1>7. ASSUME NEW at \in G2, NEW p \in R2[at] PROVE p \notin C
  <2>1. Cur \notin G2
    BY <1>1, GrowingPlaces DEF GrowingIn
  <2>2. p \in Total(R2, G2 \union {})
    BY <2>1 DEF Total, AllOf
  <2> QED BY <1>1, <1>2, <2>2
<1>8. /\ \A d \in 0..(x - 1) : <<d, y>> \in T => \E at \in G2 : <<d, y>> \in R2[at]
      /\ \A d \in x..w : <<d, y - 1>> \in T => \E at \in G2 : <<d, y - 1>> \in R2[at]
  <2>1. PICK x1 : x1 = x + 1
    OBVIOUS
  <2>2. /\ w \in Nat /\ Inside(u, w) /\ x \in 0..(w + 1) /\ Known(u, x) /\ x \in 0..x /\ x1 \in 0..(w + 1) /\ x <= x1
        /\ (\A c \in x1..w : u.marker[c] = mr[c]) /\ Tells(u, w, T, y, mr, x, x, x1, R2)
    BY <1>2, <2>1
  <2>3. /\ \A d \in 0..(x - 1) : <<d, y>> \in T => \E at \in GrowingIn(w, u) : <<d, y>> \in R2[at]
        /\ \A d \in (x1 - 1)..w : <<d, y - 1>> \in T => \E at \in GrowingIn(w, u) : <<d, y - 1>> \in R2[at]
    BY ONLY <2>2, TellsHeld
  <2>4. x1 - 1 = x
    BY <2>1
  <2> QED BY <1>1, <2>3, <2>4
<1>9. ASSUME NEW p \in C, NEW q \in T, Touch(p, q) PROVE q \in C
  <2>1. p \in S /\ p \in T /\ T \in SUBSET Cells
    BY <1>5, <1>9 DEF OnGrid
  <2>2. p \in Cells /\ p[1] \in Int /\ p[2] \in Int /\ p = <<p[1], p[2]>>
    BY <2>1 DEF Cells
  <2>3. CASE q \in S
    <3>1. SUFFICES ASSUME p \in D /\ q \in D PROVE q \in C
      BY <1>5, <2>3, <1>9 DEF Shut
    <3>2. <<x - 1, y>> \notin S
      BY <1>5
    <3>3. p = <<x, y - 1>> /\ q = <<x, y - 1>>
      BY <1>1, <2>1, <2>3, <3>1, <3>2 DEF Corner
    <3> QED BY <3>3
  <2>4. CASE q \notin S
    <3>1. (p[2] = y /\ p[1] < x) \/ (p[2] = y - 1 /\ p[1] >= x)
      BY <1>1, <1>9, <2>1, <2>4, FrontierOf
    <3>2. p[1] \in 0..(w - 1)
      BY <2>1 DEF OnGrid
    <3>3. PICK at \in G2 : p \in R2[at]
      <4>1. CASE p[2] = y /\ p[1] < x
        <5>1. p[1] \in 0..(x - 1) /\ <<p[1], y>> \in T
          BY <2>1, <2>2, <3>2, <4>1
        <5>2. \E at \in G2 : <<p[1], y>> \in R2[at]
          BY ONLY <1>8, <5>1
        <5> QED BY <2>2, <4>1, <5>2
      <4>2. CASE p[2] = y - 1 /\ p[1] >= x
        <5>1. p[1] \in x..w /\ <<p[1], y - 1>> \in T
          BY <2>1, <2>2, <3>2, <4>2
        <5>2. \E at \in G2 : <<p[1], y - 1>> \in R2[at]
          BY ONLY <1>8, <5>1
        <5> QED BY <2>2, <4>2, <5>2
      <4> QED BY <3>1, <4>1, <4>2
    <3> QED BY <1>7, <3>3
  <2> QED BY <2>3, <2>4
<1>10. Closed(C, T) /\ C \subseteq T
  BY <1>5, <1>9 DEF Closed
<1> QED BY <1>1, <1>4, <1>5, <1>6, <1>10 DEF IsRegion

(* How a region C that is complete is handed over. *)
HandsOver(u, C, O, minarea) ==
  /\ IsFiniteSet(C)
  /\ Cardinality(C) >= minarea => u.ready # Blank /\ u.ready.flag = (C \intersect O # {}) /\ Handed(u) = C
  /\ ~(Cardinality(C) >= minarea) => u.ready = Blank /\ u.object = <<>>

(* It is handed over with its pixels and its flag, or dropped as too       *)
(* small.                                                                  *)
LEMMA CompletedOutcome ==
  ASSUME NEW w \in Nat, NEW n \in Nat \ {0}, NEW T, NEW O, NEW mr, NEW x, NEW y, NEW E, NEW R,
         NEW R2, NEW t, NEW u,
         Closing(t, u, w, n, T, O, mr, x, y, E, R, R2), NEW minarea,
         u = NewMarker(t, mr[x], minarea),
         NEW C, C = R[<<"info", t.co>>]
  PROVE  HandsOver(u, C, O, minarea)
<1>1. PICK a, P, S, D, i : /\ a = <<"info", t.co>> /\ P = GrowingIn(w, t) \union E /\ S = Reached(T, x, y)
                           /\ D = Corner(x, y) /\ i = t.info[t.co]
  OBVIOUS
<1>2. /\ Depicts(t, n, O, P, R) /\ Cellular(t, w, n, E, {}) /\ t.ready = Blank /\ t.object = <<>>
      /\ Completes(t, mr[x]) /\ t.co \in 1..t.co
  BY <1>1 DEF Closing, AtMarker, Delivers, Pictured
<1>3. a \in P /\ a # Free /\ i = ListIn(t, n, a)
  BY <1>1, <1>2, GrowingPlaces, PlainPlaces DEF GrowingIn, ListIn, ListAt
<1>4. PICK B : B = {}
  OBVIOUS
<1>5. Accounts(t, w, n, P \union {Free}, B) /\ Fields \subseteq DOMAIN t
  BY <1>1, <1>2, <1>4 DEF Cellular
<1>6. Counts(t, n, a, R)
  <2>1. Depicts(t, n, O, P, R) /\ a \in P /\ a \notin B /\ a # Free
    BY <1>2, <1>3, <1>4
  <2> QED BY ONLY <1>5, <2>1, PlaceHolds
<1>7. i # Blank
  BY <1>3, <1>4, <1>5 DEF Accounts
<1>8. i.flag = (C \intersect O # {})
  BY <1>1, <1>2, <1>3 DEF Depicts, FlagOf
<1>9. /\ i.pixnb >= minarea => u.ready = i /\ u.object = PixelsOf(t, i)
      /\ ~(i.pixnb >= minarea) => u.ready = Blank /\ u.object = <<>>
  BY <1>1, <1>2, <1>5, CompletedIs
<1>10. C = {PixelsOf(t, i)[k] : k \in DOMAIN PixelsOf(t, i)}
  <2>1. PICK q : q = CellsFrom(t, i.first)
    OBVIOUS
  <2>2. PixelsOf(t, i) = [k \in DOMAIN q |-> t.pix[q[k]]]
    BY <2>1 DEF PixelsOf
  <2>3. C = {t.pix[c] : c \in {q[k] : k \in DOMAIN q}}
    BY <1>1, <1>3, <1>6, <2>1 DEF Counts, CellsOf, CellSet
  <2> QED BY <2>2, <2>3
<1>11. IsFiniteSet(C) /\ i.pixnb = Cardinality(C)
  BY <1>1, <1>3, <1>6 DEF Counts
<1>12. CASE i.pixnb >= minarea
  <2>1. Handed(u) = C
    BY <1>9, <1>10, <1>12 DEF Handed
  <2> QED BY <1>7, <1>8, <1>9, <1>11, <1>12, <2>1 DEF HandsOver
<1>13. CASE ~(i.pixnb >= minarea)
  BY <1>9, <1>11, <1>13 DEF HandsOver
<1> QED BY <1>12, <1>13

(* What a visit does to the pixels held, V before and V2 after, and what it   *)
(* hands over.                                                                *)
Outcome(v, V, V2, T, O, x, y, minarea) ==
  \/ <<x, y>> \in T /\ V2 = V \union {<<x, y>>} /\ v.ready = Blank
  \/ <<x, y>> \notin T /\ V2 = V /\ v.ready = Blank
  \/ <<x, y>> \notin T /\ \E C : IsRegion(C, T) /\ C \subseteq V /\ V2 = V \ C /\ HandsOver(v, C, O, minarea)

(* The visit but for the move to the next position. *)
ThroughAs(s, v, w, n, T, O, x, y, minarea, V) ==
  \E R : AfterWork(v, w, n, T, O, s.marker, x, y, R) /\ Outcome(v, V, Total(R, GrowingIn(w, v)), T, O, x, y, minarea)

(* The visit of a lit pixel. *)
LEMMA VisitLit ==
  ASSUME NEW w \in Nat \ {0}, NEW n \in Nat \ {0}, NEW T, OnGrid(T, w), NEW O, NEW s, NEW R,
         NEW x \in 0..w, NEW X, NEW y \in Nat, NEW lit, lit, <<x, y>> \in T, NEW truncated,
         NEW minarea, NEW c, NEW k, NEW t, NEW u,
         VisitSteps(s, lit, truncated, minarea, x, X, c, k, t, u),
         VisitHolds(s, w, lit, x, X, c, k, t, u), NEW E, NEW B, NEW Rt,
         ToMarker(s, t, w, n, T, O, lit, x, X, y, R, E, B, Rt),
         NEW v, v = Worked(s, lit, truncated, minarea)
  PROVE  ThroughAs(s, v, w, n, T, O, x, y, minarea, Total(R, GrowingIn(w, s)))
<1>1. PICK mr, S, D, x1, E2, G : /\ mr = s.marker /\ S = Reached(T, x, y) /\ D = Corner(x, y) /\ x1 = x + 1
                                 /\ E2 = E \ {<<"store", x>>} /\ G = GrowingIn(w, s)
  OBVIOUS
<1>2. /\ AtMarker(t, w, n, T, O, mr, lit, x, X, y, E, B, S, D, Rt) /\ Total(Rt, GrowingIn(w, t) \union E) = Total(R, G)
      /\ Followable(t, w, X, mr[x], E, B) /\ (t.cs # "OBJECT" => <<x - 1, y>> \notin T) /\ E2 = {Cur}
  BY <1>1 DEF ToMarker
<1>3. /\ X = x1 /\ X = (IF lit THEN x + 1 ELSE x) /\ u = NewMarker(t, mr[x], minarea) /\ v = Update(u, u.co, u.curpix)
  BY <1>1 DEF VisitSteps, Worked
<1>4. /\ t.x = x /\ Inside(t, w) /\ t.cs = "OBJECT" /\ Inside(u, w) /\ u.x = x /\ Known(u, X) /\ u.cs = t.cs
  BY DEF VisitHolds
<1>5. FollowedAs(t, u, w, n, T, O, mr, lit, x, X, y, E, E2, S, D, Rt)
  <2>1. lit => t.cs = "OBJECT"
    BY <1>4
  <2> QED BY ONLY w \in Nat \ {0}, w \in Nat, n \in Nat \ {0}, OnGrid(T, w), x \in 0..w, y \in Nat, <1>1, <1>2, <1>3, <1>4, <2>1, VisitFollows
<1>6. PICK R2, B2 : /\ Followed(u, w, n, T, O, mr, lit, x, X, y, E2, B2, S, D, R2)
                    /\ MarkerPuts(t, w, x, mr[x], Rt, R2)
                    /\ Delivers(t, u, mr[x], Total(Rt, GrowingIn(w, t) \union E), Total(R2, GrowingIn(w, u) \union E2), Rt)
  BY <1>5 DEF FollowedAs
<1>7. Resolved(u, w, n, T, O, x, y, E2, S, R2)
  <2>1. /\ X = x \/ X = x + 1
        /\ u.cs # "OBJECT" => <<x - 1, y>> \notin T
        /\ Followed(u, w, n, T, O, mr, lit, x, X, y, E2, B2, S, Corner(x, y), R2)
    BY <1>1, <1>2, <1>3, <1>4, <1>6
  <2> QED BY ONLY w \in Nat, OnGrid(T, w), x \in 0..w, y \in Nat, <1>1, <1>4, <2>1, VisitResolves
<1>8. /\ Pictured(u, n, O, GrowingIn(w, u) \union {Cur}, S, {}, R2) /\ u.cs = "OBJECT" /\ u.co \in 1..w
      /\ <<x - 1, y>> \in T => <<x - 1, y>> \in R2[<<"info", u.co>>]
      /\ <<x, y - 1>> \in T => <<x, y - 1>> \in R2[<<"info", u.co>>]
  BY <1>2, <1>4, <1>7 DEF Resolved
<1>9. FitsHere(T, x, y, R2[<<"info", u.co>>])
  <2>1. AtMarker(t, w, n, T, O, mr, TRUE, x, x + 1, y, E, B, S, D, Rt)
    BY <1>1, <1>2, <1>3 DEF AtMarker
  <2> QED BY ONLY w \in Nat, n \in Nat \ {0}, OnGrid(T, w), x \in 0..w, y \in Nat, <1>1, <1>3, <1>4, <1>6, <1>8, <2>1, VisitFits
<1>10. WorkedAs(u, v, w, n, T, O, mr, x, y, Total(R2, GrowingIn(w, u) \union {Cur}) \union {<<x, y>>})
  <2>1. Followed(u, w, n, T, O, mr, TRUE, x, x + 1, y, {Cur}, B2, S, D, R2) /\ Known(u, x + 1)
    BY <1>1, <1>2, <1>3, <1>4, <1>6 DEF Followed
  <2> QED BY ONLY w \in Nat, n \in Nat \ {0}, OnGrid(T, w), x \in 0..w, y \in Nat, <<x, y>> \in T, <1>1, <1>3, <1>4, <1>8, <1>9, <2>1, VisitAdds
<1>11. PICK R3 : /\ AfterWork(v, w, n, T, O, mr, x, y, R3)
                 /\ Total(R3, GrowingIn(w, v)) = Total(R2, GrowingIn(w, u) \union {Cur}) \union {<<x, y>>}
                 /\ v.ready = u.ready
  BY <1>10 DEF WorkedAs
<1>12. Total(R2, GrowingIn(w, u) \union {Cur}) = Total(R, G) /\ u.ready = Blank
  <2>1. ~Completes(t, mr[x])
    BY <1>4, <1>6 DEF Delivers
  <2> QED BY <1>2, <1>6, <2>1 DEF Delivers
<1>13. Outcome(v, Total(R, G), Total(R3, GrowingIn(w, v)), T, O, x, y, minarea)
  BY <1>11, <1>12 DEF Outcome
<1> QED BY <1>1, <1>11, <1>13 DEF ThroughAs

(* The visit of a dark one, which may complete a region. *)
LEMMA VisitDark ==
  ASSUME NEW w \in Nat \ {0}, NEW n \in Nat \ {0}, NEW T, OnGrid(T, w), NEW O, NEW s, NEW R,
         NEW x \in 0..w, NEW X, NEW y \in Nat, NEW lit, ~lit, <<x, y>> \notin T, NEW truncated,
         NEW minarea, NEW c, NEW k, NEW t, NEW u,
         VisitSteps(s, lit, truncated, minarea, x, X, c, k, t, u),
         VisitHolds(s, w, lit, x, X, c, k, t, u), NEW E, NEW B, NEW Rt,
         ToMarker(s, t, w, n, T, O, lit, x, X, y, R, E, B, Rt),
         NEW v, v = Worked(s, lit, truncated, minarea)
  PROVE  ThroughAs(s, v, w, n, T, O, x, y, minarea, Total(R, GrowingIn(w, s)))
<1>1. PICK mr, S, D, E2, G : /\ mr = s.marker /\ S = Reached(T, x, y) /\ D = Corner(x, y)
                             /\ E2 = E \ {<<"store", x>>} /\ G = GrowingIn(w, s)
  OBVIOUS
<1>2. /\ AtMarker(t, w, n, T, O, mr, lit, x, X, y, E, B, S, D, Rt) /\ Total(Rt, GrowingIn(w, t) \union E) = Total(R, G)
      /\ Followable(t, w, X, mr[x], E, B) /\ (t.cs # "OBJECT" => <<x - 1, y>> \notin T) /\ E2 = {} /\ B = {}
  BY <1>1 DEF ToMarker, AtMarker
<1>3. /\ X = x /\ X = (IF lit THEN x + 1 ELSE x) /\ u = NewMarker(t, mr[x], minarea) /\ v = EndSegment(u)
  BY <1>1 DEF VisitSteps, Worked
<1>4. /\ t.x = x /\ Inside(t, w) /\ Inside(u, w) /\ u.x = x /\ Known(u, x) /\ u.cs = t.cs /\ u.marker[x] = "none"
      /\ \A i \in (x + 1)..w : u.marker[i] = mr[i]
  BY <1>1, <1>3 DEF VisitHolds
<1>5. FollowedAs(t, u, w, n, T, O, mr, lit, x, X, y, E, E2, S, D, Rt)
  <2>1. lit => t.cs = "OBJECT"
    OBVIOUS
  <2> QED BY ONLY w \in Nat \ {0}, w \in Nat, n \in Nat \ {0}, OnGrid(T, w), x \in 0..w, y \in Nat, <1>1, <1>2, <1>3, <1>4, <2>1, VisitFollows
<1>6. PICK R2, B2 : /\ Followed(u, w, n, T, O, mr, lit, x, X, y, E2, B2, S, D, R2)
                    /\ Delivers(t, u, mr[x], Total(Rt, GrowingIn(w, t) \union E), Total(R2, GrowingIn(w, u) \union E2), Rt)
  BY <1>5 DEF FollowedAs
<1>7. Followed(u, w, n, T, O, mr, FALSE, x, x, y, {}, {}, S, D, R2)
  BY <1>2, <1>3, <1>6 DEF Followed
<1>8. Resolved(u, w, n, T, O, x, y, E2, S, R2)
  <2>1. /\ X = x \/ X = x + 1
        /\ u.cs # "OBJECT" => <<x - 1, y>> \notin T
        /\ Followed(u, w, n, T, O, mr, lit, x, X, y, E2, B2, S, Corner(x, y), R2)
    BY <1>1, <1>2, <1>3, <1>4, <1>6
  <2> QED BY ONLY w \in Nat, OnGrid(T, w), x \in 0..w, y \in Nat, <1>1, <1>4, <2>1, VisitResolves
<1>9. Pictured(u, n, O, GrowingIn(w, u), S, {}, R2)
  <2>1. GrowingIn(w, u) \union E2 = GrowingIn(w, u)
    BY <1>2
  <2> QED BY <1>8, <2>1 DEF Resolved
<1>10. WorkedAs(u, v, w, n, T, O, mr, x, y, Total(R2, GrowingIn(w, u)))
  BY ONLY w \in Nat, n \in Nat \ {0}, OnGrid(T, w), x \in 0..w, y \in Nat, <<x, y>> \notin T,
     <1>1, <1>3, <1>4, <1>7, <1>9, VisitEnds
<1>11. PICK R3 : /\ AfterWork(v, w, n, T, O, mr, x, y, R3)
                 /\ Total(R3, GrowingIn(w, v)) = Total(R2, GrowingIn(w, u))
                 /\ v.ready = u.ready /\ v.object = u.object
  BY <1>10 DEF WorkedAs
<1>12. PICK V, V2 : /\ V = Total(R, G) /\ V = Total(Rt, GrowingIn(w, t) \union E)
                    /\ V2 = Total(R2, GrowingIn(w, u)) /\ V2 = Total(R2, GrowingIn(w, u) \union E2)
  BY <1>2
<1>13. Delivers(t, u, mr[x], V, V2, Rt)
  BY <1>6, <1>12
<1>14. Outcome(v, V, V2, T, O, x, y, minarea)
  <2>1. CASE ~Completes(t, mr[x])
    BY <1>11, <1>13, <2>1 DEF Delivers, Outcome
  <2>2. CASE Completes(t, mr[x])
    <3>1. PICK C : C = Rt[<<"info", t.co>>]
      OBVIOUS
    <3>2. V2 = V \ C /\ t.cs # "OBJECT"
      BY <1>13, <2>2, <3>1 DEF Delivers
    <3>3. Closing(t, u, w, n, T, O, mr, x, y, E, Rt, R2)
      <4>1. AtMarker(t, w, n, T, O, mr, FALSE, x, x, y, E, {}, S, D, Rt)
        BY <1>2, <1>3 DEF AtMarker
      <4>2. Delivers(t, u, mr[x], Total(Rt, GrowingIn(w, t) \union E), Total(R2, GrowingIn(w, u) \union {}), Rt)
        BY <1>2, <1>6
      <4> QED BY <1>1, <1>7, <2>2, <4>1, <4>2 DEF Closing
    <3>4. IsRegion(C, T) /\ C \subseteq V
      <4>1. <<x - 1, y>> \notin T
        BY <1>2, <3>2
      <4> QED BY ONLY w \in Nat, n \in Nat \ {0}, OnGrid(T, w), x \in 0..w, y \in Nat, <<x, y>> \notin T, <1>4, <1>12, <3>1, <3>3, <4>1, CompletedRegion
    <3>5. HandsOver(u, C, O, minarea)
      BY ONLY w \in Nat, n \in Nat \ {0}, <1>3, <3>1, <3>3, CompletedOutcome
    <3>6. HandsOver(v, C, O, minarea)
      BY <1>11, <3>5 DEF HandsOver, Handed
    <3> QED BY <3>2, <3>4, <3>6 DEF Outcome
  <2> QED BY <2>1, <2>2
<1> QED BY <1>1, <1>11, <1>12, <1>14 DEF ThroughAs

(* A pixel that may be taken in, at the top of an iteration. *)
Visitable(s, w, n, T, O, R, x, y, lit, truncated) ==
  /\ AtTop(s, w, n, T, O, R) /\ OnGrid(T, w)
  /\ x = s.x /\ y = s.y /\ (lit <=> <<x, y>> \in T) /\ Edge(truncated, <<x, y>>, O)
  /\ lit => s.nextpix[s.free] # n - 1

(* So a visit adds the pixel, if lit, to the regions held, and hands over  *)
(* the one it completes.                                                   *)
LEMMA VisitThrough ==
  ASSUME NEW w \in Nat \ {0}, NEW n \in Nat \ {0}, NEW s, NEW T, NEW O, NEW R, NEW x, NEW y,
         NEW lit, NEW truncated,
         Visitable(s, w, n, T, O, R, x, y, lit, truncated), NEW minarea, NEW v,
         v = Worked(s, lit, truncated, minarea)
  PROVE  ThroughAs(s, v, w, n, T, O, x, y, minarea, Total(R, GrowingIn(w, s)))
<1>1. PICK X, c, k, t, u : VisitSteps(s, lit, truncated, minarea, x, X, c, k, t, u)
  BY DEF VisitSteps, Visitable
<1>2. /\ AtTop(s, w, n, T, O, R) /\ OnGrid(T, w) /\ x = s.x /\ y = s.y /\ (lit <=> <<x, y>> \in T)
      /\ Edge(truncated, <<x, y>>, O) /\ (lit => s.nextpix[s.free] # n - 1)
  BY DEF Visitable
<1>3. VisitHolds(s, w, lit, x, X, c, k, t, u)
  <2>1. LineInv(s, w)
    BY <1>2 DEF AtTop
  <2> QED BY ONLY w \in Nat \ {0}, <1>1, <2>1, WorkedSteps
<1>4. x \in 0..w /\ y \in Nat
  BY <1>2, <1>3 DEF VisitHolds, AtTop
<1>5. PICK E, B, Rt : ToMarker(s, t, w, n, T, O, lit, x, X, y, R, E, B, Rt)
  BY ONLY w \in Nat \ {0}, n \in Nat \ {0}, <1>1, <1>2, VisitToMarker
<1>6. CASE lit
  <2>1. <<x, y>> \in T
    BY <1>2, <1>6
  <2> QED BY ONLY w \in Nat \ {0}, n \in Nat \ {0}, v = Worked(s, lit, truncated, minarea), <1>1, <1>2, <1>3, <1>4, <1>5, <1>6, <2>1, VisitLit
<1>7. CASE ~lit
  <2>1. <<x, y>> \notin T
    BY <1>2, <1>7
  <2> QED BY ONLY w \in Nat \ {0}, n \in Nat \ {0}, v = Worked(s, lit, truncated, minarea), <1>1, <1>2, <1>3, <1>4, <1>5, <1>7, <2>1, VisitDark
<1> QED BY <1>6, <1>7

(* A visit leaves the markers of the columns after it alone. *)
LEMMA WorkedRest ==
  ASSUME NEW w \in Nat \ {0}, NEW s, LineInv(s, w), NEW lit, NEW truncated, NEW minarea,
         NEW v, v = Worked(s, lit, truncated, minarea)
  PROVE  \A i \in (s.x + 1)..w : v.marker[i] = s.marker[i]
<1>1. PICK x, X, c, k, t, u : VisitSteps(s, lit, truncated, minarea, x, X, c, k, t, u)
  BY DEF VisitSteps
<1>2. VisitHolds(s, w, lit, x, X, c, k, t, u)
  BY ONLY <1>1, w \in Nat \ {0}, LineInv(s, w), WorkedSteps
<1>3. /\ x \in 0..w /\ Inside(u, w) /\ Known(u, X) /\ u.x = x /\ x = s.x
      /\ ~lit => u.marker[x] = "none" /\ X = x
      /\ \A i \in (x + 1)..w : u.marker[i] = s.marker[i]
  BY <1>1, <1>2 DEF VisitHolds, VisitSteps
<1>4. v = IF lit THEN Update(u, u.co, u.curpix) ELSE EndSegment(u)
  BY <1>1 DEF VisitSteps, Worked
<1>5. CASE lit
  <2>1. Same(u, v)
    BY <1>3, <1>4, <1>5, UpdateSame DEF Inside, HasLine
  <2>2. v.marker = u.marker
    BY <2>1 DEF Same, Becomes
  <2> QED BY <1>3, <2>2
<1>6. CASE ~lit
  <2>1. w \in Nat /\ Inside(u, w) /\ Known(u, u.x) /\ u.marker[u.x] = "none" /\ v = EndSegment(u)
    BY <1>3, <1>4, <1>6
  <2>2. \A i \in (u.x + 1)..w : v.marker[i] = u.marker[i]
    BY ONLY <2>1, EndSegmentKeeps
  <2> QED BY <1>3, <2>2
<1> QED BY <1>5, <1>6

(* The end of a line is the beginning of the next one. *)
LEMMA LineTurned ==
  ASSUME NEW w \in Nat, NEW T, OnGrid(T, w), NEW y \in Nat, NEW y1, y1 = y + 1, NEW w1,
         w1 = w + 1, NEW R, NEW Q,
         Shapes(R, Q, Reached(T, w1, y), Corner(w1, y))
  PROVE  Shapes(R, Q, Reached(T, 0, y1), Corner(0, y1))
<1>1. Reached(T, 0, y1) = Reached(T, w1, y)
  <2>1. ASSUME NEW p \in T PROVE p \in Reached(T, 0, y1) <=> p \in Reached(T, w1, y)
    <3>1. p[1] \in 0..(w - 1) /\ p[2] \in Int
      BY DEF OnGrid, Cells
    <3>2. p[2] < y1 \/ (p[2] = y1 /\ p[1] < 0) <=> p[2] < y \/ (p[2] = y /\ p[1] < w1)
      BY <3>1
    <3> QED BY <3>2 DEF Reached
  <2> QED BY <2>1 DEF Reached
<1>2. PICK S, D : S = Reached(T, w1, y) /\ D = Corner(w1, y)
  OBVIOUS
<1>3. D \intersect S = {}
  <2>1. ASSUME NEW p \in T PROVE p \notin D
    <3>1. p[1] \in 0..(w - 1)
      BY DEF OnGrid
    <3>2. D = {<<w, y>>, <<w1, y - 1>>}
      BY <1>2 DEF Corner
    <3>3. p \in D => p[1] = w \/ p[1] = w1
      BY <3>2
    <3> QED BY <3>1, <3>3
  <2> QED BY <1>2, <2>1 DEF Reached
<1>4. Shapes(R, Q, S, {})
  <2>1. Shapes(R, Q, S, D)
    BY <1>2
  <2>2. ASSUME NEW a \in Q PROVE Shut(R[a], S, {})
    <3>1. R[a] \subseteq S /\ Shut(R[a], S, D)
      BY <2>1 DEF Shapes
    <3> QED BY <1>3, <3>1 DEF Shut
  <2> QED BY <2>1, <2>2 DEF Shapes
<1>5. PICK D2 : D2 = Corner(0, y1)
  OBVIOUS
<1>6. Shapes(R, Q, S, D2)
  BY <1>4, ShapesPending
<1> QED BY <1>1, <1>2, <1>5, <1>6

(* Moving on keeps what is held. *)
LEMMA AdvanceRest ==
  ASSUME NEW v, Fields \subseteq DOMAIN v, NEW w, NEW next, next = Advance(v, w)
  PROVE  /\ next.pix = v.pix /\ next.ready = v.ready /\ next.object = v.object
         /\ v.x < w => next.x = v.x + 1 /\ next.y = v.y
         /\ ~(v.x < w) => next.x = 0 /\ next.y = v.y + 1
<1>1. /\ "pix" \in DOMAIN v /\ "y" \in DOMAIN v /\ "ready" \in DOMAIN v /\ "object" \in DOMAIN v /\ "x" \in DOMAIN v
  BY DEF Fields, AllFields, LineFields
<1> QED BY <1>1 DEF Advance

(* Where the pixels held are V, after the visit and the move. *)
Arrives(next, w, n, T, O, V, V0, x, y, minarea) ==
  \E R : /\ AtTop(next, w, n, T, O, R) /\ V = Total(R, GrowingIn(w, next))
         /\ Outcome(next, V0, V, T, O, x, y, minarea)

(* A visit and the move to the next position. *)
LEMMA VisitArrives ==
  ASSUME NEW w \in Nat \ {0}, NEW n \in Nat \ {0}, NEW s, NEW T, NEW O, NEW R, NEW x, NEW y,
         NEW lit, NEW truncated,
         Visitable(s, w, n, T, O, R, x, y, lit, truncated), NEW minarea,
         NEW next, next = Visited(s, lit, truncated, minarea, w)
  PROVE  \E V : Arrives(next, w, n, T, O, V, Total(R, GrowingIn(w, s)), x, y, minarea)
<1>1. PICK v, V0 : v = Worked(s, lit, truncated, minarea) /\ V0 = Total(R, GrowingIn(w, s))
  OBVIOUS
<1>2. next = Advance(v, w)
  BY <1>1 DEF Visited, Worked, Cleared
<1>3. ThroughAs(s, v, w, n, T, O, x, y, minarea, V0)
  BY <1>1, VisitThrough
<1>4. /\ AtTop(s, w, n, T, O, R) /\ OnGrid(T, w) /\ LineInv(s, w) /\ Cellular(s, w, n, {}, {}) /\ y \in Nat
      /\ x = s.x /\ y = s.y /\ (lit <=> <<x, y>> \in T) /\ (lit => s.nextpix[s.free] # n - 1)
  BY DEF Visitable, AtTop
<1>5. PICK R3 : AfterWork(v, w, n, T, O, s.marker, x, y, R3) /\ Outcome(v, V0, Total(R3, GrowingIn(w, v)), T, O, x, y, minarea)
  BY <1>3 DEF ThroughAs
<1>6. /\ Inside(v, w) /\ Known(v, x + 1) /\ v.x = x /\ x \in 0..w
      /\ ~lit => v.cs = "NONOBJECT"
      /\ Rest(v.marker, Depth(v), Under(v), x + 1, w)
      /\ \A i \in (x + 1)..w : v.marker[i] = s.marker[i]
  <2>1. /\ Inside(v, w) /\ Known(v, s.x + 1) /\ v.x = s.x
        /\ ~lit => v.cs = "NONOBJECT"
        /\ Rest(v.marker, Depth(v), Under(v), s.x + 1, w)
    BY <1>1, <1>4, WorkedKeeps
  <2>2. \A i \in (s.x + 1)..w : v.marker[i] = s.marker[i]
    BY <1>1, <1>4, WorkedRest
  <2> QED BY <1>4, <2>1, <2>2 DEF Inside
<1>7. v.x = w => v.cs = "NONOBJECT"
  BY <1>4, <1>6 DEF OnGrid
<1>8. Cellular(v, w, n, {}, {})
  BY <1>1, <1>4, WorkedCells
<1>9. Fields \subseteq DOMAIN v /\ AllFields \subseteq DOMAIN v /\ "y" \in DOMAIN v
  BY <1>8 DEF Cellular, Fields
<1>10. SameCells(v, next) /\ GrowingIn(w, next) = GrowingIn(w, v) /\ DOMAIN next = DOMAIN v
  <2>1. SameCells(v, next) /\ next.marker = v.marker /\ next.start = v.start /\ next.co = v.co
    BY <1>2, <1>9, AdvanceCells
  <2> QED BY <2>1 DEF GrowingIn, SameCells, Holds
<1>11. Cellular(next, w, n, {}, {})
  BY <1>1, <1>2, <1>4, VisitedCells DEF Visited, Worked, Cleared
<1>12. LineInv(next, w)
  BY <1>2, <1>6, <1>7, AdvanceKeeps
<1>13. Tells(next, w, T, next.y, next.marker, next.x, next.x, next.x, R3)
  <2>1. v.y = y /\ Tells(v, w, T, y, s.marker, x + 1, x + 1, x + 1, R3)
    BY <1>5 DEF AfterWork
  <2>2. <<-1, v.y>> \notin T
    BY <1>4, <2>1 DEF OnGrid
  <2>3. v.y \in Int
    BY <1>4, <2>1
  <2> QED BY <1>2, <1>6, <1>7, <1>9, <2>1, <2>2, <2>3, TellsAdvance
<1>14. /\ next.pix = v.pix /\ next.ready = v.ready /\ next.object = v.object
       /\ v.x < w => next.x = v.x + 1 /\ next.y = v.y
       /\ ~(v.x < w) => next.x = 0 /\ next.y = v.y + 1
  BY <1>2, <1>9, AdvanceRest
<1>15. Pictured(next, n, O, GrowingIn(w, next), Reached(T, next.x, next.y), Corner(next.x, next.y), R3)
  <2>1. PICK x1, P : x1 = x + 1 /\ P = GrowingIn(w, v)
    OBVIOUS
  <2>2. v.y = y /\ Shapes(R3, P \ {Cur}, Reached(T, x1, y), Corner(x1, y)) /\ Depicts(v, n, O, P, R3)
    BY <1>5, <2>1 DEF AfterWork, Pictured
  <2>3. Depicts(next, n, O, P, R3)
    <3>1. \A at \in P : SameList(v, next, n, at, at)
      BY <1>10, ListsSame
    <3> QED BY <1>14, <2>2, <3>1, DepictsSame
  <2>4. CASE v.x < w
    <3>1. next.x = x1 /\ next.y = y
      BY <1>6, <1>14, <2>1, <2>2, <2>4
    <3> QED BY <1>10, <2>1, <2>2, <2>3, <3>1 DEF Pictured
  <2>5. CASE ~(v.x < w)
    <3>1. PICK y1 : y1 = y + 1
      OBVIOUS
    <3>2. next.x = 0 /\ next.y = y1 /\ x1 = w + 1
      BY <1>6, <1>14, <2>1, <2>2, <2>5, <3>1
    <3>3. Shapes(R3, P \ {Cur}, Reached(T, 0, y1), Corner(0, y1))
      BY <1>4, <2>2, <3>1, <3>2, LineTurned
    <3> QED BY <1>10, <2>1, <2>3, <3>2, <3>3 DEF Pictured
  <2> QED BY <2>4, <2>5
<1>16. next.y \in Nat /\ DOMAIN next.pix = 0..n-1
  BY <1>4, <1>5, <1>14 DEF AfterWork
<1>17. AtTop(next, w, n, T, O, R3)
  BY <1>11, <1>12, <1>13, <1>15, <1>16 DEF AtTop
<1>18. PICK V : V = Total(R3, GrowingIn(w, next)) /\ V = Total(R3, GrowingIn(w, v))
  BY <1>10
<1>19. Outcome(next, V0, V, T, O, x, y, minarea)
  <2>1. \A C : HandsOver(v, C, O, minarea) => HandsOver(next, C, O, minarea)
    BY <1>14 DEF HandsOver, Handed
  <2> QED BY <1>5, <1>14, <1>18, <2>1 DEF Outcome
<1> QED BY <1>1, <1>17, <1>18, <1>19 DEF Arrives

(* The catalog against the regions of T: U are the pixels the scan has reached *)
(* and holds no longer.                                                        *)
FlagRight(f, O) == f.flag = (RootOf(f) \intersect O # {})

(* An entry is a region of T among those U that were left, of enough       *)
(* pixels, with its true flag.                                             *)
GoodRoot(f, T, O, U, minarea) ==
  /\ IsRegion(RootOf(f), T) /\ RootOf(f) \subseteq U /\ Cardinality(RootOf(f)) >= minarea
  /\ FlagRight(f, O)

(* A region with an entry. *)
InCatalog(C, fs) == \E j \in DOMAIN fs : RootOf(fs[j]) = C

(* The entries are regions of T, each of them once, and all those of       *)
(* enough pixels.                                                          *)
Collected(T, O, U, fs, minarea) ==
  /\ \A p \in U : \E C : IsRegion(C, T) /\ C \subseteq U /\ p \in C
  /\ \A C : IsRegion(C, T) /\ C \subseteq U /\ Cardinality(C) >= minarea => InCatalog(C, fs)
  /\ \A j \in DOMAIN fs : GoodRoot(fs[j], T, O, U, minarea)
  /\ \A i, j \in DOMAIN fs : RootOf(fs[i]) = RootOf(fs[j]) => i = j

(* The catalog once a region C has been handed over, or dropped as too small. *)
Adds1(fs, fs2, C, O, minarea) ==
  \/ ~(Cardinality(C) >= minarea) /\ fs2 = fs
  \/ Cardinality(C) >= minarea /\ \E e : fs2 = Append(fs, e) /\ RootOf(e) = C /\ FlagRight(e, O)

(* A catalog with one entry more. *)
LEMMA EntryAdded ==
  ASSUME NEW F, NEW fs \in Seq(F), NEW e
  PROVE  /\ Append(fs, e) \in Seq(F \union {e})
         /\ \E n : /\ n \notin DOMAIN fs /\ n \in DOMAIN Append(fs, e) /\ Append(fs, e)[n] = e
                   /\ \A j \in DOMAIN Append(fs, e) : j = n \/ (j \in DOMAIN fs /\ Append(fs, e)[j] = fs[j])
                   /\ \A j \in DOMAIN fs : j \in DOMAIN Append(fs, e) /\ Append(fs, e)[j] = fs[j]
<1>1. fs \in Seq(F \union {e})
  OBVIOUS
<1>2. Append(fs, e) \in Seq(F \union {e})
  BY <1>1
<1>3. PICK n : n = Len(fs) + 1
  OBVIOUS
<1>4. /\ DOMAIN fs = 1..Len(fs) /\ DOMAIN Append(fs, e) = 1..n /\ Len(fs) \in Nat
      /\ Append(fs, e)[n] = e /\ \A j \in 1..Len(fs) : Append(fs, e)[j] = fs[j]
  BY <1>1, <1>3
<1>5. n \notin 1..Len(fs) /\ n \in 1..n /\ (\A j \in 1..n : j = n \/ j \in 1..Len(fs)) /\ \A j \in 1..Len(fs) : j \in 1..n
  BY <1>3, <1>4
<1> QED BY <1>2, <1>4, <1>5

(* A region given up by the pixels held joins the collection. *)
LEMMA CollectsOne ==
  ASSUME NEW T, NEW O, NEW U, NEW F, NEW fs \in Seq(F), NEW minarea,
         Collected(T, O, U, fs, minarea),
         NEW C, IsRegion(C, T), C \intersect U = {}, NEW fs2, Adds1(fs, fs2, C, O, minarea),
         NEW U2, U2 = U \union C
  PROVE  Collected(T, O, U2, fs2, minarea) /\ \E F2 : fs2 \in Seq(F2)
<1>1. \A p \in U2 : \E D : IsRegion(D, T) /\ D \subseteq U2 /\ p \in D
  <2>1. ASSUME NEW p \in U2 PROVE \E D : IsRegion(D, T) /\ D \subseteq U2 /\ p \in D
    <3>1. CASE p \in U
      <4>1. PICK D : IsRegion(D, T) /\ D \subseteq U /\ p \in D
        BY <3>1 DEF Collected
      <4> QED BY <4>1
    <3>2. CASE p \in C
      BY <3>2
    <3> QED BY <3>1, <3>2
  <2> QED BY <2>1
<1>2. ASSUME NEW D, IsRegion(D, T), D \subseteq U2 PROVE D = C \/ D \subseteq U
  <2>1. CASE D \intersect C = {}
    BY <1>2, <2>1
  <2>2. CASE D \intersect C # {}
    BY <1>2, <2>2, RegionsAreApart
  <2> QED BY <2>1, <2>2
<1>3. C # {}
  BY DEF IsRegion
<1>4. CASE ~(Cardinality(C) >= minarea) /\ fs2 = fs
  <2>1. ASSUME NEW D, IsRegion(D, T), D \subseteq U2, Cardinality(D) >= minarea PROVE InCatalog(D, fs2)
    <3>1. D \subseteq U
      BY <1>2, <1>4, <2>1
    <3> QED BY <1>4, <2>1, <3>1 DEF Collected
  <2>2. \A j \in DOMAIN fs2 : GoodRoot(fs2[j], T, O, U2, minarea)
    BY <1>4 DEF Collected, GoodRoot
  <2>3. \A i, j \in DOMAIN fs2 : RootOf(fs2[i]) = RootOf(fs2[j]) => i = j
    BY <1>4 DEF Collected
  <2> QED BY <1>1, <1>4, <2>1, <2>2, <2>3 DEF Collected
<1>5. CASE Cardinality(C) >= minarea /\ \E e : fs2 = Append(fs, e) /\ RootOf(e) = C /\ FlagRight(e, O)
  <2>1. PICK e : fs2 = Append(fs, e) /\ RootOf(e) = C /\ FlagRight(e, O)
    BY <1>5
  <2>2. /\ fs2 \in Seq(F \union {e})
        /\ \E n : /\ n \notin DOMAIN fs /\ n \in DOMAIN fs2 /\ fs2[n] = e
                  /\ \A j \in DOMAIN fs2 : j = n \/ (j \in DOMAIN fs /\ fs2[j] = fs[j])
                  /\ \A j \in DOMAIN fs : j \in DOMAIN fs2 /\ fs2[j] = fs[j]
    BY <2>1, EntryAdded
  <2>3. PICK n : /\ n \notin DOMAIN fs /\ n \in DOMAIN fs2 /\ fs2[n] = e
                 /\ \A j \in DOMAIN fs2 : j = n \/ (j \in DOMAIN fs /\ fs2[j] = fs[j])
                 /\ \A j \in DOMAIN fs : j \in DOMAIN fs2 /\ fs2[j] = fs[j]
    BY <2>2
  <2>4. ASSUME NEW D, IsRegion(D, T), D \subseteq U2, Cardinality(D) >= minarea PROVE InCatalog(D, fs2)
    <3>1. CASE D = C
      BY <2>1, <2>3, <3>1 DEF InCatalog
    <3>2. CASE D \subseteq U
      <4>1. InCatalog(D, fs)
        BY <2>4, <3>2 DEF Collected
      <4> QED BY <2>3, <4>1 DEF InCatalog
    <3> QED BY <1>2, <2>4, <3>1, <3>2
  <2>5. ASSUME NEW j \in DOMAIN fs PROVE GoodRoot(fs[j], T, O, U, minarea) /\ RootOf(fs[j]) # C
    <3>1. GoodRoot(fs[j], T, O, U, minarea)
      BY DEF Collected
    <3> QED BY <1>3, <3>1 DEF GoodRoot
  <2>6. ASSUME NEW j \in DOMAIN fs2 PROVE GoodRoot(fs2[j], T, O, U2, minarea)
    <3>1. CASE j = n
      BY <1>5, <2>1, <2>3, <3>1 DEF GoodRoot
    <3>2. CASE j \in DOMAIN fs /\ fs2[j] = fs[j]
      BY <2>5, <3>2 DEF GoodRoot
    <3> QED BY <2>3, <3>1, <3>2
  <2>7. ASSUME NEW i \in DOMAIN fs2, NEW j \in DOMAIN fs2, RootOf(fs2[i]) = RootOf(fs2[j]) PROVE i = j
    <3>1. CASE i = n /\ j = n
      BY <3>1
    <3>2. CASE i = n /\ j \in DOMAIN fs /\ fs2[j] = fs[j]
      BY <2>1, <2>3, <2>5, <2>7, <3>2
    <3>3. CASE j = n /\ i \in DOMAIN fs /\ fs2[i] = fs[i]
      BY <2>1, <2>3, <2>5, <2>7, <3>3
    <3>4. CASE i \in DOMAIN fs /\ fs2[i] = fs[i] /\ j \in DOMAIN fs /\ fs2[j] = fs[j]
      <4>1. RootOf(fs[i]) = RootOf(fs[j])
        BY <2>7, <3>4
      <4> QED BY <3>4, <4>1 DEF Collected
    <3> QED BY <2>3, <3>1, <3>2, <3>3, <3>4
  <2> QED BY <1>1, <2>2, <2>4, <2>6, <2>7 DEF Collected
<1> QED BY <1>4, <1>5, Zenon DEF Adds1

(* A call begins at the top of a visit. *)
LEMMA AtTopNew ==
  ASSUME NEW w \in Nat \ {0}, NEW n \in Nat \ {0, 1}, NEW s, s = NewScan(w, n), NEW T,
         NEW h \in Nat, T \subseteq Pixels(w, h), NEW O
  PROVE  \E R : AtTop(s, w, n, T, O, R) /\ Reached(T, s.x, s.y) \ Total(R, GrowingIn(w, s)) = {}
<1>1. PICK R : R = {}
  OBVIOUS
<1>2. s.x = 0 /\ s.y = 0 /\ DOMAIN s.pix = 0..n-1
  BY DEF NewScan
<1>3. LineInv(s, w) /\ Cellular(s, w, n, {}, {})
  BY NewScanKeeps, NewScanCells
<1>4. GrowingIn(w, s) = {}
  <2>1. PICK m, start : m = [i \in 0..w |-> "none"] /\ start = [i \in 0..w |-> 0]
    OBVIOUS
  <2>2. s.marker = m /\ s.start = start /\ s.co = 0
    BY <2>1 DEF NewScan
  <2>3. \A d \in 0..w : m[d] # "S"
    BY <2>1
  <2> QED BY <2>2, <2>3 DEF GrowingIn, GrowingAt, Waits
<1>5. \A p \in T : p[1] \in Int /\ p[2] \in Nat /\ p \in Cells
  BY DEF Pixels, Cells
<1>6. Reached(T, 0, 0) = {} /\ \A c : <<c, -1>> \notin T
  <2>1. ASSUME NEW c PROVE <<c, -1>> \notin T
    <3>1. PICK p : p = <<c, -1>>
      OBVIOUS
    <3>2. p[2] = -1
      BY <3>1
    <3> QED BY <1>5, <3>1, <3>2
  <2>2. ASSUME NEW p \in T PROVE p \notin Reached(T, 0, 0)
    <3>1. p[2] \in Nat /\ p[1] \in 0..(w - 1)
      BY DEF Pixels
    <3> QED BY <3>1 DEF Reached
  <2> QED BY <2>1, <2>2 DEF Reached
<1>7. Tells(s, w, T, s.y, s.marker, s.x, s.x, s.x, R)
  BY <1>6, TellsNew
<1>8. Pictured(s, n, O, {}, {}, Corner(s.x, s.y), R)
  BY DEF Pictured, Shapes, Depicts
<1>9. AtTop(s, w, n, T, O, R)
  <2>1. Reached(T, s.x, s.y) = {}
    BY <1>2, <1>6
  <2>2. Pictured(s, n, O, GrowingIn(w, s), Reached(T, s.x, s.y), Corner(s.x, s.y), R)
    BY <1>4, <1>8, <2>1
  <2>3. s.y \in Nat
    BY <1>2
  <2> QED BY <1>2, <1>3, <1>7, <2>2, <2>3 DEF AtTop
<1> QED BY <1>2, <1>6, <1>9

(* The pixels on the border of the image. *)
Border == {p \in Cells : OnBorder(p, img.w, img.h)}

(* The pixels above a threshold lie on the image. *)
LEMMA BrightFacts ==
  ASSUME img \in Images, retry \in Nat, NEW w, w = img.w, NEW h, h = img.h
  PROVE  /\ w \in Nat \ {0} /\ h \in Nat \ {0} /\ Bright \subseteq Pixels(w, h)
         /\ Bright \subseteq Cells /\ IsFiniteSet(Bright) /\ OnGrid(Bright, w)
<1>1. w \in Nat \ {0} /\ h \in Nat \ {0} /\ Bright \subseteq Pixels(w, h)
  BY ExtractionAssumption DEF Bright, Grid
<1>2. IsFiniteSet(Pixels(w, h)) /\ Pixels(w, h) \subseteq Cells
  <2>1. IsFiniteSet(0..(w - 1)) /\ IsFiniteSet(0..(h - 1))
    <3>1. w - 1 \in Int /\ h - 1 \in Int /\ 0 \in Int
      BY <1>1
    <3> QED BY <3>1, FS_Interval
  <2>2. IsFiniteSet(Pixels(w, h))
    BY <2>1, FS_Product DEF Pixels
  <2> QED BY <1>1, <2>2 DEF Pixels, Cells
<1>3. IsFiniteSet(Bright) /\ Bright \subseteq Cells
  BY <1>1, <1>2, FS_Subset
<1>4. \A p \in Bright : p[1] \in 0..(w - 1) /\ p[2] \in 0..(h - 1)
  BY <1>1 DEF Pixels
<1>5. ASSUME NEW a, NEW b, <<a, b>> \in Bright PROVE a \in 0..(w - 1) /\ b \in 0..(h - 1)
  <2>1. PICK p : p = <<a, b>>
    OBVIOUS
  <2>2. p[1] = a /\ p[2] = b
    BY <2>1
  <2> QED BY <1>4, <1>5, <2>1, <2>2
<1>6. ~(-1 \in 0..(w - 1)) /\ ~(w \in 0..(w - 1)) /\ ~(-1 \in 0..(h - 1))
  BY <1>1
<1>7. /\ \A y : <<-1, y>> \notin Bright /\ <<w, y>> \notin Bright
      /\ \A x : <<x, -1>> \notin Bright
  BY <1>5, <1>6
<1> QED BY <1>1, <1>3, <1>4, <1>7 DEF OnGrid

(* The scan holds what it must, and the catalog has the other regions seen. *)
ScansRegions(s, w, n, T, O, fs, minarea) ==
  \E R : /\ AtTop(s, w, n, T, O, R)
         /\ Collected(T, O, Reached(T, s.x, s.y) \ Total(R, GrowingIn(w, s)), fs, minarea)

(* A visit and what becomes of the catalog. *)
Catalogued(next, fs, fs2) ==
  \/ next.ready = Blank /\ fs2 = fs
  \/ next.ready # Blank /\ \E e : fs2 = Append(fs, e) /\ RootOf(e) = Handed(next) /\ e.flag = next.ready.flag

(* The pixels held are some of those reached. *)
LEMMA HeldReached ==
  ASSUME NEW s, NEW w, NEW n, NEW T, NEW O, NEW R, AtTop(s, w, n, T, O, R)
  PROVE  Total(R, GrowingIn(w, s)) \subseteq Reached(T, s.x, s.y)
<1>1. PICK Q, S, D : Q = GrowingIn(w, s) \ {Cur} /\ S = Reached(T, s.x, s.y) /\ D = Corner(s.x, s.y)
  OBVIOUS
<1>2. Shapes(R, Q, S, D)
  BY <1>1 DEF AtTop, Pictured
<1>3. \A a \in Q : R[a] \subseteq S
  BY <1>2 DEF Shapes
<1>4. Total(R, GrowingIn(w, s)) = UNION {R[a] : a \in Q}
  BY <1>1 DEF Total, AllOf
<1> QED BY <1>1, <1>3, <1>4

(* The pixels reached at the next position. *)
LEMMA ReachedOn ==
  ASSUME NEW w \in Nat \ {0}, NEW T, OnGrid(T, w), NEW x \in 0..w, NEW y \in Nat,
         NEW S, S = Reached(T, x, y),
         NEW x2, NEW y2, IF x < w THEN x2 = x + 1 /\ y2 = y ELSE x2 = 0 /\ y2 = y + 1,
         NEW S2, S2 = Reached(T, x2, y2), NEW p, p = <<x, y>>
  PROVE  /\ p \in T => S2 = S \union {p}
         /\ p \notin T => S2 = S
         /\ p \notin S
<1>1. /\ p \in T => Reached(T, x + 1, y) = S \union {p}
      /\ p \notin T => Reached(T, x + 1, y) = S
      /\ p \notin S
  BY ReachedNext DEF OnGrid
<1>2. S2 = Reached(T, x + 1, y)
  <2>1. ASSUME NEW q \in T PROVE q \in S2 <=> q \in Reached(T, x + 1, y)
    <3>1. q[1] \in 0..(w - 1) /\ q[2] \in Int
      BY DEF OnGrid, Cells
    <3>2. q[2] < y2 \/ (q[2] = y2 /\ q[1] < x2) <=> q[2] < y \/ (q[2] = y /\ q[1] < x + 1)
      BY <3>1
    <3> QED BY <3>2 DEF Reached
  <2> QED BY <2>1 DEF Reached
<1> QED BY <1>1, <1>2

(* A visit keeps the catalog in step with the regions left behind. *)
LEMMA VisitCollects ==
  ASSUME NEW w \in Nat \ {0}, NEW n \in Nat \ {0}, NEW s, NEW T, NEW O, NEW minarea, NEW F,
         NEW fs \in Seq(F),
         ScansRegions(s, w, n, T, O, fs, minarea), OnGrid(T, w), NEW lit, NEW truncated,
         lit <=> <<s.x, s.y>> \in T,
         Edge(truncated, <<s.x, s.y>>, O), lit => s.nextpix[s.free] # n - 1,
         NEW next, next = Visited(s, lit, truncated, minarea, w),
         IF s.x < w THEN next.x = s.x + 1 /\ next.y = s.y ELSE next.x = 0 /\ next.y = s.y + 1,
         NEW fs2, Catalogued(next, fs, fs2)
  PROVE  ScansRegions(next, w, n, T, O, fs2, minarea) /\ \E F2 : fs2 \in Seq(F2)
<1>1. PICK R, S, V : /\ AtTop(s, w, n, T, O, R) /\ S = Reached(T, s.x, s.y) /\ V = Total(R, GrowingIn(w, s))
                     /\ Collected(T, O, S \ V, fs, minarea)
  BY DEF ScansRegions
<1>2. PICK x, y, p : x = s.x /\ y = s.y /\ p = <<x, y>>
  OBVIOUS
<1>3. Visitable(s, w, n, T, O, R, x, y, lit, truncated)
  BY <1>1, <1>2 DEF Visitable
<1>4. \E V2 : Arrives(next, w, n, T, O, V2, Total(R, GrowingIn(w, s)), x, y, minarea)
  BY ONLY <1>3, w \in Nat \ {0}, n \in Nat \ {0}, next = Visited(s, lit, truncated, minarea, w),
     VisitArrives
<1>5. PICK V2, R2, S2 : /\ AtTop(next, w, n, T, O, R2) /\ V2 = Total(R2, GrowingIn(w, next)) /\ S2 = Reached(T, next.x, next.y)
                        /\ Outcome(next, V, V2, T, O, x, y, minarea)
  BY <1>1, <1>4 DEF Arrives
<1>6. x \in 0..w /\ y \in Nat
  BY <1>1, <1>2 DEF AtTop, LineInv, Inside
<1>7. /\ p \in T => S2 = S \union {p}
      /\ p \notin T => S2 = S
      /\ p \notin S
  <2>1. PICK x2, y2 : x2 = next.x /\ y2 = next.y
    OBVIOUS
  <2>2. IF x < w THEN x2 = x + 1 /\ y2 = y ELSE x2 = 0 /\ y2 = y + 1
    BY <1>2, <2>1
  <2>3. S = Reached(T, x, y) /\ S2 = Reached(T, x2, y2)
    BY <1>1, <1>2, <1>5, <2>1
  <2> QED BY ONLY <1>2, <1>6, <2>2, <2>3, w \in Nat \ {0}, OnGrid(T, w), ReachedOn
<1>8. V \subseteq S /\ V2 \subseteq S2
  BY <1>1, <1>5, HeldReached
<1>9. SUFFICES Collected(T, O, S2 \ V2, fs2, minarea) /\ \E F2 : fs2 \in Seq(F2)
  BY <1>5 DEF ScansRegions
<1> DEFINE None1 == ((p \in T /\ V2 = V \union {p}) \/ (p \notin T /\ V2 = V)) /\ next.ready = Blank
           One1 == p \notin T /\ \E C : IsRegion(C, T) /\ C \subseteq V /\ V2 = V \ C /\ HandsOver(next, C, O, minarea)
<1>10. CASE None1
  <2>1. S2 \ V2 = S \ V
    BY <1>7, <1>8, <1>10
  <2>2. fs2 = fs
    BY <1>10 DEF Catalogued
  <2> QED BY <1>1, <2>1, <2>2
<1>11. CASE One1
  <2>1. PICK C : IsRegion(C, T) /\ C \subseteq V /\ V2 = V \ C /\ HandsOver(next, C, O, minarea)
    BY <1>11
  <2>2. PICK U, U2 : U = S \ V /\ U2 = S2 \ V2
    OBVIOUS
  <2>3. U2 = U \union C /\ C \intersect U = {}
    BY <1>7, <1>8, <1>11, <2>1, <2>2
  <2>4. Adds1(fs, fs2, C, O, minarea)
    <3>1. CASE Cardinality(C) >= minarea
      <4>1. next.ready # Blank /\ next.ready.flag = (C \intersect O # {}) /\ Handed(next) = C
        BY <2>1, <3>1 DEF HandsOver
      <4>2. PICK e : fs2 = Append(fs, e) /\ RootOf(e) = C /\ e.flag = next.ready.flag
        BY <4>1 DEF Catalogued
      <4>3. FlagRight(e, O)
        BY <4>1, <4>2, Zenon DEF FlagRight
      <4> QED BY <3>1, <4>2, <4>3 DEF Adds1
    <3>2. CASE ~(Cardinality(C) >= minarea)
      <4>1. next.ready = Blank
        BY <2>1, <3>2 DEF HandsOver
      <4> QED BY <3>2, <4>1 DEF Catalogued, Adds1
    <3> QED BY <3>1, <3>2
  <2>5. Collected(T, O, U, fs, minarea)
    BY <1>1, <2>2
  <2>6. Collected(T, O, U2, fs2, minarea) /\ \E F2 : fs2 \in Seq(F2)
    <3>1. IsRegion(C, T)
      BY <2>1
    <3> QED BY ONLY <3>1, <2>3, <2>4, <2>5, fs \in Seq(F), CollectsOne
  <2> QED BY <2>2, <2>6
<1>12. Outcome(next, V, V2, T, O, x, y, minarea) /\ p = <<x, y>>
  BY <1>2, <1>5
<1>13. None1 \/ One1
  BY ONLY <1>12 DEF Outcome
<1> QED BY <1>10, <1>11, <1>13

(* The invariant of the regions: what is handed over are regions of enough   *)
(* pixels and, unless the call failed, the scan holds the regions that may   *)
(* still grow while the catalog has the others.                              *)
RegionInv ==
  /\ CellInv
  /\ \E F : found \in Seq(F)
  /\ \A j \in DOMAIN found : IsRegion(RootOf(found[j]), Bright) /\ Cardinality(RootOf(found[j])) >= MinArea
  /\ status \in {"scanning", "done"} => ScansRegions(scan, img.w, stack, Bright, Border, found, MinArea)
  /\ status = "done" => Scanned

(* A call begins with an empty catalog and nothing held. *)
LEMMA RegionNew ==
  ASSUME NEW w \in Nat \ {0}, NEW h \in Nat, NEW n \in Nat \ {0, 1},
         NEW T, T \subseteq Pixels(w, h), NEW O,
         NEW s, s = NewScan(w, n), NEW fs, fs = <<>>, NEW minarea
  PROVE  ScansRegions(s, w, n, T, O, fs, minarea) /\ fs \in Seq({}) /\ DOMAIN fs = {}
<1>1. \E R : AtTop(s, w, n, T, O, R) /\ Reached(T, s.x, s.y) \ Total(R, GrowingIn(w, s)) = {}
  BY AtTopNew
<1>2. PICK R, U : AtTop(s, w, n, T, O, R) /\ U = Reached(T, s.x, s.y) \ Total(R, GrowingIn(w, s)) /\ U = {}
  BY <1>1
<1>3. fs \in Seq({}) /\ DOMAIN fs = {}
  OBVIOUS
<1>4. Collected(T, O, U, fs, minarea)
  BY <1>2, <1>3 DEF Collected, IsRegion
<1>5. ScansRegions(s, w, n, T, O, fs, minarea)
  BY <1>2, <1>4 DEF ScansRegions
<1> QED BY <1>3, <1>5

(* The invariant of the regions holds at first ... *)
LEMMA RegionInit == Init => RegionInv
<1> SUFFICES ASSUME Init PROVE RegionInv
  OBVIOUS
<1>1. CellInv
  BY CellInit
<1>2. img \in Images /\ stack \in Stacks /\ retry \in Nat /\ scan = NewScan(img.w, stack) /\ found = <<>> /\ status = "scanning"
  BY DEF Init
<1>3. ScansRegions(scan, img.w, stack, Bright, Border, found, MinArea) /\ found \in Seq({}) /\ DOMAIN found = {}
  <2>1. PICK w, h, n, T, O : w = img.w /\ h = img.h /\ n = stack /\ T = Bright /\ O = Border
    OBVIOUS
  <2>2. w \in Nat \ {0} /\ h \in Nat /\ n \in Nat \ {0, 1} /\ T \subseteq Pixels(w, h)
    BY <1>2, <2>1, ExtractionAssumption DEF Bright, Grid
  <2>3. scan = NewScan(w, n) /\ found = <<>>
    BY <1>2, <2>1
  <2> QED BY <2>1, <2>2, <2>3, RegionNew
<1> QED BY <1>1, <1>2, <1>3 DEF RegionInv

(* A visit, whether it hands over a region or not. *)
LEMMA RegionVisit ==
  ASSUME RegionInv, CanVisit, scan' = NextScan, UNCHANGED <<img, stack, retry, status>>,
         Catalogued(scan', found, found')
  PROVE  /\ ScansRegions(scan', img.w, stack, Bright, Border, found', MinArea)
         /\ \E F : found' \in Seq(F)
<1>1. PICK w, n, T, O, fs, fs2, next, lit, truncated :
        /\ w = img.w /\ n = stack /\ T = Bright /\ O = Border /\ fs = found /\ fs2 = found' /\ next = scan'
        /\ lit = Lit /\ truncated = Truncated
  OBVIOUS
<1>2. PlaceInv /\ ScanInv
  BY DEF RegionInv, CellInv, ScanInv
<1>3. retry \in Nat /\ img \in Images /\ stack \in Stacks
  BY <1>2, ExtractionAssumption DEF PlaceInv, ScanInv
<1>4. w \in Nat \ {0} /\ OnGrid(T, w) /\ n \in Nat \ {0}
  BY <1>1, <1>3, BrightFacts, ExtractionAssumption
<1>5. PICK F : fs \in Seq(F)
  BY <1>1 DEF RegionInv
<1>6. ScansRegions(scan, w, n, T, O, fs, MinArea)
  BY <1>1 DEF RegionInv, CanVisit
<1>7. /\ lit <=> <<scan.x, scan.y>> \in T
      /\ lit => scan.nextpix[scan.free] # n - 1
  BY <1>1 DEF Lit, CanVisit, LastCellLeft
<1>8. Edge(truncated, <<scan.x, scan.y>>, O)
  <2>1. <<scan.x, scan.y>> \in Cells
    BY <1>2 DEF PlaceInv, Cells
  <2>2. truncated = OnBorder(<<scan.x, scan.y>>, img.w, img.h)
    BY <1>1 DEF Truncated
  <2>3. <<scan.x, scan.y>> \in O <=> OnBorder(<<scan.x, scan.y>>, img.w, img.h)
    BY <1>1, <2>1 DEF Border
  <2>4. OnBorder(<<scan.x, scan.y>>, img.w, img.h) \in BOOLEAN
    BY DEF OnBorder
  <2>5. CASE truncated = TRUE
    <3>1. (<<scan.x, scan.y>> \in O) = TRUE
      BY <2>2, <2>3, <2>5
    <3> QED BY <2>5, <3>1, Zenon DEF Edge
  <2>6. CASE truncated = FALSE
    <3>1. (<<scan.x, scan.y>> \in O) = FALSE
      BY <2>2, <2>3, <2>6
    <3> QED BY <2>6, <3>1, Zenon DEF Edge
  <2> QED BY <2>2, <2>4, <2>5, <2>6
<1>9. next = Visited(scan, lit, truncated, MinArea, w)
  BY <1>1 DEF NextScan
<1>10. IF scan.x < w THEN next.x = scan.x + 1 /\ next.y = scan.y ELSE next.x = 0 /\ next.y = scan.y + 1
  BY <1>1, <1>2, VisitKeeps
<1>11. Catalogued(next, fs, fs2)
  BY <1>1
<1>12. ScansRegions(next, w, n, T, O, fs2, MinArea) /\ \E F2 : fs2 \in Seq(F2)
  BY ONLY <1>4, <1>5, <1>6, <1>7, <1>8, <1>9, <1>10, <1>11, VisitCollects
<1> QED BY <1>1, <1>12

(* ... and is kept by every step of the service. *)
LEMMA RegionNext == RegionInv /\ [Next]_vars => RegionInv'
<1> SUFFICES ASSUME RegionInv, [Next]_vars PROVE RegionInv'
  OBVIOUS
<1>1. CellInv'
  BY CellNext DEF RegionInv
<1>2. img' = img /\ stack' = stack /\ Border' = Border
  BY DEF Next, vars, StackFull, Visit, Sortit, DeblendOverflow, Finish, Retry, GiveUp, Stopped,
     Border
<1>3. PlaceInv /\ retry \in Nat /\ img \in Images /\ stack \in Stacks
  BY ExtractionAssumption DEF RegionInv, CellInv, ScanInv, PlaceInv
<1>4. ASSUME retry' = retry PROVE Bright' = Bright
  BY <1>2, <1>4 DEF Bright, Grid, Threshold
<1>5. ASSUME retry' = retry, found' = found
      PROVE  /\ \E F : found' \in Seq(F)
             /\ \A j \in DOMAIN found' : IsRegion(RootOf(found'[j]), Bright') /\ Cardinality(RootOf(found'[j])) >= MinArea
  BY <1>4, <1>5 DEF RegionInv
<1>6. ASSUME UNCHANGED <<retry, status, scan, found>> PROVE RegionInv'
  BY <1>1, <1>2, <1>4, <1>5, <1>6 DEF RegionInv, Scanned
<1>7. ASSUME Finish PROVE RegionInv'
  BY <1>1, <1>2, <1>4, <1>5, <1>7 DEF RegionInv, Scanned, Finish
<1>8. ASSUME StackFull \/ DeblendOverflow \/ GiveUp PROVE RegionInv'
  <2>1. retry' = retry /\ found' = found /\ status' \notin {"scanning", "done"}
    BY <1>8 DEF StackFull, DeblendOverflow, GiveUp
  <2> QED BY <1>1, <1>5, <2>1 DEF RegionInv
<1>9. ASSUME Retry PROVE RegionInv'
  <2>1. retry' \in Nat /\ scan' = NewScan(img.w, stack) /\ found' = <<>> /\ status' = "scanning"
    BY <1>3, <1>9 DEF Retry
  <2>2. PICK w, h, n, T, O : w = img.w /\ h = img.h /\ n = stack /\ T = Bright' /\ O = Border'
    OBVIOUS
  <2>3. ScansRegions(scan', img'.w, stack', Bright', Border', found', MinArea) /\ found' \in Seq({}) /\ DOMAIN found' = {}
    <3>1. w \in Nat \ {0} /\ h \in Nat /\ n \in Nat \ {0, 1} /\ T \subseteq Pixels(w, h)
      BY <1>2, <1>3, <2>2, ExtractionAssumption DEF Bright, Grid
    <3>2. scan' = NewScan(w, n) /\ found' = <<>>
      BY <2>1, <2>2
    <3>3. ScansRegions(scan', w, n, T, O, found', MinArea) /\ found' \in Seq({}) /\ DOMAIN found' = {}
      BY ONLY <3>1, <3>2, RegionNew
    <3> QED BY <1>2, <2>2, <3>3
  <2> QED BY <1>1, <2>1, <2>3 DEF RegionInv
<1>10. ASSUME Visit \/ Sortit PROVE RegionInv'
  <2>1. CanVisit /\ scan' = NextScan /\ UNCHANGED <<img, stack, retry, status>>
    BY <1>10 DEF Visit, Sortit
  <2>2. Catalogued(scan', found, found')
    <3>1. CASE Visit
      BY <3>1 DEF Visit, Ready, Catalogued
    <3>2. CASE Sortit
      <4>1. PICK parts : found' = Append(found, [root |-> NextScan.object, flag |-> NextScan.ready.flag, parts |-> parts])
        BY <3>2 DEF Sortit
      <4>2. PICK e : e = [root |-> NextScan.object, flag |-> NextScan.ready.flag, parts |-> parts]
        OBVIOUS
      <4>3. e.flag = NextScan.ready.flag /\ RootOf(e) = Handed(NextScan)
        BY <4>2 DEF RootOf, Handed
      <4>4. scan'.ready # Blank
        BY <2>1, <3>2 DEF Sortit, Ready
      <4> QED BY <2>1, <4>1, <4>2, <4>3, <4>4 DEF Catalogued
    <3> QED BY <1>10, <3>1, <3>2
  <2>3. ScansRegions(scan', img.w, stack, Bright, Border, found', MinArea) /\ \E F : found' \in Seq(F)
    BY <2>1, <2>2, RegionVisit
  <2>4. ScansRegions(scan', img'.w, stack', Bright', Border', found', MinArea) /\ status' = "scanning"
    BY <1>2, <1>4, <2>1, <2>3 DEF CanVisit
  <2>5. \A j \in DOMAIN found' : IsRegion(RootOf(found'[j]), Bright') /\ Cardinality(RootOf(found'[j])) >= MinArea
    BY <2>4 DEF ScansRegions, Collected, GoodRoot
  <2> QED BY <1>1, <2>3, <2>4, <2>5 DEF RegionInv
<1> QED BY <1>6, <1>7, <1>8, <1>9, <1>10 DEF Next, vars, Stopped

(* Nothing grows below an empty line. *)
LEMMA NothingBelow ==
  ASSUME NEW w \in Nat \ {0}, NEW n, NEW s, NEW T, NEW O, NEW R,
         AtTop(s, w, n, T, O, R), s.x = 0, s.y \in Nat \ {0},
         \A c : <<c, s.y - 1>> \notin T
  PROVE  GrowingIn(w, s) = {}
<1>1. s.co = 0
  BY LineRoom DEF AtTop
<1>2. PICK mr, y : mr = s.marker /\ y = s.y - 1
  OBVIOUS
<1>3. Recalls(T, y, mr, s.psstack, s.ps, s.cs, s.co, 0, w, R)
  BY <1>2 DEF AtTop, Tells
<1>4. PICK h, m : Ahead(mr, h, m, 0, w) /\ Drawn(T, y, m, 0 - 1, w)
  BY <1>3 DEF Recalls
<1>5. ASSUME NEW c \in 0..w PROVE mr[c] # "S"
  <2>1. Turn(mr[c], h[c], m[c], h[c + 1], m[c + 1])
    BY <1>4 DEF Ahead, Reads
  <2>2. m[c + 1] # 1
    <3>1. <<c, y>> \in T <=> m[c + 1] = 1
      <4>1. c \in (0 - 1)..w
        OBVIOUS
      <4> QED BY <1>4, <4>1 DEF Drawn
    <3>2. <<c, y>> \notin T
      BY <1>2
    <3> QED BY <3>1, <3>2
  <2> QED BY <2>1, <2>2 DEF Turn
<1> QED BY <1>1, <1>2, <1>5 DEF GrowingIn, GrowingAt, Waits

(* At the end everything has been reached and nothing is held. *)
LEMMA DoneCollects ==
  ASSUME RegionInv, status = "done"
  PROVE  Collected(Bright, Border, Bright, found, MinArea)
<1>1. PlaceInv /\ img \in Images /\ stack \in Stacks
  BY DEF RegionInv, CellInv, ScanInv
<1>2. PICK w, h, T, O : w = img.w /\ h = img.h /\ T = Bright /\ O = Border
  OBVIOUS
<1>3. w \in Nat \ {0} /\ h \in Nat \ {0} /\ T \subseteq Pixels(w, h)
  BY <1>1, <1>2, BrightFacts, ExtractionAssumption DEF PlaceInv
<1>4. scan.x = 0 /\ scan.y = h + 1
  BY <1>1, <1>2, <1>3 DEF RegionInv, Scanned, PlaceInv
<1>5. PICK R : AtTop(scan, w, stack, T, O, R) /\ Collected(T, O, Reached(T, scan.x, scan.y) \ Total(R, GrowingIn(w, scan)), found, MinArea)
  BY <1>2 DEF RegionInv, ScansRegions
<1>6. ASSUME NEW c PROVE <<c, scan.y - 1>> \notin T
  <2>1. PICK p : p = <<c, scan.y - 1>>
    OBVIOUS
  <2>2. p[2] = h
    BY <1>3, <1>4, <2>1
  <2>3. p \in T => p[2] \in 0..(h - 1)
    BY <1>3 DEF Pixels
  <2> QED BY <1>3, <2>1, <2>2, <2>3
<1>7. GrowingIn(w, scan) = {}
  <2>1. scan.y \in Nat \ {0}
    BY <1>3, <1>4
  <2> QED BY <1>3, <1>4, <1>5, <1>6, <2>1, NothingBelow
<1>8. Reached(T, scan.x, scan.y) = T
  <2>1. ASSUME NEW p \in T PROVE p[2] < scan.y
    <3>1. p[2] \in 0..(h - 1)
      BY <1>3 DEF Pixels
    <3> QED BY <1>3, <1>4, <3>1
  <2> QED BY <2>1 DEF Reached
<1>9. Total(R, GrowingIn(w, scan)) = {}
  BY <1>7 DEF Total, AllOf
<1> QED BY <1>2, <1>5, <1>8, <1>9

(* As many regions as entries. *)
LEMMA RootsCounted ==
  ASSUME NEW F, found \in Seq(F), \A i, j \in DOMAIN found : RootOf(found[i]) = RootOf(found[j]) => i = j
  PROVE  Len(found) = Cardinality(Roots)
<1> DEFINE f == [j \in 1..Len(found) |-> RootOf(found[j])]
<1>1. Len(found) \in Nat /\ DOMAIN found = 1..Len(found)
  OBVIOUS
<1>2. f \in [1..Len(found) -> Roots] /\ \A j \in 1..Len(found) : f[j] = RootOf(found[j])
  BY <1>1 DEF Roots
<1>3. \A C \in Roots : \E j \in 1..Len(found) : f[j] = C
  BY <1>1, <1>2 DEF Roots
<1>4. \A i, j \in 1..Len(found) : f[i] = f[j] => i = j
  BY <1>1, <1>2
<1> HIDE DEF f
<1>5. f \in Surjection(1..Len(found), Roots)
  BY <1>2, <1>3 DEF Surjection
<1>6. f \in Injection(1..Len(found), Roots)
  BY <1>2, <1>4 DEF Injection, IsInjective
<1>7. ExistsBijection(1..Len(found), Roots)
  BY <1>5, <1>6 DEF Bijection, ExistsBijection
<1>8. IsFiniteSet(1..Len(found)) /\ Cardinality(1..Len(found)) = Len(found)
  BY <1>1, FS_Interval
<1> QED BY <1>7, <1>8, FS_Bijection

(* What the invariant says of a finished call. *)
LEMMA RegionGives == RegionInv => CatalogIsComponents
<1> SUFFICES ASSUME RegionInv PROVE CatalogIsComponents
  OBVIOUS
<1>1. img \in Images /\ retry \in Nat
  BY DEF RegionInv, CellInv, ScanInv, PlaceInv
<1>2. Bright \subseteq Cells /\ IsFiniteSet(Bright)
  BY <1>1, BrightFacts
<1>3. \A C : C \in Components(Bright) <=> IsRegion(C, Bright)
  BY <1>2, ComponentsAreRegions
<1>4. PICK regions : regions = {C \in Components(Bright) : Cardinality(C) >= MinArea}
  OBVIOUS
<1>5. \A C : C \in regions <=> IsRegion(C, Bright) /\ Cardinality(C) >= MinArea
  BY <1>3, <1>4
<1>6. Roots \subseteq regions
  BY <1>5 DEF RegionInv, Roots
<1>7. ASSUME status = "done"
      PROVE  /\ Roots = regions /\ Len(found) = Cardinality(Roots)
             /\ \A j \in DOMAIN found : found[j].flag = (\E p \in RootOf(found[j]) : OnBorder(p, img.w, img.h))
  <2>1. Collected(Bright, Border, Bright, found, MinArea)
    BY <1>7, DoneCollects
  <2>2. ASSUME NEW C \in regions PROVE C \in Roots
    <3>1. IsRegion(C, Bright) /\ C \subseteq Bright /\ Cardinality(C) >= MinArea
      BY <1>5 DEF IsRegion
    <3>2. InCatalog(C, found)
      BY <2>1, <3>1 DEF Collected
    <3> QED BY <3>2 DEF InCatalog, Roots
  <2>3. PICK F : found \in Seq(F)
    BY DEF RegionInv
  <2>4. \A i, j \in DOMAIN found : RootOf(found[i]) = RootOf(found[j]) => i = j
    BY <2>1 DEF Collected
  <2>5. Len(found) = Cardinality(Roots)
    BY <2>3, <2>4, RootsCounted
  <2>6. ASSUME NEW j \in DOMAIN found
        PROVE  found[j].flag = (\E p \in RootOf(found[j]) : OnBorder(p, img.w, img.h))
    <3>1. FlagRight(found[j], Border) /\ RootOf(found[j]) \subseteq Cells
      BY <1>2, <2>1 DEF Collected, GoodRoot
    <3>2. (RootOf(found[j]) \intersect Border # {}) <=> \E p \in RootOf(found[j]) : OnBorder(p, img.w, img.h)
      BY <3>1 DEF Border
    <3> QED BY <3>1, <3>2, Zenon DEF FlagRight
  <2> QED BY <1>6, <2>2, <2>5, <2>6
<1> QED BY <1>4, <1>6, <1>7 DEF CatalogIsComponents

(* CatalogIsComponents is an invariant for every image, every threshold    *)
(* and every size of pixel stack: when a call has finished, the detections *)
(* are exactly the 8-connected regions of the pixels above the threshold   *)
(* with at least the minimum area, each once, with its own pixels and with *)
(* the truncation flag of those on the border. This is what lutz()         *)
(* promises its callers, and no step of the one-pass scan sees more than   *)
(* two lines.                                                              *)
THEOREM CatalogIsRight == Spec => []CatalogIsComponents
BY RegionInit, RegionNext, RegionGives, PTL DEF Spec

(* DeblendPartitions is an invariant: the objects that deblend() hands on  *)
(* for a detection share out its pixels, their cores are connected, of at  *)
(* least min(minarea, 3) pixels, and any two of them are apart at some     *)
(* level. Deblending was shown to do so for any region, so it remains that *)
(* what lutz() hands it is one.                                            *)
THEOREM ObjectsShareOut == Spec => []DeblendPartitions
BY CatalogIsRight, DeblendingShares, PTL

(* A pixel that a position still to be visited may touch. *)
OnFrontier(p, x, y, w) ==
  \/ \E d \in 0..(x - 1) : p = <<d, y>>
  \/ \E d \in (x - 1)..w : p = <<d, y - 1>>

(* A region with a pixel on the frontier. *)
Reaches(C, x, y, w) == \E p \in C : OnFrontier(p, x, y, w)

(* A marker that begins a region is in the first run of its bracket. *)
LEMMA BracketBegins ==
  ASSUME NEW y, NEW c \in Int, NEW z \in Int, c <= z, NEW m, NEW h, NEW n, NEW P,
         Bracket(y, c, z, h, n, P),
         m = "S", Turn(m, h[c], n[c], h[c + 1], n[c + 1]), h[c] \in Nat
  PROVE  <<c, y>> \in P
<1>1. n[c + 1] = 1 /\ h[c + 1] = h[c] + 1
  BY DEF Turn
<1>2. c \in c..z /\ Within(h, c + 1, c + 1, h[c] + 1)
  BY <1>1 DEF Within
<1> QED BY <1>1, <1>2 DEF Bracket

(* The regions begun on this line have a pixel on it. *)
LEMMA SeenReaches ==
  ASSUME NEW T, NEW y, NEW m, NEW start, NEW end, NEW cs, NEW co \in Nat, NEW x \in Nat, NEW R,
         NEW w,
         Sees(T, y, m, start, end, cs, co, x, x, R)
  PROVE  /\ \A j \in 1..co : start[j] # UNKNOWN => Reaches(R[<<"info", j>>], x, y, w)
         /\ \A c \in 0..(x - 1) : Waits(c, m, start, co) => Reaches(R[<<"store", c>>], x, y, w)
         /\ cs = "OBJECT" => co # 0 /\ start[co] # UNKNOWN
<1>1. PICK h, n, lev : /\ Draws(m, start, end, cs, co, x, h, n, lev)
                       /\ OpenHere(y, start, co, x, h, n, lev, R) /\ WaitHere(y, m, start, co, x, h, n, R)
  BY DEF Sees
<1>2. /\ \A c \in 0..x : h[c] \in Nat
      /\ \A c \in 0..(x - 1) : Turn(m[c], h[c], n[c], h[c + 1], n[c + 1])
  BY <1>1 DEF Draws, Line
<1>3. ASSUME NEW j \in 1..co, start[j] # UNKNOWN PROVE Reaches(R[<<"info", j>>], x, y, w)
  <2>1. Begun(j, m, start, x, h, lev)
    BY <1>1, <1>3 DEF Draws, Regions
  <2>2. PICK d \in 0..(x - 1) : d = start[j] /\ m[d] = "S" /\ h[d] + 1 = lev[j]
    BY <2>1 DEF Begun
  <2>3. n[d + 1] = 1 /\ h[d + 1] = lev[j]
    BY <1>2, <2>2 DEF Turn
  <2>4. <<d, y>> \in R[<<"info", j>>]
    <3>1. d \in start[j]..(x - 1)
      BY <2>2
    <3> QED BY <1>1, <1>3, <2>3, <3>1 DEF OpenHere
  <2> QED BY <2>4 DEF Reaches, OnFrontier
<1>4. ASSUME NEW c \in 0..(x - 1), Waits(c, m, start, co) PROVE Reaches(R[<<"store", c>>], x, y, w)
  <2>1. PICK P, z : P = R[<<"store", c>>] /\ z = x - 1
    OBVIOUS
  <2>2. Bracket(y, c, z, h, n, P)
    BY <1>1, <1>4, <2>1 DEF WaitHere
  <2>3. m[c] = "S" /\ Turn(m[c], h[c], n[c], h[c + 1], n[c + 1]) /\ h[c] \in Nat /\ c <= z /\ c \in Int /\ z \in Int
    BY <1>2, <1>4, <2>1 DEF Waits
  <2>4. <<c, y>> \in P
    BY ONLY <2>2, <2>3, BracketBegins
  <2> QED BY <2>1, <2>4 DEF Reaches, OnFrontier
<1>5. cs = "OBJECT" => co # 0 /\ start[co] # UNKNOWN
  BY <1>1 DEF Draws, Regions
<1> QED BY <1>3, <1>4, <1>5

(* The level at which the line above goes on with an open region. *)
LEMMA OpenGoesOn ==
  ASSUME NEW st, Len(st) \in Nat, NEW ps, NEW cs, NEW co \in Nat, NEW base,
         Frame(st, ps, cs, co, base),
         NEW j \in 1..co, j = co => ps # "COMPLETE"
  PROVE  \E g \in Nat \ {0} : /\ Owns(base, j, g, co, Len(st)) /\ g <= Len(st) - co
                              /\ g = Len(st) - co => j = co \/ ps = "COMPLETE"
<1>1. PICK len \in Nat : len = Len(st)
  OBVIOUS
<1>2. /\ base[co] <= len + 1 /\ (ps = "COMPLETE" <=> base[co] = len + 1)
      /\ \A i \in 0..co : base[i] \in Nat
      /\ \A i \in 1..co : 2 * i <= base[i]
      /\ \A i, k \in 1..co : i < k => base[i] + 2 <= base[k]
  BY <1>1 DEF Frame, Top, Bases
<1>3. base[j] \in Nat /\ base[co] \in Nat /\ 2 * j <= base[j] /\ j \in Nat \ {0} /\ j <= co
  BY <1>2
<1>4. CASE j = co
  <2>1. base[j] # len + 1
    BY <1>2, <1>4
  <2>2. PICK g : g = len - co
    OBVIOUS
  <2>3. g \in Nat \ {0} /\ base[j] - j - 1 < g /\ g <= len - co
    BY <1>2, <1>3, <1>4, <2>1, <2>2
  <2> QED BY <1>1, <1>4, <2>3 DEF Owns
<1>5. CASE j < co
  <2>1. PICK k \in 1..co : k = j + 1
    BY <1>3, <1>5
  <2>2. base[k] \in Nat /\ base[j] + 2 <= base[k] /\ co - k <= base[co] - base[k]
    <3>1. j < k /\ k \in 0..co /\ co \in k..co
      BY <2>1
    <3>2. Bases(co, base)
      BY DEF Frame
    <3> QED BY <1>2, <3>1, <3>2, BasesSpread
  <2>3. PICK g : g = base[k] - j - 2
    OBVIOUS
  <2>4. PICK bj \in Nat, bk \in Nat, bc \in Nat : bj = base[j] /\ bk = base[k] /\ bc = base[co]
    BY <1>3, <2>2
  <2>5. g \in Nat \ {0} /\ base[j] - j - 1 < g
    <3>1. 2 * j <= bj /\ bj + 2 <= bk /\ g = bk - j - 2 /\ j \in Nat \ {0}
      BY <1>3, <2>2, <2>3, <2>4
    <3>2. g \in Nat \ {0} /\ bj - j - 1 < g
      BY ONLY <3>1, bj \in Nat, bk \in Nat
    <3> QED BY <2>4, <3>2
  <2>6. g <= len - co /\ (g = len - co => base[co] = len + 1)
    <3>1. bc <= len + 1 /\ co - k <= bc - bk /\ g = bk - j - 2 /\ k = j + 1 /\ j \in Nat \ {0}
      BY <1>2, <1>3, <2>1, <2>2, <2>3, <2>4
    <3>2. g <= len - co /\ (g = len - co => bc = len + 1)
      BY ONLY <3>1, bc \in Nat, bk \in Nat, len \in Nat, co \in Nat
    <3> QED BY <2>4, <3>2
  <2>7. Owns(base, j, g, co, len)
    BY <1>5, <2>1, <2>3, <2>5 DEF Owns
  <2> QED BY <1>1, <1>2, <2>5, <2>6, <2>7
<1> QED BY <1>3, <1>4, <1>5

(* The other regions have one on the line above, not left of the column. *)
LEMMA RecallReaches ==
  ASSUME NEW T, NEW y, NEW y1, y1 = y - 1, NEW mr, NEW st, Len(st) \in Nat, NEW ps, NEW cs,
         NEW co \in Nat,
         NEW w \in Nat, NEW x \in 0..w, NEW R, Recalls(T, y1, mr, st, ps, cs, co, x, w, R)
  PROVE  /\ \A j \in 1..co : (j = co => ps # "COMPLETE") => Reaches(R[<<"info", j>>], x, y, w)
         /\ \A c \in x..w : mr[c] = "S" => Reaches(R[<<"store", c>>], x, y, w)
<1>1. PICK h, n, base :
        /\ Frame(st, ps, cs, co, base) /\ Ahead(mr, h, n, x, w)
        /\ h[x] = Len(st) - co /\ n[x] = InSegment(ps)
        /\ OpenAbove(y1, h, n, x, w, base, Len(st), co, R)
        /\ WaitAbove(y1, mr, h, n, x, w, R)
  BY DEF Recalls
<1>2. Reads(mr, h, n, x, w + 1) /\ h[w + 1] = 0 /\ n[w + 1] = 0
  BY <1>1 DEF Ahead
<1>3. /\ \A c \in x..(w + 1) : h[c] \in Nat /\ n[c] \in {0, 1}
      /\ \A c \in x..w : Turn(mr[c], h[c], n[c], h[c + 1], n[c + 1])
  BY <1>2 DEF Reads
<1>4. ASSUME NEW c \in x..w, mr[c] = "S" PROVE Reaches(R[<<"store", c>>], x, y, w)
  <2>1. PICK P : P = R[<<"store", c>>]
    OBVIOUS
  <2>2. Bracket(y1, c, w, h, n, P)
    BY <1>1, <1>4, <2>1 DEF WaitAbove
  <2>3. Turn(mr[c], h[c], n[c], h[c + 1], n[c + 1]) /\ h[c] \in Nat /\ c <= w /\ c \in Int /\ w \in Int
    BY <1>3
  <2>4. <<c, y1>> \in P
    BY ONLY <1>4, <2>2, <2>3, BracketBegins
  <2>5. c \in (x - 1)..w
    OBVIOUS
  <2> QED BY <2>1, <2>4, <2>5 DEF Reaches, OnFrontier
<1>5. ASSUME NEW j \in 1..co, j = co => ps # "COMPLETE" PROVE Reaches(R[<<"info", j>>], x, y, w)
  <2>1. PICK g \in Nat \ {0} : /\ Owns(base, j, g, co, Len(st)) /\ g <= Len(st) - co
                               /\ g = Len(st) - co => j = co \/ ps = "COMPLETE"
    BY <1>1, <1>5, OpenGoesOn
  <2>2. SUFFICES \E d \in (x - 1)..w : n[d + 1] = 1 /\ h[d + 1] = g /\ Within(h, x, d + 1, g)
    <3>1. PICK d \in (x - 1)..w : n[d + 1] = 1 /\ h[d + 1] = g /\ Within(h, x, d + 1, g)
      BY <2>2
    <3>2. <<d, y1>> \in R[<<"info", j>>]
      BY <1>1, <2>1, <3>1 DEF OpenAbove
    <3> QED BY <3>2 DEF Reaches, OnFrontier
  <2>3. CASE g = h[x] /\ n[x] = 1
    <3>1. PICK d : d = x - 1
      OBVIOUS
    <3>2. d \in (x - 1)..w /\ d + 1 = x
      BY <3>1
    <3>3. Within(h, x, x, g)
      BY <1>3, <2>3 DEF Within
    <3> QED BY <2>3, <3>2, <3>3
  <2>4. CASE ~(g = h[x] /\ n[x] = 1)
    <3>1. PICK b : b = w + 1
      OBVIOUS
    <3>2. g <= h[x] /\ (g = h[x] => n[x] = 0) /\ h[b] < g /\ x \in Nat /\ b \in Nat /\ x <= b /\ Reads(mr, h, n, x, b)
      BY <1>1, <1>2, <1>3, <2>1, <2>4, <3>1
    <3>3. \E d \in x..(b - 1) : n[d + 1] = 1 /\ h[d + 1] = g /\ Within(h, x, d + 1, g)
      BY ONLY <3>2, g \in Nat \ {0}, NextRun
    <3>4. \A d \in x..(b - 1) : d \in (x - 1)..w
      BY <3>1
    <3> QED BY <3>3, <3>4
  <2> QED BY <2>3, <2>4
<1> QED BY <1>4, <1>5

(* Every region held has a pixel on the frontier. *)
LEMMA GrowingReaches ==
  ASSUME NEW w \in Nat, NEW n, NEW s, NEW T, NEW O, NEW R, AtTop(s, w, n, T, O, R),
         NEW at \in GrowingIn(w, s)
  PROVE  Reaches(R[at], s.x, s.y, w)
<1>1. PICK x \in 0..w, co \in 0..w, y \in Nat : x = s.x /\ co = s.co /\ y = s.y
  BY DEF AtTop, LineInv, Inside
<1>2. PICK m, start, end, cs, st, ps, y1 : /\ m = s.marker /\ start = s.start /\ end = s.end /\ cs = s.cs /\ st = s.psstack
                                           /\ ps = s.ps /\ y1 = y - 1
  OBVIOUS
<1>3. Sees(T, y, m, start, end, cs, co, x, x, R) /\ Recalls(T, y1, m, st, ps, cs, co, x, w, R)
  BY <1>1, <1>2 DEF AtTop, Tells
<1>4. Len(st) \in Nat
  BY <1>2 DEF AtTop, LineInv, Inside, IsStack
<1>5. co \in Nat /\ x \in Nat /\ x \in 0..w /\ w \in Nat
  BY <1>1
<1>6. /\ \A j \in 1..co : start[j] # UNKNOWN => Reaches(R[<<"info", j>>], x, y, w)
      /\ \A c \in 0..(x - 1) : Waits(c, m, start, co) => Reaches(R[<<"store", c>>], x, y, w)
      /\ cs = "OBJECT" => co # 0 /\ start[co] # UNKNOWN
  BY ONLY <1>3, <1>5, SeenReaches
<1>7. /\ \A j \in 1..co : (j = co => ps # "COMPLETE") => Reaches(R[<<"info", j>>], x, y, w)
      /\ \A c \in x..w : m[c] = "S" => Reaches(R[<<"store", c>>], x, y, w)
  BY ONLY <1>2, <1>3, <1>4, <1>5, RecallReaches
<1>8. co # 0 /\ ps = "COMPLETE" => cs = "OBJECT"
  BY <1>3 DEF Recalls, Frame, Top
<1>9. CASE \E j \in 1..co : at = <<"info", j>>
  <2>1. PICK j \in 1..co : at = <<"info", j>>
    BY <1>9
  <2>2. CASE start[j] # UNKNOWN
    BY <1>1, <1>6, <2>1, <2>2
  <2>3. CASE start[j] = UNKNOWN
    <3>1. j = co => ps # "COMPLETE"
      BY <1>6, <1>8, <2>3
    <3> QED BY <1>1, <1>7, <2>1, <3>1
  <2> QED BY <2>2, <2>3
<1>10. CASE \E c \in 0..w : at = <<"store", c>> /\ Waits(c, m, start, co)
  <2>1. PICK c \in 0..w : at = <<"store", c>> /\ Waits(c, m, start, co)
    BY <1>10
  <2>2. c \in 0..(x - 1) \/ c \in x..w
    OBVIOUS
  <2> QED BY <1>1, <1>6, <1>7, <2>1, <2>2 DEF Waits
<1> QED BY <1>1, <1>2, <1>9, <1>10 DEF GrowingIn, GrowingAt

(* A list's pixels are those pictured at its place. *)
LEMMA RegionAt ==
  ASSUME NEW n, NEW s, NEW at, at \notin {Free, Cur}
  PROVE  Region(s, ListAt(s, at)) = {s.pix[c] : c \in CellsOf(s, n, at)}
<1>1. PICK l, c : l = ListAt(s, at) /\ c = CellsFrom(s, l.first)
  OBVIOUS
<1>2. ListIn(s, n, at) = l
  BY <1>1 DEF ListIn
<1>3. CellsOf(s, n, at) = {c[k] : k \in DOMAIN c}
  BY <1>1, <1>2 DEF CellsOf, CellSet
<1>4. Region(s, l) = {s.pix[c[k]] : k \in DOMAIN c}
  BY <1>1 DEF Region, PixelsOf
<1> QED BY <1>1, <1>3, <1>4

(* What the scan holds is what its places hold. *)
LEMMA HeldIs ==
  ASSUME NEW w, NEW n, NEW s, NEW R, DOMAIN s.marker = 0..w,
         \A at \in GrowingIn(w, s) : R[at] = {s.pix[c] : c \in CellsOf(s, n, at)}
  PROVE  Held(s) = Total(R, GrowingIn(w, s)) /\ Growing(s) = GrowingIn(w, s)
<1>2. PICK G : G = GrowingIn(w, s) /\ Growing(s) = G
  BY GrowingIs DEF GrowingIn
<1>3. Free \notin G /\ Cur \notin G
  BY <1>2, GrowingPlaces DEF GrowingIn
<1>5. \A at \in G : Region(s, ListAt(s, at)) = R[at]
  BY <1>2, <1>3, RegionAt
<1>6. Held(s) = UNION {R[at] : at \in G}
  BY <1>2, <1>5 DEF Held
<1>7. G \ {Cur} = G
  BY <1>3
<1> QED BY <1>2, <1>6, <1>7 DEF Total, AllOf

(* A pixel on the frontier is held. *)
LEMMA FrontierHeld ==
  ASSUME NEW w \in Nat, NEW n, NEW s, NEW T, NEW O, NEW R, AtTop(s, w, n, T, O, R), NEW p \in T,
         OnFrontier(p, s.x, s.y, w)
  PROVE  p \in Total(R, GrowingIn(w, s))
<1>1. PICK x \in 0..w, y \in Nat : x = s.x /\ y = s.y
  BY DEF AtTop, LineInv, Inside
<1>2. x \in 0..(w + 1) /\ x \in 0..x /\ x <= x
  OBVIOUS
<1>3. Inside(s, w) /\ Known(s, x) /\ Tells(s, w, T, y, s.marker, x, x, x, R)
  BY <1>1 DEF AtTop, LineInv
<1>4. PICK mr : mr = s.marker /\ \A c \in x..w : s.marker[c] = mr[c]
  OBVIOUS
<1>5. Tells(s, w, T, y, mr, x, x, x, R)
  BY <1>3, <1>4
<1>6. /\ \A d \in 0..(x - 1) : <<d, y>> \in T => \E at \in GrowingIn(w, s) : <<d, y>> \in R[at]
      /\ \A d \in (x - 1)..w : <<d, y - 1>> \in T => \E at \in GrowingIn(w, s) : <<d, y - 1>> \in R[at]
  BY ONLY <1>2, <1>3, <1>4, <1>5, w \in Nat, TellsHeld
<1>7. \E at \in GrowingIn(w, s) : p \in R[at]
  BY <1>1, <1>6 DEF OnFrontier
<1>8. Cur \notin GrowingIn(w, s)
  BY GrowingPlaces DEF GrowingIn
<1> QED BY <1>7, <1>8 DEF Total, AllOf

(* The positions to come. *)
ToCome(w, h, x, y) == {p \in Pixels(w + 1, h + 1) : p[2] > y \/ (p[2] = y /\ p[1] >= x)}

(* The pixels on the frontier are those that touch one of them. *)
LEMMA FrontierTouches ==
  ASSUME NEW w \in Nat \ {0}, NEW h \in Nat \ {0}, NEW x \in 0..w, NEW y \in Nat,
         NEW p \in Pixels(w, h),
         OnFrontier(p, x, y, w), p[2] < y \/ (p[2] = y /\ p[1] < x)
  PROVE  \E u \in ToCome(w, h, x, y) : Touch(p, u)
<1>1. PICK i \in 0..(w - 1), j \in 0..(h - 1) : p = <<i, j>>
  BY DEF Pixels
<1>2. p[1] = i /\ p[2] = j
  BY <1>1
<1>3. CASE j = y
  <2>1. PICK u : u = <<i, y + 1>>
    OBVIOUS
  <2>2. u[1] = i /\ u[2] = y + 1 /\ u \in Pixels(w + 1, h + 1)
    BY <1>3, <2>1 DEF Pixels
  <2>3. Touch(p, u)
    BY <1>2, <1>3, <2>2 DEF Touch, Near
  <2> QED BY <2>2, <2>3 DEF ToCome
<1>4. CASE j < y
  <2>1. j = y - 1 /\ i \in (x - 1)..w
    <3>1. CASE \E d \in 0..(x - 1) : p = <<d, y>>
      <4>1. p[2] = y
        BY <3>1
      <4> QED BY <1>2, <1>4, <4>1
    <3>2. CASE \E d \in (x - 1)..w : p = <<d, y - 1>>
      <4>1. PICK d \in (x - 1)..w : p = <<d, y - 1>>
        BY <3>2
      <4>2. p[1] = d /\ p[2] = y - 1
        BY <4>1
      <4> QED BY <1>2, <4>2
    <3> QED BY <3>1, <3>2 DEF OnFrontier
  <2>2. PICK u : u = <<i + 1, y>>
    OBVIOUS
  <2>3. u[1] = i + 1 /\ u[2] = y /\ u \in Pixels(w + 1, h + 1)
    BY <2>1, <2>2 DEF Pixels
  <2>4. Touch(p, u)
    BY <1>2, <2>1, <2>3 DEF Touch, Near
  <2>5. i + 1 >= x
    BY <2>1
  <2> QED BY <2>3, <2>4, <2>5 DEF ToCome
<1> QED BY <1>2, <1>3, <1>4

(* The pixels that touch a position to come are on the frontier. *)
LEMMA TouchesFrontier ==
  ASSUME NEW w \in Nat \ {0}, NEW h \in Nat \ {0}, NEW x \in 0..w, NEW y \in Nat,
         NEW p \in Pixels(w, h),
         p[2] < y \/ (p[2] = y /\ p[1] < x), NEW u \in ToCome(w, h, x, y), Touch(p, u)
  PROVE  OnFrontier(p, x, y, w)
<1>1. PICK i \in 0..(w - 1), j \in 0..(h - 1) : p = <<i, j>>
  BY DEF Pixels
<1>2. PICK a \in 0..w, b \in 0..h : u = <<a, b>>
  BY DEF ToCome, Pixels
<1>3. j < y \/ (j = y /\ i < x)
  BY <1>1
<1>4. b > y \/ (b = y /\ a >= x)
  BY <1>2 DEF ToCome
<1>5. i - a \in {-1, 0, 1} /\ j - b \in {-1, 0, 1}
  BY <1>1, <1>2 DEF Touch, Near
<1>6. CASE j = y
  <2>1. i \in 0..(x - 1)
    BY <1>3, <1>6
  <2> QED BY <1>1, <1>6, <2>1 DEF OnFrontier
<1>7. CASE j < y
  <2>1. j = y - 1 /\ i \in (x - 1)..w
    BY <1>4, <1>5, <1>7
  <2> QED BY <1>1, <2>1 DEF OnFrontier
<1> QED BY <1>3, <1>6, <1>7

(* A pixel in the corner of the position to be visited is on the frontier. *)
LEMMA CornerOnFrontier ==
  ASSUME NEW w \in Nat, NEW x \in 0..w, NEW y \in Nat, NEW T, OnGrid(T, w), NEW p \in T,
         p \in Corner(x, y)
  PROVE  OnFrontier(p, x, y, w)
<1>1. CASE p = <<x - 1, y>>
  <2>1. x # 0
    <3>1. ASSUME x = 0 PROVE FALSE
      <4>1. p = <<-1, y>>
        BY <1>1, <3>1
      <4> QED BY <4>1 DEF OnGrid
    <3> QED BY <3>1
  <2>2. x - 1 \in 0..(x - 1)
    BY <2>1
  <2> QED BY <1>1, <2>2 DEF OnFrontier
<1>2. CASE p = <<x, y - 1>>
  <2>1. x \in (x - 1)..w
    OBVIOUS
  <2> QED BY <1>2, <2>1 DEF OnFrontier
<1> QED BY <1>1, <1>2 DEF Corner

(* V: the pixels of the regions of S that touch a pixel of U. *)
AreThoseTouching(V, S, U) == V = UNION {C \in Components(S) : Around(C, U) # {}}

(* The scan holds the regions seen that touch a position to come. *)
LEMMA HoldsThoseThatGrow ==
  ASSUME NEW w \in Nat \ {0}, NEW h \in Nat \ {0}, NEW n, NEW s,
         NEW T \in SUBSET Pixels(w, h), T \subseteq Cells, OnGrid(T, w),
         NEW O, NEW R, AtTop(s, w, n, T, O, R), NEW S, S = Reached(T, s.x, s.y), IsFiniteSet(S),
         NEW U, U = ToCome(w, h, s.x, s.y)
  PROVE  AreThoseTouching(Total(R, GrowingIn(w, s)), S, U)
<1>1. PICK x \in 0..w, y \in Nat : x = s.x /\ y = s.y
  BY DEF AtTop, LineInv, Inside
<1>2. PICK Q, D, V : Q = GrowingIn(w, s) /\ D = Corner(x, y) /\ V = Total(R, Q)
  OBVIOUS
<1>3. Cur \notin Q
  BY <1>2, GrowingPlaces DEF GrowingIn
<1>4. V = UNION {R[at] : at \in Q} /\ Shapes(R, Q, S, D)
  <2>1. Q \ {Cur} = Q
    BY <1>3
  <2> QED BY <1>1, <1>2, <2>1 DEF Total, AllOf, AtTop, Pictured
<1>5. S \in SUBSET Cells /\ S \subseteq T /\ \A p \in S : p[2] < y \/ (p[2] = y /\ p[1] < x)
  BY <1>1 DEF Reached
<1>6. /\ \A C : C \in Components(S) <=> IsRegion(C, S)
      /\ \A p \in S : \E C \in Components(S) : p \in C
  BY <1>5, ComponentsAreRegions
<1>7. U = ToCome(w, h, x, y)
  BY <1>1
<1>8. \A p \in T : OnFrontier(p, x, y, w) => p \in V
  BY <1>1, <1>2, FrontierHeld
<1>9. ASSUME NEW p \in V PROVE \E C \in Components(S) : p \in C /\ Around(C, U) # {}
  <2>1. PICK at \in Q : p \in R[at]
    BY <1>4, <1>9
  <2>2. PICK A : A = R[at]
    OBVIOUS
  <2>3. A \subseteq S /\ Whole(A) /\ p \in A
    BY <1>4, <2>1, <2>2 DEF Shapes
  <2>4. PICK C \in Components(S) : p \in C
    BY <1>6, <2>3
  <2>5. IsRegion(C, S)
    BY <1>6
  <2>6. A \intersect C \in SUBSET A /\ A \intersect C # {} /\ Closed(A \intersect C, A)
    BY <2>3, <2>4, <2>5 DEF IsRegion, Closed
  <2>7. A \subseteq C
    BY <2>3, <2>6 DEF Whole
  <2>8. PICK f \in A : OnFrontier(f, x, y, w)
    BY <1>1, <1>2, <2>2, GrowingReaches DEF Reaches
  <2>9. \E u \in U : Touch(f, u)
    <3>1. f \in Pixels(w, h) /\ (f[2] < y \/ (f[2] = y /\ f[1] < x))
      BY <1>5, <2>3
    <3> QED BY <1>7, <2>8, <3>1, FrontierTouches
  <2> QED BY <2>4, <2>7, <2>9 DEF Around
<1>10. ASSUME NEW C \in Components(S), Around(C, U) # {} PROVE C \subseteq V
  <2>1. IsRegion(C, S)
    BY <1>6
  <2>2. C \subseteq S /\ Whole(C)
    BY <2>1 DEF IsRegion
  <2>3. PICK q \in C, u \in U : Touch(q, u)
    BY <1>10 DEF Around
  <2>4. q \in V
    <3>1. q \in Pixels(w, h) /\ q \in T /\ (q[2] < y \/ (q[2] = y /\ q[1] < x))
      BY <1>5, <2>2
    <3>2. OnFrontier(q, x, y, w)
      BY <1>7, <2>3, <3>1, TouchesFrontier
    <3> QED BY <1>8, <3>1, <3>2
  <2>5. PICK X : X = C \intersect V
    OBVIOUS
  <2>6. ASSUME NEW a \in X, NEW b \in C, Touch(a, b) PROVE b \in X
    <3>1. PICK at \in Q : a \in R[at]
      BY <1>4, <2>5
    <3>2. Shut(R[at], S, D) /\ b \in S
      BY <1>4, <2>2 DEF Shapes
    <3>3. b \in R[at] \/ b \in D
      BY <2>6, <3>1, <3>2 DEF Shut
    <3>4. CASE b \in R[at]
      BY <1>4, <2>5, <3>4
    <3>5. CASE b \in D
      <4>1. b \in T /\ b \in Corner(x, y) /\ w \in Nat
        BY <1>2, <1>5, <3>2, <3>5
      <4>2. OnFrontier(b, x, y, w)
        BY <4>1, CornerOnFrontier
      <4> QED BY <1>8, <2>5, <4>1, <4>2
    <3> QED BY <3>3, <3>4, <3>5
  <2>7. X \in SUBSET C /\ X # {} /\ Closed(X, C)
    BY <2>3, <2>4, <2>5, <2>6 DEF Closed
  <2>8. X = C
    BY <2>2, <2>7 DEF Whole
  <2> QED BY <2>5, <2>8
<1>11. V = UNION {C \in Components(S) : Around(C, U) # {}}
  <2>1. ASSUME NEW p \in V PROVE p \in UNION {C \in Components(S) : Around(C, U) # {}}
    BY <1>9
  <2>2. ASSUME NEW C \in Components(S), Around(C, U) # {}, NEW p \in C PROVE p \in V
    BY <1>10, <2>2
  <2> QED BY <2>1, <2>2
<1> QED BY <1>2, <1>11 DEF AreThoseTouching

(* When the free list is the first free cell and the last one, all other     *)
(* cells hold a pixel each.                                                  *)
LEMMA AllButTwoHeld ==
  ASSUME NEW w, NEW n \in Nat \ {0}, NEW s, NEW G, Free \notin G,
         Accounts(s, w, n, G \union {Free}, {}),
         NEW O, NEW R, Depicts(s, n, O, G, R), s.nextpix[s.free] = n - 1
  PROVE  Cardinality(AllOf(R, G)) + 2 = n
<1>1. PICK P, next, f, z : P = G \union {Free} /\ next = s.nextpix /\ f = s.free /\ z = n - 1
  OBVIOUS
<1>2. PICK L, mem : Listed(s, w, n, P, L, mem)
  BY <1>1 DEF Accounts, Listed
<1>3. Sound(next, P, L, mem) /\ Chains(next, mem) /\ DOMAIN next = 0..z /\ f # z
  BY <1>1, <1>2 DEF Listed, Accounts, Sound
<1>4. \A at \in P : CellsOf(s, n, at) = mem[L[at].first]
  BY <1>2, CellsListed
<1>5. L[Free] = FreeList(s, n)
  BY <1>1, <1>2, CellsListed, FreeFields
<1>6. L[Free].first = f /\ L[Free].last = z /\ L[Free] # Blank
  BY <1>1, <1>5, FreeFields
<1>7. IsChain(L[Free], next, mem)
  BY <1>1, <1>3, <1>6 DEF Sound
<1>8. f \in 0..z /\ next[z] = None /\ next[f] = z /\ z \in 0..z
  BY <1>1, <1>3, <1>6, <1>7 DEF IsChain
<1>9. mem[f] = {f, z}
  BY <1>3, <1>8 DEF Chains
<1>10. PICK H, V : H = (0..z) \ {f, z} /\ V = AllOf(R, G)
  OBVIOUS
<1>11. ASSUME NEW at \in G PROVE CellsOf(s, n, at) \subseteq H
  <2>1. mem[L[at].first] \intersect mem[f] = {}
    BY <1>1, <1>3, <1>6 DEF Sound
  <2>2. CellsOf(s, n, at) = mem[L[at].first]
    BY <1>1, <1>4
  <2>3. CellsOf(s, n, at) \subseteq 0..z
    <3>1. L[at].first \in {None} \union DOMAIN next
      BY <1>1, <1>2, CellsListed
    <3>2. mem[L[at].first] \subseteq DOMAIN next
      BY <1>3, <3>1 DEF Chains
    <3> QED BY <1>3, <2>2, <3>2
  <2> QED BY <1>9, <1>10, <2>1, <2>2, <2>3
<1>12. ASSUME NEW c \in H PROVE \E at \in G : c \in CellsOf(s, n, at)
  <2>1. PICK at \in P : c \in mem[L[at].first]
    BY <1>3, <1>10 DEF Sound
  <2>2. at # Free
    BY <1>6, <1>9, <1>10, <2>1
  <2> QED BY <1>1, <1>4, <2>1, <2>2
<1>13. /\ \A at \in G : R[at] = {s.pix[c] : c \in CellsOf(s, n, at)}
       /\ \A a, b \in G : \A c \in CellsOf(s, n, a) : \A d \in CellsOf(s, n, b) : s.pix[c] = s.pix[d] => c = d
  BY DEF Depicts
<1>14. PICK g : g = [c \in H |-> s.pix[c]]
  OBVIOUS
<1>15. g \in [H -> V] /\ \A c \in H : g[c] = s.pix[c]
  <2>1. \A c \in H : s.pix[c] \in V
    BY <1>10, <1>12, <1>13 DEF AllOf
  <2> QED BY <1>14, <2>1
<1>16. \A p \in V : \E c \in H : g[c] = p
  BY <1>10, <1>11, <1>13, <1>15 DEF AllOf
<1>17. \A c, d \in H : g[c] = g[d] => c = d
  BY <1>12, <1>13, <1>15
<1>18. ExistsBijection(H, V)
  <2>1. g \in Surjection(H, V) /\ g \in Injection(H, V)
    BY <1>15, <1>16, <1>17 DEF Surjection, Injection, IsInjective
  <2> QED BY <2>1 DEF Bijection, ExistsBijection
<1>19. IsFiniteSet(H) /\ Cardinality(H) + 2 = n
  <2>1. IsFiniteSet(0..z) /\ Cardinality(0..z) = n
    <3>1. 0 \in Int /\ z \in Int /\ 0 <= z /\ z - 0 + 1 = n
      BY <1>1
    <3>2. IsFiniteSet(0..z) /\ Cardinality(0..z) = z - 0 + 1
      BY <3>1, FS_Interval
    <3> QED BY <3>1, <3>2
  <2>2. PICK I : I = (0..z) \ {z}
    OBVIOUS
  <2>3. IsFiniteSet(I) /\ Cardinality(I) = n - 1 /\ f \in I
    BY <1>3, <1>8, <2>1, <2>2, FS_RemoveElement
  <2>4. IsFiniteSet(I \ {f}) /\ Cardinality(I \ {f}) = n - 2
    BY <2>3, FS_RemoveElement
  <2>5. H = I \ {f}
    BY <1>10, <2>2
  <2> QED BY <2>4, <2>5
<1>20. Cardinality(V) = Cardinality(H)
  BY <1>18, <1>19, FS_Bijection
<1> QED BY <1>10, <1>19, <1>20

(* The cell taken was in no list: as much is held as before. *)
LEMMA TakeHolds ==
  ASSUME NEW w \in Nat, NEW n \in Nat \ {0}, NEW s, DOMAIN s.marker = 0..w,
         Cellular(s, w, n, {}, {}), DOMAIN s.pix = 0..n-1,
         NEW O, NEW R, Depicts(s, n, O, GrowingIn(w, s), R), NEW truncated, NEW t,
         t = TakeCell(s, truncated)
  PROVE  Held(t) = Total(R, GrowingIn(w, s))
<1>1. PICK G, P, f : G = GrowingIn(w, s) /\ P = G \union {Free} /\ f = s.free
  OBVIOUS
<1>2. Free \notin G /\ Cur \notin G
  BY <1>1, GrowingPlaces DEF GrowingIn
<1>3. Accounts(s, w, n, P, {})
  <2>1. GrowingIn(w, s) \union {} \union {Free} = P
    BY <1>1
  <2> QED BY <2>1 DEF Cellular
<1>4. PICK next, cur : /\ next = [s.nextpix EXCEPT ![s.free] = None]
                       /\ cur = [pixnb |-> 1, flag |-> truncated, first |-> s.free, last |-> s.free]
  OBVIOUS
<1>5. Fields \subseteq DOMAIN s /\ AllFields \subseteq DOMAIN s /\ "pix" \in DOMAIN s
  BY DEF Cellular, Fields
<1>6. Holds(s, t, s.info, s.store, next, s.nextpix[s.free], cur)
  BY <1>4, <1>5, TakeCellCells
<1>7. /\ \A at \in P \ {Free} : SameList(s, t, n, at, at) /\ s.free \notin CellsOf(s, n, at)
      /\ s.free \in DOMAIN s.nextpix
  <2>1. cur.first = s.free /\ Cur \notin P
    BY <1>1, <1>2, <1>4, PlainPlaces
  <2>2. next = [s.nextpix EXCEPT ![s.free] = None]
    BY <1>4
  <2> QED BY ONLY <1>3, <1>6, <2>1, <2>2, w \in Nat, n \in Nat \ {0}, ListsTaken
<1>8. f \in DOMAIN s.pix
  BY <1>1, <1>3, <1>7 DEF Accounts
<1>9. /\ \A c : c # f => t.pix[c] = s.pix[c]
      /\ t.marker = s.marker /\ t.start = s.start /\ t.co = s.co
  <2>1. PICK p : p = <<s.x, s.y>>
    OBVIOUS
  <2>2. t.pix = [s.pix EXCEPT ![f] = p] /\ t.marker = s.marker /\ t.start = s.start /\ t.co = s.co
    BY <1>1, <1>5, <2>1 DEF TakeCell, Fields, AllFields, LineFields, CellFields
  <2> QED BY <2>2
<1>10. GrowingIn(w, t) = G
  BY <1>1, <1>9 DEF GrowingIn
<1>11. ASSUME NEW at \in G PROVE R[at] = {t.pix[c] : c \in CellsOf(t, n, at)}
  <2>1. R[at] = {s.pix[c] : c \in CellsOf(s, n, at)}
    BY <1>1 DEF Depicts
  <2>2. CellsOf(t, n, at) = CellsOf(s, n, at) /\ f \notin CellsOf(s, n, at)
    BY <1>1, <1>2, <1>7 DEF SameList
  <2> QED BY <1>9, <2>1, <2>2
<1>12. DOMAIN t.marker = 0..w
  BY <1>9
<1>13. Held(t) = Total(R, GrowingIn(w, t))
  <2>1. \A at \in GrowingIn(w, t) : R[at] = {t.pix[c] : c \in CellsOf(t, n, at)}
    BY <1>10, <1>11
  <2> QED BY ONLY <1>12, <2>1, HeldIs
<1> QED BY <1>1, <1>10, <1>13

(* The invariant of what is held. *)
HeldInv ==
  /\ RegionInv
  /\ status = "PIXSTACK_FULL" => Cardinality(Held(scan)) + 2 = stack

(* A call that fails for want of pixels held all but two of them. *)
LEMMA FullHolds == RegionInv /\ StackFull => Cardinality(Held(scan')) + 2 = stack
<1> SUFFICES ASSUME RegionInv, StackFull PROVE Cardinality(Held(scan')) + 2 = stack
  OBVIOUS
<1>1. PICK w, n, s, t, truncated : w = img.w /\ n = stack /\ s = scan /\ t = scan' /\ truncated = Truncated
  OBVIOUS
<1>2. w \in Nat /\ n \in Nat \ {0}
  BY <1>1, ExtractionAssumption DEF RegionInv, CellInv, ScanInv
<1>3. t = TakeCell(s, truncated) /\ s.nextpix[s.free] = n - 1
  BY <1>1 DEF StackFull, LastCellLeft
<1>4. PICK R : AtTop(s, w, n, Bright, Border, R)
  BY <1>1 DEF RegionInv, StackFull, ScansRegions
<1>5. PICK G, O : G = GrowingIn(w, s) /\ O = Border
  OBVIOUS
<1>6. DOMAIN s.marker = 0..w /\ Cellular(s, w, n, {}, {}) /\ DOMAIN s.pix = 0..n-1 /\ Depicts(s, n, O, GrowingIn(w, s), R)
  BY <1>4, <1>5 DEF AtTop, LineInv, Inside, HasLine, Pictured
<1>7. Held(t) = Total(R, GrowingIn(w, s))
  BY ONLY <1>2, <1>3, <1>6, TakeHolds
<1>8. Free \notin G /\ Cur \notin G
  BY <1>5, GrowingPlaces DEF GrowingIn
<1>9. Accounts(s, w, n, G \union {Free}, {})
  <2>1. GrowingIn(w, s) \union {} \union {Free} = G \union {Free}
    BY <1>5
  <2> QED BY <1>6, <2>1 DEF Cellular
<1>10. Depicts(s, n, O, G, R)
  BY <1>5, <1>6
<1>11. Cardinality(AllOf(R, G)) + 2 = n
  BY ONLY <1>2, <1>3, <1>8, <1>9, <1>10, AllButTwoHeld
<1>12. Total(R, GrowingIn(w, s)) = AllOf(R, G)
  <2>1. G \ {Cur} = G
    BY <1>8
  <2> QED BY <1>5, <2>1 DEF Total
<1> QED BY <1>1, <1>7, <1>11, <1>12

(* The invariant of what is held is true at first ... *)
LEMMA HeldInit == Init => HeldInv
BY RegionInit DEF Init, HeldInv

(* ... and is kept by every step of the service. *)
LEMMA HeldNext == HeldInv /\ [Next]_vars => HeldInv'
<1> SUFFICES ASSUME HeldInv, [Next]_vars PROVE HeldInv'
  OBVIOUS
<1>1. RegionInv /\ RegionInv'
  BY RegionNext DEF HeldInv
<1>2. SUFFICES ASSUME status' = "PIXSTACK_FULL" PROVE Cardinality(Held(scan')) + 2 = stack'
  BY <1>1 DEF HeldInv
<1>3. CASE StackFull
  BY <1>1, <1>3, FullHolds DEF StackFull
<1>4. CASE UNCHANGED vars
  BY <1>2, <1>4 DEF HeldInv, vars
<1>5. CASE Visit \/ Sortit \/ DeblendOverflow \/ Finish \/ Retry \/ GiveUp
  BY <1>2, <1>5 DEF Visit, Sortit, CanVisit, DeblendOverflow, Finish, Retry, GiveUp
<1> QED BY <1>3, <1>4, <1>5 DEF Next, Stopped

(* What it says when a call fails. *)
LEMMA HeldGives == HeldInv => HeldAsNeeded
<1> SUFFICES ASSUME HeldInv PROVE HeldAsNeeded
  OBVIOUS
<1>1. SUFFICES ASSUME status = "scanning"
               PROVE  Held(scan) = UNION {C \in Components(SeenBright) : Around(C, Unvisited) # {}}
  BY DEF HeldAsNeeded, HeldInv
<1>2. PICK w, h, n, s, T, O : w = img.w /\ h = img.h /\ n = stack /\ s = scan /\ T = Bright /\ O = Border
  OBVIOUS
<1>3. /\ w \in Nat \ {0} /\ h \in Nat \ {0} /\ T \in SUBSET Pixels(w, h) /\ T \subseteq Cells
      /\ IsFiniteSet(T) /\ OnGrid(T, w)
  BY <1>2, BrightFacts, ExtractionAssumption DEF HeldInv, RegionInv, CellInv, ScanInv, PlaceInv
<1>4. PICK R : AtTop(s, w, n, T, O, R)
  BY <1>1, <1>2 DEF HeldInv, RegionInv, ScansRegions
<1>5. PICK S, U : S = Reached(T, s.x, s.y) /\ U = ToCome(w, h, s.x, s.y)
  OBVIOUS
<1>6. Unvisited = U
  BY <1>2, <1>5 DEF Unvisited, ToCome
<1>7. SeenBright = S
  <2>1. s.x \in Int /\ s.y \in Int
    BY <1>4 DEF AtTop, LineInv, Inside
  <2>2. ASSUME NEW p \in T PROVE p \in S <=> p \notin U
    <3>1. p[1] \in Int /\ p[2] \in Int /\ p \in Pixels(w + 1, h + 1)
      BY <1>3 DEF Pixels
    <3> QED BY <1>5, <2>1, <3>1 DEF Reached, ToCome
  <2>3. S \subseteq T
    BY <1>5 DEF Reached
  <2> QED BY <1>2, <1>6, <2>2, <2>3 DEF SeenBright
<1>8. IsFiniteSet(S)
  <2>1. S \subseteq T
    BY <1>5 DEF Reached
  <2> QED BY <1>3, <2>1, FS_Subset
<1>9. AreThoseTouching(Total(R, GrowingIn(w, s)), S, U)
  BY ONLY <1>3, <1>4, <1>5, <1>8, HoldsThoseThatGrow
<1>10. Held(s) = Total(R, GrowingIn(w, s))
  <2>1. DOMAIN s.marker = 0..w
    BY <1>4 DEF AtTop, LineInv, Inside, HasLine
  <2>2. \A at \in GrowingIn(w, s) : R[at] = {s.pix[c] : c \in CellsOf(s, n, at)}
    BY <1>4 DEF AtTop, Pictured, Depicts
  <2> QED BY ONLY <2>1, <2>2, HeldIs
<1> QED BY <1>2, <1>6, <1>7, <1>9, <1>10 DEF AreThoseTouching

(* HeldAsNeeded is an invariant: the pixel cells in use are exactly those  *)
(* of the regions seen so far that touch a position still to be visited,   *)
(* so a region is completed, and its cells are freed, no earlier and no    *)
(* later than it can be known to be whole; and PIXSTACK_FULL is reported   *)
(* only when these and the new pixel leave a single cell (lutz():          *)
(* completeflag, "free the chain-list" and the test of freeinfo).          *)
THEOREM HeldIsNeeded == Spec => []HeldAsNeeded
BY HeldInit, HeldNext, HeldGives, PTL DEF Spec
=============================================================================
