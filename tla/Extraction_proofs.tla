------------------------- MODULE Extraction_proofs -------------------------
(***************************************************************************)
(* Five results about the extraction, each for every image, pixel stack    *)
(* and number of retries.                                                  *)
(*                                                                         *)
(* Components and RegionOf, which are recursive, find exactly the regions  *)
(* of a set: the parts closed under touching no part of which is.          *)
(*                                                                         *)
(* Deblending shares a region out.  Every member of the tree is a region   *)
(* of its level inside the one it is a son of, a region that is not cut    *)
(* has nothing cut above it, and so two regions that are cut out share no  *)
(* pixel.                                                                  *)
(*                                                                         *)
(* The extraction ends.  The measure Remaining falls with every step as a  *)
(* call visits the positions in order, whatever a visit does to the arrays *)
(* and lists: no part of the loop body but the last moves the scan.        *)
(*                                                                         *)
(* The scan stays inside its arrays.  What holds between two visits is     *)
(* three things: psstack with ps is one word, a COMPLETE for each open     *)
(* region and above it the regions of the line above that it has met       *)
(* (Framed); the markers written on this line nest, and start and end of   *)
(* an open region name columns among them (Past); the markers left of the  *)
(* line above nest too, each segment taking two columns (Rest).  As many   *)
(* regions are begun above as psstack has entries beyond co, so that at    *)
(* every column there is room for what a visit may open, and at the end of *)
(* a line nothing is open: its markers are the line above of the next.     *)
(*                                                                         *)
(* No cell is lost.  A function from the cells to sets of cells says what  *)
(* is behind each one (Chains); the lists named by the open regions, by    *)
(* the regions of the line above that have not been met and by the free    *)
(* list share the cells out, and each record knows its last cell and the   *)
(* number of its cells (Sound, Accounts, Cellular).  That a list is named  *)
(* once rests on where start and end point (Past).  The lists whose name   *)
(* is on its way from one array to the other during a visit are E; B is    *)
(* the region that has just begun and has no cell yet.                     *)
(***************************************************************************)
EXTENDS Extraction, FiniteSetTheorems, NaturalsInduction, SequenceTheorems, WellFoundedInduction,
        TLAPS

(* Induction over the naturals, of sets. *)
LEMMA NatSetInduction ==
  ASSUME NEW S, 0 \in S, \A n \in Nat : n \in S => n + 1 \in S
  PROVE  Nat \subseteq S
<1>1. SUFFICES ASSUME ~(Nat \subseteq S) PROVE FALSE
  OBVIOUS
<1> DEFINE T == Nat \ S
<1>2. T \subseteq Nat /\ T # {}
  BY <1>1
<1>3. PICK x \in T : \A y \in T : ~(<<y, x>> \in OpToRel(<, Nat))
  BY <1>2, WFMin, NatLessThanWellFounded
<1>4. x \in Nat /\ x # 0 /\ x \notin S
  OBVIOUS
<1>5. x - 1 \in Nat /\ x - 1 \notin S
  BY <1>4
<1>6. <<x - 1, x>> \in OpToRel(<, Nat)
  BY <1>4, <1>5 DEF OpToRel
<1> QED
  BY <1>3, <1>5, <1>6

-----------------------------------------------------------------------------
(* Regions of a set of pixels *)

Cells == Int \X Int

(* No pixel of T outside X touches X. *)
Closed(X, T) == \A p \in X : \A q \in T : Touch(p, q) => q \in X

(* No part of C is closed in it. *)
Whole(C) == \A X \in SUBSET C : X # {} /\ Closed(X, C) => X = C

(* A region of T, defined without naming a way to find it. *)
IsRegion(C, T) == C \subseteq T /\ C # {} /\ Closed(C, T) /\ Whole(C)

LEMMA TouchBoth ==
  \A p, q \in Cells : Touch(p, p) /\ (Touch(p, q) => Touch(q, p))
BY DEF Cells, Touch, Near

(* A proper part of a finite set has fewer members. *)
LEMMA PartIsSmaller ==
  ASSUME NEW S, IsFiniteSet(S), NEW T \in SUBSET S, T # S
  PROVE  /\ IsFiniteSet(T) /\ Cardinality(T) \in Nat /\ Cardinality(S) \in Nat
         /\ Cardinality(T) + 1 <= Cardinality(S)
<1>1. IsFiniteSet(T) /\ Cardinality(T) <= Cardinality(S) /\ Cardinality(T) # Cardinality(S)
  BY FS_Subset
<1>2. Cardinality(T) \in Nat /\ Cardinality(S) \in Nat
  BY <1>1, FS_CardinalityType
<1> QED BY <1>1, <1>2

(* Regions that meet are one. *)
LEMMA RegionsAreApart ==
  ASSUME NEW T, NEW C, NEW D, IsRegion(C, T), IsRegion(D, T), C \intersect D # {}
  PROVE  C = D
<1> DEFINE X == C \intersect D
<1>1. Closed(X, C) /\ Closed(X, D)
  BY DEF IsRegion, Closed
<1>2. X \in SUBSET C /\ X \in SUBSET D /\ X # {}
  OBVIOUS
<1> HIDE DEF X
<1>3. X = C /\ X = D
  BY <1>1, <1>2 DEF IsRegion, Whole
<1> QED BY <1>3

-----------------------------------------------------------------------------
(* RegionOf finds the region of a pixel *)

Grows(f, S, T) == f[S] = IF Around(S, T) = S THEN S ELSE f[Around(S, T)]

LEMMA AroundFacts ==
  ASSUME NEW T \in SUBSET Cells, NEW S \in SUBSET T
  PROVE  /\ Around(S, T) \in SUBSET T /\ S \subseteq Around(S, T)
         /\ Around(S, T) = S => Closed(S, T)
         /\ \A X \in SUBSET T : S \subseteq X /\ Closed(X, T) => Around(S, T) \subseteq X
<1>1. Around(S, T) \in SUBSET T
  BY DEF Around
<1>2. \A p \in S : p \in Cells
  OBVIOUS
<1>3. S \subseteq Around(S, T)
  BY <1>2, TouchBoth DEF Around
<1> QED BY <1>1, <1>3 DEF Around, Closed

(* Growing ends: the pixels not reached become fewer. *)
LEMMA AroundFewer ==
  ASSUME NEW T \in SUBSET Cells, IsFiniteSet(T), NEW S \in SUBSET T, Around(S, T) # S,
         NEW n \in Nat, Cardinality(T \ S) <= n + 1
  PROVE  Cardinality(T \ Around(S, T)) <= n
<1> DEFINE A == Around(S, T)
<1>1. A \in SUBSET T /\ S \subseteq A /\ A # S
  BY AroundFacts
<1> HIDE DEF A
<1>2. T \ A \in SUBSET (T \ S) /\ T \ A # T \ S /\ T \ S \in SUBSET T
  BY <1>1
<1>3. IsFiniteSet(T \ S)
  BY <1>2, FS_Subset
<1>4. Cardinality(T \ A) \in Nat /\ Cardinality(T \ S) \in Nat /\ Cardinality(T \ A) + 1 <= Cardinality(T \ S)
  BY <1>2, <1>3, PartIsSmaller
<1> QED BY <1>4 DEF A

LEMMA GrowingExists ==
  ASSUME NEW T \in SUBSET Cells, IsFiniteSet(T)
  PROVE  \E f : f = [S \in SUBSET T |-> IF Around(S, T) = S THEN S ELSE f[Around(S, T)]]
<1> DEFINE Good(f, n) == /\ f = [S \in SUBSET T |-> f[S]]
                         /\ \A S \in SUBSET T : Cardinality(T \ S) <= n => Grows(f, S, T)
           N == {n \in Nat : \E f : Good(f, n)}
<1>1. 0 \in N
  <2> DEFINE f == [S \in SUBSET T |-> S]
  <2>1. ASSUME NEW S \in SUBSET T, Cardinality(T \ S) <= 0 PROVE Grows(f, S, T)
    <3>1. T \ S \in SUBSET T
      OBVIOUS
    <3>2. IsFiniteSet(T \ S)
      BY <3>1, FS_Subset
    <3>3. Cardinality(T \ S) = 0
      BY <2>1, <3>2, FS_CardinalityType
    <3>4. S = T
      BY <3>2, <3>3, FS_EmptySet
    <3>5. Around(S, T) = S
      BY <3>4, AroundFacts
    <3> QED BY <3>5 DEF Grows
  <2>2. f = [S \in SUBSET T |-> f[S]]
    OBVIOUS
  <2> HIDE DEF f
  <2>3. Good(f, 0)
    BY <2>1, <2>2
  <2> QED BY <2>3
<1>2. ASSUME NEW n \in Nat, n \in N PROVE n + 1 \in N
  <2>1. PICK f : Good(f, n)
    BY <1>2
  <2> DEFINE g == [S \in SUBSET T |-> IF Around(S, T) = S THEN S ELSE f[Around(S, T)]]
  <2>2. ASSUME NEW S \in SUBSET T, Cardinality(T \ S) <= n + 1 PROVE Grows(g, S, T)
    <3>1. CASE Around(S, T) = S
      BY <3>1 DEF Grows
    <3>2. CASE Around(S, T) # S
      <4>1. PICK A : A = Around(S, T)
        OBVIOUS
      <4>2. A \in SUBSET T /\ Cardinality(T \ A) <= n
        BY <2>2, <3>2, <4>1, AroundFacts, AroundFewer
      <4>3. Grows(f, A, T)
        BY <2>1, <4>2
      <4>4. g[S] = f[A] /\ g[A] = IF Around(A, T) = A THEN A ELSE f[Around(A, T)]
        BY <3>2, <4>1, <4>2
      <4> HIDE DEF g
      <4> QED BY <3>2, <4>1, <4>3, <4>4 DEF Grows
    <3> QED BY <3>1, <3>2
  <2>3. g = [S \in SUBSET T |-> g[S]]
    OBVIOUS
  <2> HIDE DEF g
  <2>4. Good(g, n + 1)
    BY <2>2, <2>3
  <2>5. n + 1 \in Nat
    OBVIOUS
  <2> HIDE DEF Good
  <2> QED BY <2>4, <2>5
<1>3. Cardinality(T) \in N
  <2> HIDE DEF N
  <2>1. Nat \subseteq N
    BY <1>1, <1>2, NatSetInduction
  <2> QED BY <2>1, FS_CardinalityType
<1>4. PICK f : Good(f, Cardinality(T))
  BY <1>3
<1>5. ASSUME NEW S \in SUBSET T PROVE Grows(f, S, T)
  <2>1. T \ S \in SUBSET T
    OBVIOUS
  <2>2. Cardinality(T \ S) <= Cardinality(T)
    BY <2>1, FS_Subset
  <2> QED BY <1>4, <2>2
<1>6. f = [S \in SUBSET T |-> f[S]]
  BY <1>4
<1>7. f = [S \in SUBSET T |-> IF Around(S, T) = S THEN S ELSE f[Around(S, T)]]
  BY <1>5, <1>6, Zenon DEF Grows
<1> QED BY <1>7

(* What RegionOf returns: the least closed set that holds the pixel. *)
LEMMA RegionOfLeast ==
  ASSUME NEW T \in SUBSET Cells, IsFiniteSet(T), NEW p \in T
  PROVE  /\ RegionOf(p, T) \in SUBSET T /\ p \in RegionOf(p, T) /\ Closed(RegionOf(p, T), T)
         /\ \A X \in SUBSET T : p \in X /\ Closed(X, T) => RegionOf(p, T) \subseteq X
<1> DEFINE f == CHOOSE f : f = [S \in SUBSET T |-> IF Around(S, T) = S THEN S ELSE f[Around(S, T)]]
<1>1. RegionOf(p, T) = f[{p}]
  BY DEF RegionOf
<1>2. f = [S \in SUBSET T |-> IF Around(S, T) = S THEN S ELSE f[Around(S, T)]]
  BY GrowingExists
<1> HIDE DEF f
<1>3. \A S \in SUBSET T : Grows(f, S, T)
  BY <1>2, Zenon DEF Grows
<1> DEFINE Least(S) == /\ f[S] \in SUBSET T /\ S \subseteq f[S] /\ Closed(f[S], T)
                       /\ \A X \in SUBSET T : S \subseteq X /\ Closed(X, T) => f[S] \subseteq X
           N == {n \in Nat : \A S \in SUBSET T : Cardinality(T \ S) <= n => Least(S)}
<1>4. ASSUME NEW S \in SUBSET T, Around(S, T) = S PROVE Least(S)
  <2>1. f[S] = S
    BY <1>3, <1>4 DEF Grows
  <2> QED BY <1>4, <2>1, AroundFacts
<1>5. ASSUME NEW S \in SUBSET T, Around(S, T) # S, Least(Around(S, T)) PROVE Least(S)
  <2>1. f[S] = f[Around(S, T)]
    BY <1>3, <1>5 DEF Grows
  <2>2. S \subseteq Around(S, T) /\ \A X \in SUBSET T : S \subseteq X /\ Closed(X, T) => Around(S, T) \subseteq X
    BY AroundFacts
  <2> QED BY <1>5, <2>1, <2>2
<1> HIDE DEF Least
<1>6. 0 \in N
  <2> SUFFICES ASSUME NEW S \in SUBSET T, Cardinality(T \ S) <= 0 PROVE Least(S)
    OBVIOUS
  <2>1. T \ S \in SUBSET T
    OBVIOUS
  <2>2. IsFiniteSet(T \ S)
    BY <2>1, FS_Subset
  <2>3. Cardinality(T \ S) = 0
    BY <2>2, FS_CardinalityType
  <2>4. S = T
    BY <2>2, <2>3, FS_EmptySet
  <2>5. Around(S, T) = S
    BY <2>4, AroundFacts
  <2> QED BY <1>4, <2>5
<1>7. ASSUME NEW n \in Nat, n \in N PROVE n + 1 \in N
  <2> SUFFICES ASSUME NEW S \in SUBSET T, Cardinality(T \ S) <= n + 1 PROVE Least(S)
    OBVIOUS
  <2>1. CASE Around(S, T) = S
    BY <1>4, <2>1
  <2>2. CASE Around(S, T) # S
    <3>1. Around(S, T) \in SUBSET T /\ Cardinality(T \ Around(S, T)) <= n
      BY <2>2, AroundFacts, AroundFewer
    <3> QED BY <1>5, <1>7, <2>2, <3>1
  <2> QED BY <2>1, <2>2
<1>8. Cardinality(T) \in N
  <2> HIDE DEF N
  <2>1. Nat \subseteq N
    BY <1>6, <1>7, NatSetInduction
  <2> QED BY <2>1, FS_CardinalityType
<1>9. {p} \in SUBSET T /\ T \ {p} \in SUBSET T
  OBVIOUS
<1>10. Cardinality(T \ {p}) <= Cardinality(T)
  BY <1>9, FS_Subset
<1>11. Least({p})
  BY <1>8, <1>9, <1>10
<1> QED BY <1>1, <1>11 DEF Least

LEMMA RegionOfIsRegion ==
  ASSUME NEW T \in SUBSET Cells, IsFiniteSet(T), NEW p \in T
  PROVE  IsRegion(RegionOf(p, T), T) /\ p \in RegionOf(p, T)
<1>1. PICK R : R = RegionOf(p, T)
  OBVIOUS
<1>2. /\ R \in SUBSET T /\ p \in R /\ Closed(R, T)
      /\ \A X \in SUBSET T : p \in X /\ Closed(X, T) => R \subseteq X
  BY <1>1, RegionOfLeast
<1>3. ASSUME NEW X \in SUBSET R, X # {}, Closed(X, R) PROVE X = R
  <2>1. CASE p \in X
    <3>1. Closed(X, T)
      BY <1>2, <1>3 DEF Closed
    <3> QED BY <1>2, <1>3, <2>1, <3>1
  <2>2. CASE p \notin X
    <3>1. ASSUME NEW r \in R \ X, NEW q \in T, Touch(r, q) PROVE q \in R \ X
      <4>1. q \in R
        BY <1>2, <3>1 DEF Closed
      <4>2. Touch(q, r)
        <5>1. r \in Cells /\ q \in Cells
          BY <1>2
        <5> QED BY <3>1, <5>1, TouchBoth
      <4> QED BY <1>3, <4>1, <4>2 DEF Closed
    <3>2. Closed(R \ X, T)
      BY <3>1 DEF Closed
    <3>3. R \ X \in SUBSET T /\ p \in R \ X
      BY <1>2, <2>2
    <3>4. R \subseteq R \ X
      BY <1>2, <3>2, <3>3
    <3> QED BY <1>3, <3>4
  <2> QED BY <2>1, <2>2
<1>4. Whole(R)
  BY <1>3 DEF Whole
<1> QED BY <1>1, <1>2, <1>4 DEF IsRegion

(* A set no part of which is closed is connected. *)
LEMMA WholeIsConnected ==
  ASSUME NEW S \in SUBSET Cells, IsFiniteSet(S), Whole(S)
  PROVE  Connected(S)
<1>1. ASSUME NEW p \in S PROVE RegionOf(p, S) = S
  BY RegionOfIsRegion DEF IsRegion, Whole
<1> QED BY <1>1 DEF Connected

-----------------------------------------------------------------------------
(* Components finds the regions of a set *)

(* The part that Components splits off first. *)
First(S) == RegionOf(CHOOSE p \in S : TRUE, S)

Splits(f, S) == f[S] = IF S = {} THEN {} ELSE {First(S)} \union f[S \ First(S)]

LEMMA FirstIsRegion ==
  ASSUME NEW S \in SUBSET Cells, IsFiniteSet(S), S # {}
  PROVE  IsRegion(First(S), S)
<1>1. (CHOOSE p \in S : TRUE) \in S
  OBVIOUS
<1> QED BY <1>1, RegionOfIsRegion DEF First

LEMMA SplitFewer ==
  ASSUME NEW S \in SUBSET Cells, IsFiniteSet(S), S # {}, NEW n \in Nat, Cardinality(S) <= n + 1
  PROVE  Cardinality(S \ First(S)) <= n
<1>1. S \ First(S) \in SUBSET S /\ S \ First(S) # S
  BY FirstIsRegion DEF IsRegion
<1> QED BY <1>1, PartIsSmaller

LEMMA SplittingExists ==
  ASSUME NEW T \in SUBSET Cells, IsFiniteSet(T)
  PROVE  \E f : f = [S \in SUBSET T |-> IF S = {} THEN {} ELSE {First(S)} \union f[S \ First(S)]]
<1> DEFINE Good(f, n) == /\ f = [S \in SUBSET T |-> f[S]]
                         /\ \A S \in SUBSET T : Cardinality(S) <= n => Splits(f, S)
           N == {n \in Nat : \E f : Good(f, n)}
<1>0. \A S \in SUBSET T : S \in SUBSET Cells /\ IsFiniteSet(S) /\ Cardinality(S) \in Nat
  BY FS_Subset, FS_CardinalityType
<1>1. 0 \in N
  <2> DEFINE f == [S \in SUBSET T |-> {}]
  <2>1. ASSUME NEW S \in SUBSET T, Cardinality(S) <= 0 PROVE Splits(f, S)
    <3>1. S = {}
      <4>1. IsFiniteSet(S) /\ Cardinality(S) = 0
        BY <1>0, <2>1
      <4> QED BY <4>1, FS_EmptySet
    <3> QED BY <3>1 DEF Splits
  <2>2. f = [S \in SUBSET T |-> f[S]]
    OBVIOUS
  <2> HIDE DEF f
  <2>3. Good(f, 0)
    BY <2>1, <2>2
  <2> HIDE DEF Good
  <2> QED BY <2>3
<1>2. ASSUME NEW n \in Nat, n \in N PROVE n + 1 \in N
  <2>1. PICK f : Good(f, n)
    BY <1>2
  <2> DEFINE g == [S \in SUBSET T |-> IF S = {} THEN {} ELSE {First(S)} \union f[S \ First(S)]]
  <2>2. ASSUME NEW S \in SUBSET T, Cardinality(S) <= n + 1 PROVE Splits(g, S)
    <3>1. CASE S = {}
      BY <3>1 DEF Splits
    <3>2. CASE S # {}
      <4>1. PICK A : A = S \ First(S)
        OBVIOUS
      <4>2. A \in SUBSET T /\ Cardinality(A) <= n
        BY <1>0, <2>2, <3>2, <4>1, SplitFewer
      <4>3. Splits(f, A)
        BY <2>1, <4>2
      <4>4. g[S] = {First(S)} \union f[A]
            /\ g[A] = IF A = {} THEN {} ELSE {First(A)} \union f[A \ First(A)]
        BY <3>2, <4>1, <4>2
      <4> HIDE DEF g
      <4> QED BY <3>2, <4>1, <4>3, <4>4 DEF Splits
    <3> QED BY <3>1, <3>2
  <2>3. g = [S \in SUBSET T |-> g[S]]
    OBVIOUS
  <2> HIDE DEF g
  <2>4. Good(g, n + 1)
    BY <2>2, <2>3
  <2>5. n + 1 \in Nat
    OBVIOUS
  <2> HIDE DEF Good
  <2> QED BY <2>4, <2>5
<1>3. Cardinality(T) \in N
  <2> HIDE DEF N
  <2>1. Nat \subseteq N
    BY <1>1, <1>2, NatSetInduction
  <2> QED BY <2>1, FS_CardinalityType
<1>4. PICK f : Good(f, Cardinality(T))
  BY <1>3
<1>5. ASSUME NEW S \in SUBSET T PROVE Splits(f, S)
  BY <1>4, FS_Subset
<1>6. f = [S \in SUBSET T |-> f[S]]
  BY <1>4
<1>7. f = [S \in SUBSET T |-> IF S = {} THEN {} ELSE {First(S)} \union f[S \ First(S)]]
  BY <1>5, <1>6, Zenon DEF Splits
<1> QED BY <1>7

(* What is left of a closed set without one of its regions is closed. *)
LEMMA RestIsClosed ==
  ASSUME NEW T \in SUBSET Cells, NEW S \in SUBSET T, Closed(S, T), NEW R, IsRegion(R, S)
  PROVE  IsRegion(R, T) /\ Closed(S \ R, T)
<1>1. R \in SUBSET S /\ R \in SUBSET T /\ R # {} /\ Closed(R, S) /\ Whole(R)
  BY DEF IsRegion
<1>2. Closed(R, T)
  BY <1>1 DEF Closed
<1>3. ASSUME NEW r \in S \ R, NEW q \in T, Touch(r, q) PROVE q \in S \ R
  <2>1. q \in S
    BY <1>3 DEF Closed
  <2>2. Touch(q, r)
    <3>1. r \in Cells /\ q \in Cells
      OBVIOUS
    <3> QED BY <1>3, <3>1, TouchBoth
  <2> QED BY <1>1, <1>3, <2>1, <2>2 DEF Closed
<1>4. Closed(S \ R, T)
  BY <1>3 DEF Closed
<1> QED BY <1>1, <1>2, <1>4 DEF IsRegion

(* Components returns the regions of a finite set, all of them and nothing    *)
(* else: the reference the scan and the deblending are compared with is the   *)
(* definition of 8-connected regions.                                         *)
THEOREM ComponentsAreRegions ==
  ASSUME NEW T \in SUBSET Cells, IsFiniteSet(T)
  PROVE  /\ \A C : C \in Components(T) <=> IsRegion(C, T)
         /\ \A p \in T : \E C \in Components(T) : p \in C
<1> DEFINE f == CHOOSE f : f = [S \in SUBSET T |-> IF S = {} THEN {} ELSE {First(S)} \union f[S \ First(S)]]
<1>1. Components(T) = f[T]
  BY DEF Components, First
<1>2. f = [S \in SUBSET T |-> IF S = {} THEN {} ELSE {First(S)} \union f[S \ First(S)]]
  BY SplittingExists
<1> HIDE DEF f
<1>3. \A S \in SUBSET T : Splits(f, S)
  BY <1>2, Zenon DEF Splits
<1> DEFINE Good(S) == /\ \A C \in f[S] : IsRegion(C, T)
                      /\ \A p \in S : \E C \in f[S] : p \in C
           N == {n \in Nat : \A S \in SUBSET T : Closed(S, T) /\ Cardinality(S) <= n => Good(S)}
<1>0. \A S \in SUBSET T : S \in SUBSET Cells /\ IsFiniteSet(S) /\ Cardinality(S) \in Nat
  BY FS_Subset, FS_CardinalityType
<1>4. Good({})
  <2>1. f[{}] = {}
    BY <1>3 DEF Splits
  <2> QED BY <2>1
<1>5. ASSUME NEW S \in SUBSET T, S # {}, Closed(S, T), Good(S \ First(S)) PROVE Good(S)
  <2>1. f[S] = {First(S)} \union f[S \ First(S)]
    BY <1>3, <1>5 DEF Splits
  <2>2. IsRegion(First(S), S)
    BY <1>0, <1>5, FirstIsRegion
  <2>3. IsRegion(First(S), T)
    BY <1>5, <2>2, RestIsClosed
  <2> QED BY <1>5, <2>1, <2>3
<1> HIDE DEF Good
<1>6. 0 \in N
  <2> SUFFICES ASSUME NEW S \in SUBSET T, Cardinality(S) <= 0 PROVE Good(S)
    OBVIOUS
  <2>1. IsFiniteSet(S) /\ Cardinality(S) = 0
    BY <1>0
  <2>2. S = {}
    BY <2>1, FS_EmptySet
  <2> QED BY <1>4, <2>2
<1>7. ASSUME NEW n \in Nat, n \in N PROVE n + 1 \in N
  <2> SUFFICES ASSUME NEW S \in SUBSET T, Closed(S, T), Cardinality(S) <= n + 1 PROVE Good(S)
    OBVIOUS
  <2>1. CASE S = {}
    BY <1>4, <2>1
  <2>2. CASE S # {}
    <3>1. S \ First(S) \in SUBSET T /\ Cardinality(S \ First(S)) <= n
      BY <1>0, <2>2, SplitFewer
    <3>2. Closed(S \ First(S), T)
      BY <1>0, <2>2, FirstIsRegion, RestIsClosed
    <3> QED BY <1>5, <1>7, <2>2, <3>1, <3>2
  <2> QED BY <2>1, <2>2
<1>8. Cardinality(T) \in N /\ Cardinality(T) <= Cardinality(T)
  <2> HIDE DEF N
  <2>1. Nat \subseteq N
    BY <1>6, <1>7, NatSetInduction
  <2> QED BY <2>1, FS_CardinalityType
<1>9. Good(T)
  BY <1>8 DEF Closed
<1>10. /\ \A C \in Components(T) : IsRegion(C, T)
       /\ \A p \in T : \E C \in Components(T) : p \in C
  BY <1>1, <1>9 DEF Good
<1>11. ASSUME NEW C, IsRegion(C, T) PROVE C \in Components(T)
  <2>1. PICK p : p \in C /\ p \in T
    BY <1>11 DEF IsRegion
  <2>2. PICK D \in Components(T) : p \in D
    BY <1>10, <2>1
  <2>3. C = D
    BY <1>10, <1>11, <2>1, <2>2, RegionsAreApart
  <2> QED BY <2>2, <2>3
<1> QED BY <1>10, <1>11

-----------------------------------------------------------------------------
(* Powers of two, and the extremes of a finite set *)

IsPower(f, n) == f = [k \in 0..n |-> IF k = 0 THEN 1 ELSE 2 * f[k - 1]]

LEMMA PowerExists == \A n \in Nat : \E f : IsPower(f, n)
<1> DEFINE N == {n \in Nat : \E f : IsPower(f, n)}
<1>1. 0 \in N
  <2> DEFINE f == [k \in 0..0 |-> 1]
  <2>1. IsPower(f, 0)
    BY DEF IsPower
  <2> QED BY <2>1
<1>2. ASSUME NEW n \in Nat, n \in N PROVE n + 1 \in N
  <2>1. PICK f : IsPower(f, n)
    BY <1>2
  <2> DEFINE g == [k \in 0..(n + 1) |-> IF k = n + 1 THEN 2 * f[n] ELSE f[k]]
  <2>2. ASSUME NEW k \in 0..(n + 1) PROVE g[k] = IF k = 0 THEN 1 ELSE 2 * g[k - 1]
    <3>1. CASE k = n + 1
      BY <3>1
    <3>2. CASE k # n + 1
      <4>1. k \in 0..n /\ (k # 0 => k - 1 \in 0..n) /\ g[k] = f[k] /\ (k # 0 => g[k - 1] = f[k - 1])
        BY <3>2
      <4>2. f[k] = IF k = 0 THEN 1 ELSE 2 * f[k - 1]
        BY <2>1, <4>1 DEF IsPower
      <4> QED BY <4>1, <4>2
    <3> QED BY <3>1, <3>2
  <2>3. IsPower(g, n + 1)
    BY <2>2, Zenon DEF IsPower
  <2> QED BY <2>3
<1> HIDE DEF N
<1>3. Nat \subseteq N
  BY <1>1, <1>2, NatSetInduction
<1> QED BY <1>3 DEF N

(* A power doubles with each step, and so is the same in every table. *)
LEMMA PowersAgree ==
  ASSUME NEW m \in Nat, NEW n \in Nat, NEW f, NEW g, IsPower(f, m), IsPower(g, n)
  PROVE  \A i \in Nat : i <= m /\ i <= n => f[i] = g[i] /\ f[i] \in Nat
<1> DEFINE N == {i \in Nat : i <= m /\ i <= n => f[i] = g[i] /\ f[i] \in Nat}
<1>1. 0 \in N
  BY DEF IsPower
<1>2. ASSUME NEW i \in Nat, i \in N PROVE i + 1 \in N
  <2>1. CASE i + 1 <= m /\ i + 1 <= n
    <3>1. i + 1 \in 0..m /\ i + 1 \in 0..n /\ i + 1 # 0 /\ (i + 1) - 1 = i
      BY <2>1
    <3>2. f[i + 1] = 2 * f[i] /\ g[i + 1] = 2 * g[i]
      BY <3>1 DEF IsPower
    <3> QED BY <1>2, <2>1, <3>2
  <2> QED BY <2>1
<1> HIDE DEF N
<1>3. Nat \subseteq N
  BY <1>1, <1>2, NatSetInduction
<1> QED BY <1>3 DEF N

LEMMA PowersGrow ==
  ASSUME NEW n \in Nat, NEW f, IsPower(f, n)
  PROVE  \A i, d \in Nat : i + d <= n => f[i] <= f[i + d] /\ f[i] \in Nat /\ f[i + d] \in Nat
<1>1. \A i \in Nat : i <= n => f[i] \in Nat
  BY PowersAgree
<1> SUFFICES ASSUME NEW i \in Nat
             PROVE  \A d \in Nat : i + d <= n => f[i] <= f[i + d] /\ f[i] \in Nat /\ f[i + d] \in Nat
  OBVIOUS
<1> DEFINE N == {d \in Nat : i + d <= n => f[i] <= f[i + d]}
<1>2. 0 \in N
  BY <1>1
<1>3. ASSUME NEW d \in Nat, d \in N PROVE d + 1 \in N
  <2>1. CASE i + (d + 1) <= n
    <3>1. i + (d + 1) \in 0..n /\ i + (d + 1) # 0 /\ (i + (d + 1)) - 1 = i + d /\ i + d <= n /\ i <= n /\ i + d \in Nat
      BY <2>1
    <3>2. f[i + (d + 1)] = 2 * f[i + d]
      BY <3>1 DEF IsPower
    <3>3. f[i] <= f[i + d] /\ f[i] \in Nat /\ f[i + d] \in Nat
      BY <1>1, <1>3, <3>1
    <3>4. f[i] <= f[i + (d + 1)]
      BY <3>2, <3>3
    <3> QED BY <3>4
  <2> QED BY <2>1
<1> HIDE DEF N
<1>4. Nat \subseteq N
  BY <1>2, <1>3, NatSetInduction
<1>5. ASSUME NEW d \in Nat, i + d <= n PROVE f[i] <= f[i + d] /\ f[i] \in Nat /\ f[i + d] \in Nat
  <2>1. i <= n /\ i + d \in Nat
    BY <1>5
  <2> QED BY <1>1, <1>4, <1>5, <2>1 DEF N
<1> QED BY <1>5

(* TwoTo is what it is called, as far as the levels need it. *)
LEMMA TwoToGrows ==
  ASSUME NEW a \in Nat, NEW b \in Nat, a <= b
  PROVE  TwoTo(a) <= TwoTo(b) /\ TwoTo(a) \in Nat /\ TwoTo(b) \in Nat
<1>1. ASSUME NEW n \in Nat PROVE \E f : IsPower(f, n) /\ TwoTo(n) = f[n]
  <2> DEFINE A == CHOOSE f : IsPower(f, n)
  <2>1. IsPower(A, n)
    BY PowerExists
  <2>2. TwoTo(n) = A[n]
    BY DEF TwoTo, IsPower
  <2> QED BY <2>1, <2>2
<1>2. PICK f : IsPower(f, a) /\ TwoTo(a) = f[a]
  BY <1>1
<1>3. PICK g : IsPower(g, b) /\ TwoTo(b) = g[b]
  BY <1>1
<1>4. a <= a
  OBVIOUS
<1>5. f[a] = g[a]
  BY <1>2, <1>3, <1>4, PowersAgree
<1>6. PICK d \in Nat : a + d = b /\ a + d <= b
  <2>1. b - a \in Nat /\ a + (b - a) = b /\ a + (b - a) <= b
    OBVIOUS
  <2> QED BY <2>1
<1>7. g[a] <= g[b] /\ g[a] \in Nat /\ g[b] \in Nat
  BY <1>3, <1>6, PowersGrow
<1> QED BY <1>2, <1>3, <1>5, <1>7

(* A function on a finite set has a greatest value. *)
LEMMA Greatest ==
  ASSUME NEW S, IsFiniteSet(S), S # {}, NEW f \in [S -> Int]
  PROVE  \E m \in S : \A q \in S : f[q] <= f[m]
<1> DEFINE Has(T) == \E m \in T : \A q \in T : f[q] <= f[m]
           N == {n \in Nat : \A T \in SUBSET S : T # {} /\ Cardinality(T) <= n => Has(T)}
<1>0. \A T \in SUBSET S : IsFiniteSet(T) /\ Cardinality(T) \in Nat
  BY FS_Subset, FS_CardinalityType
<1>1. 0 \in N
  <2>1. ASSUME NEW T \in SUBSET S, Cardinality(T) <= 0 PROVE T = {}
    <3>1. IsFiniteSet(T) /\ Cardinality(T) = 0
      BY <1>0, <2>1
    <3> QED BY <3>1, FS_EmptySet
  <2> HIDE DEF Has
  <2> QED BY <2>1
<1>2. ASSUME NEW n \in Nat, n \in N PROVE n + 1 \in N
  <2> SUFFICES ASSUME NEW T \in SUBSET S, T # {}, Cardinality(T) <= n + 1 PROVE Has(T)
    <3> HIDE DEF Has
    <3> QED OBVIOUS
  <2>1. PICK x \in T : TRUE
    OBVIOUS
  <2> DEFINE U == T \ {x}
  <2>2. U \in SUBSET S /\ U \in SUBSET T /\ U # T
    OBVIOUS
  <2>3. Cardinality(U) <= n
    <3> HIDE DEF U
    <3> QED BY <1>0, <2>2, PartIsSmaller
  <2>4. CASE U = {}
    <3>1. T = {x} /\ f[x] <= f[x]
      BY <2>4
    <3> QED BY <3>1
  <2>5. CASE U # {}
    <3>1. Has(U)
      <4> HIDE DEF U, Has
      <4> QED BY <1>2, <2>2, <2>3, <2>5
    <3>2. PICK m \in U : \A q \in U : f[q] <= f[m]
      BY <3>1
    <3>3. \A q \in T : q \in U \/ q = x
      OBVIOUS
    <3>4. f[x] \in Int /\ f[m] \in Int /\ \A q \in T : f[q] \in Int
      OBVIOUS
    <3>5. CASE f[x] <= f[m]
      BY <3>2, <3>3, <3>5
    <3>6. CASE ~(f[x] <= f[m])
      <4>1. \A q \in T : f[q] <= f[x]
        <5> HIDE DEF U
        <5> QED BY <3>2, <3>3, <3>4, <3>6
      <4> QED BY <4>1
    <3> QED BY <3>5, <3>6
  <2> QED BY <2>4, <2>5
<1>3. Cardinality(S) \in N /\ Cardinality(S) <= Cardinality(S)
  <2> HIDE DEF N
  <2>1. Nat \subseteq N
    BY <1>1, <1>2, NatSetInduction
  <2> QED BY <2>1, FS_CardinalityType
<1> QED BY <1>3

LEMMA MaxIs ==
  ASSUME NEW S, IsFiniteSet(S), S # {}, NEW f \in [S -> Int],
         NEW X, \A p \in S : f[p] \in X, \A x \in X : \E p \in S : x = f[p]
  PROVE  Max(X) \in X /\ \A x \in X : x <= Max(X)
<1>1. \E m \in X : \A x \in X : m >= x
  BY Greatest
<1>2. X \subseteq Int
  OBVIOUS
<1>3. Max(X) \in X /\ \A x \in X : Max(X) >= x
  BY <1>1 DEF Max
<1> QED BY <1>2, <1>3

LEMMA MinIs ==
  ASSUME NEW S, IsFiniteSet(S), S # {}, NEW f \in [S -> Int],
         NEW X, \A p \in S : f[p] \in X, \A x \in X : \E p \in S : x = f[p]
  PROVE  Min(X) \in X /\ \A x \in X : Min(X) <= x
<1> DEFINE g == [p \in S |-> 0 - f[p]]
<1>1. \E m \in X : \A x \in X : m <= x
  <2>1. g \in [S -> Int]
    OBVIOUS
  <2>2. PICK m \in S : \A q \in S : g[q] <= g[m]
    BY <2>1, Greatest
  <2>3. \A q \in S : f[m] <= f[q]
    BY <2>2
  <2> QED BY <2>3
<1>2. Min(X) \in X /\ \A x \in X : Min(X) =< x
  BY <1>1 DEF Min
<1> QED BY <1>2

(* A set of pixels lies in its own bounding box. *)
LEMMA InItsBox ==
  ASSUME NEW T \in SUBSET Cells, NEW S \in SUBSET T, IsFiniteSet(S), S # {}
  PROVE  S \subseteq InBoxOf(S, T)
<1> DEFINE f == [p \in S |-> p[1]]
           g == [p \in S |-> p[2]]
<1>1. f \in [S -> Int] /\ g \in [S -> Int]
  BY DEF Cells
<1>2. /\ \A p \in S : f[p] \in Columns(S) /\ g[p] \in Rows(S)
      /\ \A x \in Columns(S) : \E p \in S : x = f[p]
      /\ \A x \in Rows(S) : \E p \in S : x = g[p]
  BY DEF Columns, Rows
<1>3. /\ \A x \in Columns(S) : Min(Columns(S)) <= x /\ x <= Max(Columns(S))
      /\ \A x \in Rows(S) : Min(Rows(S)) <= x /\ x <= Max(Rows(S))
      /\ Min(Columns(S)) \in Columns(S) /\ Max(Columns(S)) \in Columns(S)
      /\ Min(Rows(S)) \in Rows(S) /\ Max(Rows(S)) \in Rows(S)
  <2> HIDE DEF f, g
  <2>1. Max(Columns(S)) \in Columns(S) /\ \A x \in Columns(S) : x <= Max(Columns(S))
    BY <1>1, <1>2, MaxIs
  <2>2. Max(Rows(S)) \in Rows(S) /\ \A x \in Rows(S) : x <= Max(Rows(S))
    BY <1>1, <1>2, MaxIs
  <2>3. Min(Columns(S)) \in Columns(S) /\ \A x \in Columns(S) : Min(Columns(S)) <= x
    BY <1>1, <1>2, MinIs
  <2>4. Min(Rows(S)) \in Rows(S) /\ \A x \in Rows(S) : Min(Rows(S)) <= x
    BY <1>1, <1>2, MinIs
  <2> QED BY <2>1, <2>2, <2>3, <2>4
<1>4. Columns(S) \subseteq Int /\ Rows(S) \subseteq Int
  BY DEF Columns, Rows, Cells
<1>5. ASSUME NEW q \in S PROVE q \in InBoxOf(S, T)
  <2>1. q[1] \in Columns(S) /\ q[2] \in Rows(S)
    BY DEF Columns, Rows
  <2>2. q[1] \in Min(Columns(S))..Max(Columns(S)) /\ q[2] \in Min(Rows(S))..Max(Rows(S))
    BY <1>3, <1>4, <2>1
  <2> QED BY <2>2 DEF InBoxOf
<1> QED BY <1>5

-----------------------------------------------------------------------------
(* The tree of a detection *)

(* What deblend() is called with: pixels above the threshold class t. *)
Detection(S, val, t) ==
  /\ S \in SUBSET Cells /\ IsFiniteSet(S) /\ S # {}
  /\ t \in Nat /\ \A p \in S : val[p] \in Nat /\ val[p] > t

(* The pixels of the detection that are above level k. *)
AboveLevel(k, S, val, t) ==
  IF k = 0 THEN S ELSE {p \in S : Intensity(val[p]) > LevelAt(k, t, Peak(S, val))}

LEMMA PeakIs ==
  ASSUME NEW S, NEW val, NEW t, Detection(S, val, t)
  PROVE  Peak(S, val) \in Nat /\ Peak(S, val) > t
<1> DEFINE f == [p \in S |-> val[p]]
           X == {val[p] : p \in S}
<1>1. /\ IsFiniteSet(S) /\ S # {} /\ f \in [S -> Int]
      /\ \A p \in S : f[p] \in X
      /\ \A x \in X : \E p \in S : x = f[p]
  BY DEF Detection
<1>2. \A x \in X : x \in Nat /\ x > t
  BY DEF Detection
<1>3. Peak(S, val) = Max(X)
  BY DEF Peak
<1> HIDE DEF f, X
<1>4. Max(X) \in X
  BY <1>1, MaxIs
<1> QED BY <1>2, <1>3, <1>4

LEMMA LevelsRise ==
  ASSUME NEW k \in Nat, NEW t \in Nat, NEW u \in Nat, u > t
  PROVE  /\ LevelAt(k, t, u) <= LevelAt(k + 1, t, u)
         /\ LevelAt(k, t, u) \in Nat /\ LevelAt(k + 1, t, u) \in Nat
<1>1. PICK d \in Nat : d = u - t
  OBVIOUS
<1>2. NThresh \in Nat
  BY DeblendAssumption
<1>3. PICK a \in Nat : a = NThresh * t
  BY <1>2
<1>4. PICK b \in Nat : b = k * d
  OBVIOUS
<1>5. (k + 1) * d = b + d
  BY <1>4
<1>6. a + b \in Nat /\ a + (b + d) \in Nat /\ a + b <= a + (b + d)
  OBVIOUS
<1>7. /\ TwoTo(a + b) <= TwoTo(a + (b + d))
      /\ TwoTo(a + b) \in Nat /\ TwoTo(a + (b + d)) \in Nat
  BY <1>6, TwoToGrows
<1>8. LevelAt(k, t, u) = TwoTo(a + b) /\ LevelAt(k + 1, t, u) = TwoTo(a + (b + d))
  BY <1>1, <1>3, <1>4, <1>5 DEF LevelAt
<1> QED BY <1>7, <1>8

LEMMA LevelsShrink ==
  ASSUME NEW S, NEW val, NEW t, Detection(S, val, t), NEW k \in Nat
  PROVE  /\ AboveLevel(k + 1, S, val, t) \subseteq AboveLevel(k, S, val, t)
         /\ AboveLevel(k, S, val, t) \in SUBSET S
         /\ AboveLevel(k, S, val, t) \in SUBSET Cells /\ IsFiniteSet(AboveLevel(k, S, val, t))
<1>1. PICK u \in Nat : u = Peak(S, val) /\ u > t
  BY PeakIs
<1>2. t \in Nat /\ S \in SUBSET Cells /\ IsFiniteSet(S)
  BY DEF Detection
<1>3. /\ LevelAt(k, t, u) <= LevelAt(k + 1, t, u)
      /\ LevelAt(k, t, u) \in Nat /\ LevelAt(k + 1, t, u) \in Nat
  BY <1>1, <1>2, LevelsRise
<1>4. ASSUME NEW p \in S PROVE Intensity(val[p]) \in Nat
  <2>1. val[p] \in Nat /\ NThresh \in Nat
    BY DeblendAssumption DEF Detection
  <2>2. PICK n \in Nat : n = NThresh * val[p]
    BY <2>1
  <2>3. n <= n
    OBVIOUS
  <2> QED BY <2>2, <2>3, TwoToGrows DEF Intensity
<1>5. k + 1 # 0
  OBVIOUS
<1>6. ASSUME NEW p \in S, Intensity(val[p]) > LevelAt(k + 1, t, u) PROVE Intensity(val[p]) > LevelAt(k, t, u)
  <2>1. Intensity(val[p]) \in Nat
    BY <1>4
  <2> QED BY <1>3, <1>6, <2>1
<1>7. AboveLevel(k + 1, S, val, t) \subseteq AboveLevel(k, S, val, t)
  BY <1>1, <1>5, <1>6 DEF AboveLevel
<1>8. AboveLevel(k, S, val, t) \in SUBSET S
  BY DEF AboveLevel
<1> QED BY <1>2, <1>7, <1>8, FS_Subset

(* A region of the tree at level k: the detection itself, or one of the       *)
(* regions above level k that are large enough.                               *)
Node(o, k, S, val, t) ==
  /\ o.pix \subseteq AboveLevel(k, S, val, t) /\ o.pix # {} /\ Closed(o.pix, AboveLevel(k, S, val, t))
  /\ o = [pix |-> o.pix, up |-> o.up]
  /\ k # 0 => Whole(o.pix) /\ Cardinality(o.pix) >= SonArea /\ o.pix \subseteq o.up

LEMMA NodeIsRegion ==
  ASSUME NEW o, NEW k, NEW S, NEW val, NEW t, Node(o, k, S, val, t), k # 0
  PROVE  IsRegion(o.pix, AboveLevel(k, S, val, t))
BY DEF Node, IsRegion

LEMMA RootIsNode ==
  ASSUME NEW S, NEW val, NEW t, Detection(S, val, t)
  PROVE  Node(Root(S), 0, S, val, t)
BY DEF Node, Root, AboveLevel, Detection, Closed

(* The sons of a region of the tree are such regions, inside it: the box they *)
(* are looked for in holds all of it, and what is looked for outside it is    *)
(* not taken for a son.                                                       *)
LEMMA SonsAreNodes ==
  ASSUME NEW S, NEW val, NEW t, Detection(S, val, t), NEW k \in Nat, NEW o, Node(o, k, S, val, t),
         NEW s \in SonsOf(o, S, val, LevelAt(k + 1, t, Peak(S, val)))
  PROVE  Node(s, k + 1, S, val, t) /\ s.up = o.pix
<1> DEFINE level == LevelAt(k + 1, t, Peak(S, val))
           box   == {p \in InBoxOf(o.pix, S) : Intensity(val[p]) > level}
           here  == AboveLevel(k, S, val, t)
           next  == AboveLevel(k + 1, S, val, t)
<1>1. /\ next \subseteq here /\ here \in SUBSET S /\ S \in SUBSET Cells /\ IsFiniteSet(S)
  BY LevelsShrink DEF Detection
<1>2. PICK R : /\ R \in Components(box) /\ Cardinality(R) >= SonArea
               /\ Belong(R, o.pix) /\ s = [pix |-> R, up |-> o.pix]
  BY DEF SonsOf, LutzRegions
<1>3. box \in SUBSET S /\ next = {p \in S : Intensity(val[p]) > level}
  <2>1. k + 1 # 0
    OBVIOUS
  <2> QED BY <2>1 DEF InBoxOf, AboveLevel
<1>4. /\ o.pix \subseteq here /\ o.pix # {} /\ Closed(o.pix, here)
  BY DEF Node
<1>5. o.pix \subseteq InBoxOf(o.pix, S)
  <2>1. o.pix \in SUBSET S /\ IsFiniteSet(o.pix)
    BY <1>1, <1>4, FS_Subset
  <2> QED BY <1>1, <1>4, <2>1, InItsBox
<1>6. box \subseteq next /\ \A q \in next : q \in o.pix => q \in box
  BY <1>3, <1>5
<1> HIDE DEF box, here, next, level
<1>7. IsRegion(R, box)
  <2>1. box \in SUBSET Cells /\ IsFiniteSet(box)
    BY <1>1, <1>3, FS_Subset
  <2> QED BY <1>2, <2>1, ComponentsAreRegions
<1>8. R \subseteq box /\ R # {} /\ Closed(R, box) /\ Whole(R)
  BY <1>7 DEF IsRegion
<1>9. R \subseteq o.pix
  <2> DEFINE X == R \intersect o.pix
  <2>1. (CHOOSE p \in R : TRUE) \in R
    BY <1>8
  <2>2. X # {}
    BY <1>2, <2>1 DEF Belong
  <2>3. Closed(X, R)
    BY <1>1, <1>4, <1>6, <1>8 DEF Closed
  <2> HIDE DEF X
  <2>4. X = R
    <3>1. X \in SUBSET R
      BY DEF X
    <3> QED BY <1>8, <2>2, <2>3, <3>1 DEF Whole
  <2> QED BY <2>4 DEF X
<1>10. Closed(R, next)
  <2> SUFFICES ASSUME NEW p \in R, NEW q \in next, Touch(p, q) PROVE q \in R
    BY DEF Closed
  <2>1. q \in o.pix
    BY <1>1, <1>4, <1>9 DEF Closed
  <2>2. q \in box
    BY <1>6, <2>1
  <2> QED BY <1>8, <2>2 DEF Closed
<1>11. s.pix = R /\ s.up = o.pix /\ s = [pix |-> s.pix, up |-> s.up]
  BY <1>2
<1>12. R \subseteq next
  BY <1>6, <1>8
<1> QED BY <1>2, <1>8, <1>9, <1>10, <1>11, <1>12 DEF Node, next

(* The level above, and the levels up to n. *)
NextLevel(below, k, S, val, t) == UNION {SonsOf(o, S, val, LevelAt(k, t, Peak(S, val))) : o \in below}

IsLevels(f, n, S, val, t) ==
  f = [k \in 0..n |-> IF k = 0 THEN {Root(S)} ELSE NextLevel(f[k - 1], k, S, val, t)]

LEMMA LevelsExist ==
  ASSUME NEW S, NEW val, NEW t
  PROVE  \A n \in Nat : \E f : IsLevels(f, n, S, val, t)
<1> DEFINE N == {n \in Nat : \E f : IsLevels(f, n, S, val, t)}
<1>1. 0 \in N
  <2> DEFINE f == [k \in 0..0 |-> {Root(S)}]
  <2>1. IsLevels(f, 0, S, val, t)
    BY DEF IsLevels
  <2> QED BY <2>1
<1>2. ASSUME NEW n \in Nat, n \in N PROVE n + 1 \in N
  <2>1. PICK f : IsLevels(f, n, S, val, t)
    BY <1>2
  <2> DEFINE g == [k \in 0..(n + 1) |-> IF k = n + 1 THEN NextLevel(f[n], k, S, val, t) ELSE f[k]]
  <2>2. ASSUME NEW k \in 0..(n + 1)
        PROVE  g[k] = IF k = 0 THEN {Root(S)} ELSE NextLevel(g[k - 1], k, S, val, t)
    <3>1. CASE k = n + 1
      BY <3>1
    <3>2. CASE k # n + 1
      <4>1. k \in 0..n /\ (k # 0 => k - 1 \in 0..n) /\ g[k] = f[k] /\ (k # 0 => g[k - 1] = f[k - 1])
        BY <3>2
      <4>2. f[k] = IF k = 0 THEN {Root(S)} ELSE NextLevel(f[k - 1], k, S, val, t)
        BY <2>1, <4>1 DEF IsLevels
      <4> QED BY <4>1, <4>2
    <3> QED BY <3>1, <3>2
  <2>3. IsLevels(g, n + 1, S, val, t)
    BY <2>2, Zenon DEF IsLevels
  <2> QED BY <2>3
<1> HIDE DEF N
<1>3. Nat \subseteq N
  BY <1>1, <1>2, NatSetInduction
<1> QED BY <1>3 DEF N

LEMMA TreeIs ==
  ASSUME NEW S, NEW val, NEW t
  PROVE  LET tree == Tree(S, val, t)
         IN  /\ tree[0] = {Root(S)}
             /\ \A k \in 1..(NThresh - 1) : tree[k] = NextLevel(tree[k - 1], k, S, val, t)
<1> DEFINE n == NThresh - 1
           f == CHOOSE f : IsLevels(f, n, S, val, t)
           tree == Tree(S, val, t)
<1>1. n \in Nat
  BY DeblendAssumption
<1>2. IsLevels(f, n, S, val, t)
  BY <1>1, LevelsExist
<1>3. tree = [k \in 0..n |-> f[k]]
  BY DEF Tree, IsLevels, NextLevel
<1> HIDE DEF n, f, tree
<1>4. \A k \in 0..n : tree[k] = f[k] /\ f[k] = IF k = 0 THEN {Root(S)} ELSE NextLevel(f[k - 1], k, S, val, t)
  BY <1>2, <1>3 DEF IsLevels
<1>5. 0 \in 0..n /\ \A k \in 1..n : k \in 0..n /\ k - 1 \in 0..n /\ k # 0
  BY <1>1
<1> QED BY <1>4, <1>5 DEF n, tree

(* Every member of the tree is a region at its level, and a son of one below. *)
LEMMA TreeNodes ==
  ASSUME NEW S, NEW val, NEW t, Detection(S, val, t), NEW tree, tree = Tree(S, val, t),
         NEW k \in 0..(NThresh - 1), NEW o \in tree[k]
  PROVE  /\ Node(o, k, S, val, t)
         /\ k # 0 => \E a \in tree[k - 1] : o \in Sons(a, tree, k - 1) /\ o.pix \subseteq a.pix
<1> DEFINE N == {n \in Nat : n <= NThresh - 1 => \A a \in tree[n] : Node(a, n, S, val, t)}
<1>0. NThresh - 1 \in Nat
  BY DeblendAssumption
<1>1. tree[0] = {Root(S)} /\ \A n \in 1..(NThresh - 1) : tree[n] = NextLevel(tree[n - 1], n, S, val, t)
  BY TreeIs
<1>2. ASSUME NEW n \in Nat, n + 1 <= NThresh - 1, \A a \in tree[n] : Node(a, n, S, val, t), NEW s \in tree[n + 1]
      PROVE  /\ Node(s, n + 1, S, val, t)
             /\ \E a \in tree[n] : s.up = a.pix
  <2>1. n + 1 \in 1..(NThresh - 1) /\ (n + 1) - 1 = n
    BY <1>0, <1>2
  <2>2. tree[n + 1] = NextLevel(tree[n], n + 1, S, val, t)
    BY <1>1, <2>1
  <2>3. PICK a \in tree[n] : s \in SonsOf(a, S, val, LevelAt(n + 1, t, Peak(S, val)))
    BY <1>2, <2>2 DEF NextLevel
  <2> QED BY <1>2, <2>3, SonsAreNodes
<1>3. 0 \in N
  BY <1>1, RootIsNode
<1>4. ASSUME NEW n \in Nat, n \in N PROVE n + 1 \in N
  <2>1. CASE n + 1 <= NThresh - 1
    <3>1. n <= NThresh - 1
      BY <1>0, <2>1
    <3>2. \A a \in tree[n] : Node(a, n, S, val, t)
      BY <1>4, <3>1
    <3>3. \A s \in tree[n + 1] : Node(s, n + 1, S, val, t)
      BY <1>2, <2>1, <3>2
    <3> QED BY <3>3
  <2> QED BY <2>1
<1> HIDE DEF N
<1>5. Nat \subseteq N
  BY <1>3, <1>4, NatSetInduction
<1>6. \A n \in 0..(NThresh - 1) : \A a \in tree[n] : Node(a, n, S, val, t)
  <2>1. \A n \in 0..(NThresh - 1) : n \in Nat /\ n <= NThresh - 1
    BY <1>0
  <2> QED BY <1>5, <2>1 DEF N
<1>7. CASE k = 0
  BY <1>6, <1>7
<1>8. CASE k # 0
  <2>1. PICK n \in Nat : n = k - 1 /\ k = n + 1 /\ n \in 0..(NThresh - 1) /\ n + 1 <= NThresh - 1
    <3>1. k - 1 \in Nat /\ k = (k - 1) + 1 /\ k - 1 \in 0..(NThresh - 1) /\ (k - 1) + 1 <= NThresh - 1
      BY <1>0, <1>8
    <3> QED BY <3>1
  <2>2. PICK a \in tree[n] : o.up = a.pix
    BY <1>2, <1>6, <2>1
  <2>3. Node(o, k, S, val, t)
    BY <1>6
  <2>4. o.pix \subseteq a.pix
    BY <1>8, <2>2, <2>3 DEF Node
  <2>5. o \in Sons(a, tree, n)
    BY <2>1, <2>2 DEF Sons
  <2> QED BY <2>1, <2>3, <2>4, <2>5
<1> QED BY <1>7, <1>8

(* Two members of one level share no pixel. *)
LEMMA LevelsAreApart ==
  ASSUME NEW S, NEW val, NEW t, Detection(S, val, t), NEW tree, tree = Tree(S, val, t),
         NEW k \in 0..(NThresh - 1), NEW a \in tree[k], NEW b \in tree[k], a.pix \intersect b.pix # {}
  PROVE  a = b
<1>0. NThresh - 1 \in Nat
  BY DeblendAssumption
<1>1. \A n \in 0..(NThresh - 1) : \A c, d \in tree[n] : c.pix \intersect d.pix # {} => c.pix = d.pix
  <2> SUFFICES ASSUME NEW n \in 0..(NThresh - 1), NEW c \in tree[n], NEW d \in tree[n], c.pix \intersect d.pix # {}
               PROVE  c.pix = d.pix
    OBVIOUS
  <2>1. CASE n = 0
    BY <2>1, TreeIs
  <2>2. CASE n # 0
    <3>1. Node(c, n, S, val, t) /\ Node(d, n, S, val, t)
      BY TreeNodes
    <3> QED BY <2>2, <3>1, NodeIsRegion, RegionsAreApart
  <2> QED BY <2>1, <2>2
<1>2. CASE k = 0
  BY <1>2, TreeIs
<1>3. CASE k # 0
  <2>1. /\ a = [pix |-> a.pix, up |-> a.up] /\ b = [pix |-> b.pix, up |-> b.up]
        /\ a.pix # {} /\ a.pix = b.pix
    BY <1>1, TreeNodes DEF Node
  <2>2. PICK c \in tree[k - 1] : a.up = c.pix /\ a.pix \subseteq c.pix
    BY <1>3, TreeNodes DEF Sons
  <2>3. PICK d \in tree[k - 1] : b.up = d.pix /\ b.pix \subseteq d.pix
    BY <1>3, TreeNodes DEF Sons
  <2>4. c.pix \intersect d.pix # {} /\ k - 1 \in 0..(NThresh - 1)
    BY <1>0, <1>3, <2>1, <2>2, <2>3
  <2>5. c.pix = d.pix
    BY <1>1, <2>4
  <2> QED BY <2>1, <2>2, <2>3, <2>5
<1> QED BY <1>2, <1>3

(* The sons of a region that stand out, and what is not cut at level k, from *)
(* what is not cut at the level above.                                       *)
Outstanding(o, k, S, val, t) ==
  {s \in Sons(o, Tree(S, val, t), k) : StandsOut(s, LevelAt(k + 1, t, Peak(S, val)), S, val)}

Kept(above, k, S, val, t) ==
  {o \in Tree(S, val, t)[k] : /\ Sons(o, Tree(S, val, t), k) \subseteq above
                              /\ Cardinality(Outstanding(o, k, S, val, t)) <= 1}

IsUncut(f, n, S, val, t) ==
  f = [k \in 0..n |-> IF k = n THEN Tree(S, val, t)[k] ELSE Kept(f[k + 1], k, S, val, t)]

UncutAt(f, k, n, S, val, t) ==
  f[k] = IF k = n THEN Tree(S, val, t)[k] ELSE Kept(f[k + 1], k, S, val, t)

LEMMA UncutExists ==
  ASSUME NEW S, NEW val, NEW t, NEW n \in Nat
  PROVE  \E f : IsUncut(f, n, S, val, t)
<1> DEFINE N == {d \in Nat : d <= n => \E g : \A k \in (n - d)..n : UncutAt(g, k, n, S, val, t)}
<1>1. 0 \in N
  <2> DEFINE g == [k \in 0..n |-> Tree(S, val, t)[k]]
  <2>1. \A k \in (n - 0)..n : k = n /\ k \in 0..n
    OBVIOUS
  <2>2. \A k \in (n - 0)..n : UncutAt(g, k, n, S, val, t)
    BY <2>1 DEF UncutAt
  <2> QED BY <2>2
<1>2. ASSUME NEW d \in Nat, d \in N PROVE d + 1 \in N
  <2> SUFFICES ASSUME d + 1 <= n PROVE \E g : \A k \in (n - (d + 1))..n : UncutAt(g, k, n, S, val, t)
    OBVIOUS
  <2>1. PICK g : \A k \in (n - d)..n : UncutAt(g, k, n, S, val, t)
    <3>1. d <= n
      OBVIOUS
    <3> QED BY <1>2, <3>1
  <2>2. PICK m \in Nat : m = n - (d + 1) /\ m + 1 = n - d /\ m < n
    OBVIOUS
  <2> DEFINE h == [k \in 0..n |-> IF k = m THEN Kept(g[m + 1], m, S, val, t) ELSE g[k]]
  <2>3. ASSUME NEW k \in m..n PROVE UncutAt(h, k, n, S, val, t)
    <3>1. CASE k = m
      <4>1. h[k] = Kept(g[m + 1], m, S, val, t) /\ h[m + 1] = g[m + 1] /\ k # n
        BY <2>2, <3>1
      <4> QED BY <3>1, <4>1 DEF UncutAt
    <3>2. CASE k # m
      <4>1. k \in (n - d)..n /\ h[k] = g[k] /\ (k # n => h[k + 1] = g[k + 1])
        BY <2>2, <3>2
      <4>2. UncutAt(g, k, n, S, val, t)
        BY <2>1, <4>1
      <4> QED BY <4>1, <4>2 DEF UncutAt
    <3> QED BY <3>1, <3>2
  <2> HIDE DEF h
  <2> QED BY <2>2, <2>3
<1> HIDE DEF N
<1>3. Nat \subseteq N
  BY <1>1, <1>2, NatSetInduction
<1>4. PICK g : \A k \in 0..n : UncutAt(g, k, n, S, val, t)
  <2>1. n <= n /\ n - n = 0
    OBVIOUS
  <2> QED BY <1>3, <2>1 DEF N
<1> DEFINE f == [k \in 0..n |-> g[k]]
<1>5. ASSUME NEW k \in 0..n
      PROVE  f[k] = IF k = n THEN Tree(S, val, t)[k] ELSE Kept(f[k + 1], k, S, val, t)
  <2>1. k # n => f[k + 1] = g[k + 1]
    OBVIOUS
  <2> QED BY <1>4, <2>1 DEF UncutAt
<1>6. IsUncut(f, n, S, val, t)
  BY <1>5, Zenon DEF IsUncut
<1> QED BY <1>6

(* What deblend() cuts out, with the sets it keeps on the way named. *)
LEMMA CutIs ==
  ASSUME NEW S, NEW val, NEW t
  PROVE  \E U : /\ \A k \in 0..(NThresh - 1) : UncutAt(U, k, NThresh - 1, S, val, t)
                /\ Cut(S, val, t).uncut = (Root(S) \in U[0])
                /\ Cut(S, val, t).parts =
                     UNION {UNION {Outstanding(o, k, S, val, t) \intersect U[k + 1] :
                              o \in {r \in Tree(S, val, t)[k] : Cardinality(Outstanding(r, k, S, val, t)) > 1}} :
                            k \in 0..(NThresh - 2)}
<1> DEFINE n == NThresh - 1
           U == CHOOSE f : IsUncut(f, n, S, val, t)
<1>1. n \in Nat
  BY DeblendAssumption
<1>2. IsUncut(U, n, S, val, t)
  BY <1>1, UncutExists
<1>3. \A k \in 0..n : UncutAt(U, k, n, S, val, t)
  BY <1>2 DEF IsUncut, UncutAt
<1>4. Cut(S, val, t) = [uncut |-> Root(S) \in U[0], parts |->
                     UNION {UNION {Outstanding(o, k, S, val, t) \intersect U[k + 1] :
                              o \in {r \in Tree(S, val, t)[k] : Cardinality(Outstanding(r, k, S, val, t)) > 1}} :
                            k \in 0..(NThresh - 2)}]
  BY DEF Cut, IsUncut, Kept, Outstanding
<1> HIDE DEF U
<1> QED BY <1>3, <1>4

(* A level has finitely many regions: each has a pixel of its own. *)
LEMMA LevelsAreFinite ==
  ASSUME NEW S, NEW val, NEW t, Detection(S, val, t), NEW k \in 0..(NThresh - 1)
  PROVE  IsFiniteSet(Tree(S, val, t)[k])
<1> DEFINE X == Tree(S, val, t)[k]
           f == [o \in X |-> CHOOSE p : p \in o.pix]
<1>1. ASSUME NEW o \in X PROVE f[o] \in o.pix /\ o.pix \subseteq S
  <2>1. Node(o, k, S, val, t)
    BY TreeNodes
  <2>2. k \in Nat
    OBVIOUS
  <2>3. AboveLevel(k, S, val, t) \subseteq S
    BY <2>2, LevelsShrink
  <2> QED BY <2>1, <2>3 DEF Node
<1>2. ASSUME NEW a \in X, NEW b \in X, f[a] = f[b] PROVE a = b
  <2>1. a.pix \intersect b.pix # {}
    BY <1>1, <1>2
  <2> QED BY <2>1, LevelsAreApart
<1>3. f \in Injection(X, S)
  <2>1. f \in [X -> S]
    BY <1>1
  <2> HIDE DEF f, X
  <2> QED BY <1>2, <2>1 DEF Injection, IsInjective
<1> HIDE DEF f, X
<1>4. IsFiniteSet(X)
  BY <1>3, FS_Injection DEF Detection
<1> QED BY <1>4 DEF X

(* A region cut out: its level, and the region below it that was cut. *)
Part(o, k, U, tree) ==
  /\ k \in 1..(NThresh - 1)
  /\ o \in tree[k] /\ o \in U[k]
  /\ \E a \in tree[k - 1] : o.pix \subseteq a.pix /\ a \notin U[k - 1]

LEMMA PartsAreNodes ==
  ASSUME NEW S, NEW val, NEW t, Detection(S, val, t)
  PROVE  \E U : /\ \A k \in 0..(NThresh - 1) : UncutAt(U, k, NThresh - 1, S, val, t)
                /\ \A o \in Cut(S, val, t).parts : \E k \in 1..(NThresh - 1) : Part(o, k, U, Tree(S, val, t))
<1>0. NThresh - 1 \in Nat /\ NThresh \in Nat \ {0}
  BY DeblendAssumption
<1>1. PICK U : /\ \A k \in 0..(NThresh - 1) : UncutAt(U, k, NThresh - 1, S, val, t)
               /\ Cut(S, val, t).parts =
                     UNION {UNION {Outstanding(o, k, S, val, t) \intersect U[k + 1] :
                              o \in {r \in Tree(S, val, t)[k] : Cardinality(Outstanding(r, k, S, val, t)) > 1}} :
                            k \in 0..(NThresh - 2)}
  BY CutIs
<1>2. PICK tree : tree = Tree(S, val, t)
  OBVIOUS
<1>3. ASSUME NEW o \in Cut(S, val, t).parts PROVE \E k \in 1..(NThresh - 1) : Part(o, k, U, tree)
  <2>1. PICK j \in 0..(NThresh - 2) : \E r \in tree[j] : /\ Cardinality(Outstanding(r, j, S, val, t)) > 1
                                                         /\ o \in Outstanding(r, j, S, val, t)
                                                         /\ o \in U[j + 1]
    BY <1>1, <1>2, <1>3
  <2>2. PICK r \in tree[j] : /\ Cardinality(Outstanding(r, j, S, val, t)) > 1
                             /\ o \in Outstanding(r, j, S, val, t)
                             /\ o \in U[j + 1]
    BY <2>1
  <2>3. PICK k \in 1..(NThresh - 1) : k = j + 1 /\ k - 1 = j /\ j \in 0..(NThresh - 1) /\ j # NThresh - 1 /\ k \in 0..(NThresh - 1) /\ k # 0
    <3>1. j + 1 \in 1..(NThresh - 1) /\ (j + 1) - 1 = j /\ j \in 0..(NThresh - 1) /\ j # NThresh - 1
          /\ j + 1 \in 0..(NThresh - 1) /\ j + 1 # 0
      BY <1>0
    <3> QED BY <3>1
  <2>4. o \in tree[k] /\ o.up = r.pix
    BY <1>2, <2>2, <2>3 DEF Outstanding, Sons
  <2>5. o.pix \subseteq r.pix
    <3>1. Node(o, k, S, val, t)
      BY <1>2, <2>3, <2>4, TreeNodes
    <3> QED BY <2>3, <2>4, <3>1 DEF Node
  <2>6. r \notin U[j]
    <3>1. UncutAt(U, j, NThresh - 1, S, val, t)
      BY <1>1, <2>3
    <3>2. U[j] = Kept(U[j + 1], j, S, val, t)
      BY <2>3, <3>1 DEF UncutAt
    <3>3. SUFFICES ASSUME r \in U[j] PROVE FALSE
      OBVIOUS
    <3>4. Cardinality(Outstanding(r, j, S, val, t)) <= 1
      BY <3>2, <3>3 DEF Kept
    <3>5. Outstanding(r, j, S, val, t) \in SUBSET tree[k]
      BY <1>2, <2>3 DEF Outstanding, Sons
    <3>6. Cardinality(Outstanding(r, j, S, val, t)) \in Nat
      BY <1>2, <2>3, <3>5, LevelsAreFinite, FS_Subset, FS_CardinalityType
    <3> QED BY <2>2, <3>4, <3>6
  <2> QED BY <2>2, <2>3, <2>4, <2>5, <2>6 DEF Part
<1> QED BY <1>1, <1>2, <1>3

(* Above a region that is not cut nothing inside it is cut. *)
LEMMA UncutInside ==
  ASSUME NEW S, NEW val, NEW t, Detection(S, val, t), NEW U,
         \A k \in 0..(NThresh - 1) : UncutAt(U, k, NThresh - 1, S, val, t),
         NEW i \in 0..(NThresh - 1), NEW j \in 0..(NThresh - 1), j <= i,
         NEW a \in Tree(S, val, t)[i], NEW b \in U[j], a.pix \intersect b.pix # {}
  PROVE  a \in U[i]
<1> DEFINE n == NThresh - 1
           N == {d \in Nat : j + d <= n => \A c \in Tree(S, val, t)[j + d] :
                                            c.pix \intersect b.pix # {} => c \in U[j + d]}
<1>0. n \in Nat /\ j \in 0..n /\ i \in 0..n
  BY DeblendAssumption
<1>1. PICK tree : tree = Tree(S, val, t)
  OBVIOUS
<1>2. \A k \in 0..n : U[k] = IF k = n THEN tree[k] ELSE Kept(U[k + 1], k, S, val, t)
  BY <1>1 DEF UncutAt
<1>3. b \in tree[j]
  BY <1>0, <1>1, <1>2 DEF Kept
<1> HIDE DEF n
<1>4. 0 \in N
  <2>1. ASSUME NEW c \in tree[j], c.pix \intersect b.pix # {} PROVE c \in U[j]
    <3>1. c = b
      BY <1>1, <1>3, <2>1, LevelsAreApart
    <3> QED BY <3>1
  <2>2. j + 0 = j
    BY <1>0
  <2> QED BY <1>1, <2>1, <2>2
<1>5. ASSUME NEW d \in Nat, d \in N PROVE d + 1 \in N
  <2> SUFFICES ASSUME j + (d + 1) <= n, NEW c \in tree[j + (d + 1)], c.pix \intersect b.pix # {}
               PROVE  c \in U[j + (d + 1)]
    BY <1>1
  <2>1. PICK m \in Nat : m = j + d /\ m \in 0..n /\ m # n /\ m <= n
    <3>1. j + d \in Nat /\ j + d \in 0..n /\ j + d # n /\ j + d <= n
      BY <1>0
    <3> QED BY <3>1
  <2>2. j + (d + 1) = m + 1 /\ m + 1 \in 0..n /\ m + 1 # 0 /\ (m + 1) - 1 = m
    BY <1>0, <2>1
  <2>3. PICK a1 \in tree[m] : c \in Sons(a1, tree, m) /\ c.pix \subseteq a1.pix
    <3>1. m + 1 \in 0..(NThresh - 1)
      BY <2>2 DEF n
    <3>2. c \in tree[m + 1]
      BY <2>2
    <3>3. \E a1 \in tree[(m + 1) - 1] : c \in Sons(a1, tree, (m + 1) - 1) /\ c.pix \subseteq a1.pix
      BY <1>1, <2>2, <3>1, <3>2, TreeNodes
    <3> QED BY <2>2, <3>3
  <2>4. a1 \in U[m]
    <3>1. \A e \in tree[m] : e.pix \intersect b.pix # {} => e \in U[m]
      BY <1>1, <1>5, <2>1
    <3> QED BY <2>3, <3>1
  <2>5. U[m] = Kept(U[m + 1], m, S, val, t)
    BY <1>2, <2>1
  <2>6. c \in U[m + 1]
    BY <1>1, <2>3, <2>4, <2>5 DEF Kept
  <2> QED BY <2>2, <2>6
<1> HIDE DEF N
<1>6. Nat \subseteq N
  BY <1>4, <1>5, NatSetInduction
<1>7. PICK d \in Nat : j + d = i /\ j + d <= n
  <2>1. i - j \in Nat /\ j + (i - j) = i /\ i <= n
    BY <1>0
  <2> QED BY <2>1
<1> QED BY <1>6, <1>7 DEF N

(* Two regions cut out share no pixel. *)
LEMMA PartsApart ==
  ASSUME NEW S, NEW val, NEW t, Detection(S, val, t), NEW U,
         \A k \in 0..(NThresh - 1) : UncutAt(U, k, NThresh - 1, S, val, t),
         NEW i, NEW j, NEW a, NEW b, Part(a, i, U, Tree(S, val, t)), Part(b, j, U, Tree(S, val, t)),
         a.pix \intersect b.pix # {}
  PROVE  a = b
<1>0. NThresh - 1 \in Nat
  BY DeblendAssumption
<1>1. ASSUME NEW k, NEW l, NEW c, NEW d, Part(c, k, U, Tree(S, val, t)), Part(d, l, U, Tree(S, val, t)),
             c.pix \intersect d.pix # {}
      PROVE  ~(l < k)
  <2> SUFFICES ASSUME l < k PROVE FALSE
    OBVIOUS
  <2>1. PICK p \in Tree(S, val, t)[k - 1] : c.pix \subseteq p.pix /\ p \notin U[k - 1]
    BY <1>1 DEF Part
  <2>2. k - 1 \in 0..(NThresh - 1) /\ l \in 0..(NThresh - 1) /\ l <= k - 1
    BY <1>0, <1>1 DEF Part
  <2>3. p.pix \intersect d.pix # {} /\ d \in U[l]
    BY <1>1, <2>1 DEF Part
  <2> QED BY <2>1, <2>2, <2>3, UncutInside
<1>2. i = j
  <2>1. ~(i < j) /\ ~(j < i)
    BY <1>1
  <2>2. i \in Int /\ j \in Int
    BY <1>0 DEF Part
  <2> QED BY <2>1, <2>2
<1>3. i \in 0..(NThresh - 1) /\ a \in Tree(S, val, t)[i] /\ b \in Tree(S, val, t)[i]
  BY <1>0, <1>2 DEF Part
<1> QED BY <1>3, LevelsAreApart

(* Some level separates two cores of a region. *)
Apart(C, D, S, val, t) ==
  \E k \in 1..(NThresh - 1) :
    \E A \in Components({p \in S : Intensity(val[p]) > LevelAt(k, t, Peak(S, val))}) :
      C \subseteq A /\ D \intersect A = {}

(* The objects of a region share it out. *)
SharedOut(objects, S, val, t) ==
  /\ UNION {o.pix : o \in objects} = S
  /\ \A a, b \in objects : a # b => /\ a.pix \intersect b.pix = {}
                                    /\ Apart(a.core, b.core, S, val, t)
  /\ \A o \in objects : /\ o.core \subseteq o.pix
                        /\ Connected(o.core)
                        /\ Cardinality(o.core) >= SonArea

LEMMA PartsFacts ==
  ASSUME NEW S, NEW val, NEW t, Detection(S, val, t), NEW parts, parts = Cut(S, val, t).parts
  PROVE  /\ \A a \in parts : /\ a.pix \subseteq S /\ a.pix # {}
                             /\ Connected(a.pix) /\ Cardinality(a.pix) >= SonArea
         /\ \A a, b \in parts : a # b => /\ a.pix \intersect b.pix = {}
                                         /\ Apart(a.pix, b.pix, S, val, t)
<1>0. NThresh - 1 \in Nat
  BY DeblendAssumption
<1>1. PICK U : /\ \A k \in 0..(NThresh - 1) : UncutAt(U, k, NThresh - 1, S, val, t)
               /\ \A o \in parts : \E k \in 1..(NThresh - 1) : Part(o, k, U, Tree(S, val, t))
  BY PartsAreNodes
<1>2. ASSUME NEW a \in parts
      PROVE  \E k \in 1..(NThresh - 1) : /\ k \in Nat /\ k # 0 /\ Part(a, k, U, Tree(S, val, t))
                                         /\ Node(a, k, S, val, t)
  <2>1. PICK k \in 1..(NThresh - 1) : Part(a, k, U, Tree(S, val, t))
    BY <1>1
  <2>2. k \in 0..(NThresh - 1) /\ k \in Nat /\ k # 0
    BY <1>0
  <2> QED BY <2>1, <2>2, TreeNodes DEF Part
<1>3. ASSUME NEW a \in parts
      PROVE  a.pix \subseteq S /\ a.pix # {} /\ Connected(a.pix) /\ Cardinality(a.pix) >= SonArea
  <2>1. PICK k \in 1..(NThresh - 1) : k \in Nat /\ k # 0 /\ Node(a, k, S, val, t)
    BY <1>2
  <2>2. AboveLevel(k, S, val, t) \in SUBSET S
    BY <2>1, LevelsShrink
  <2>3. a.pix \in SUBSET S /\ a.pix # {} /\ Whole(a.pix) /\ Cardinality(a.pix) >= SonArea
    BY <2>1, <2>2 DEF Node
  <2>4. a.pix \in SUBSET Cells /\ IsFiniteSet(a.pix)
    BY <2>3, FS_Subset DEF Detection
  <2> QED BY <2>3, <2>4, WholeIsConnected
<1>4. ASSUME NEW a \in parts, NEW b \in parts, a # b PROVE a.pix \intersect b.pix = {}
  <2>1. PICK i \in 1..(NThresh - 1) : Part(a, i, U, Tree(S, val, t))
    BY <1>1
  <2>2. PICK j \in 1..(NThresh - 1) : Part(b, j, U, Tree(S, val, t))
    BY <1>1
  <2> QED BY <1>1, <1>4, <2>1, <2>2, PartsApart
<1>5. ASSUME NEW a \in parts, NEW b \in parts, a # b PROVE Apart(a.pix, b.pix, S, val, t)
  <2>1. PICK k \in 1..(NThresh - 1) : k \in Nat /\ k # 0 /\ Node(a, k, S, val, t)
    BY <1>2
  <2>2. IsRegion(a.pix, AboveLevel(k, S, val, t))
    BY <2>1, NodeIsRegion
  <2>3. AboveLevel(k, S, val, t) \in SUBSET Cells /\ IsFiniteSet(AboveLevel(k, S, val, t))
    BY <2>1, LevelsShrink
  <2>4. a.pix \in Components(AboveLevel(k, S, val, t))
    BY <2>2, <2>3, ComponentsAreRegions
  <2>5. AboveLevel(k, S, val, t) = {p \in S : Intensity(val[p]) > LevelAt(k, t, Peak(S, val))}
    BY <2>1 DEF AboveLevel
  <2>6. b.pix \intersect a.pix = {}
    BY <1>4, <1>5
  <2> QED BY <2>4, <2>5, <2>6 DEF Apart
<1> QED BY <1>3, <1>4, <1>5

(* The pixels left over, those one object is given, and the object it makes. *)
Left(S, parts) == S \ UNION {o.pix : o \in parts}
More(o, f, S, parts) == {p \in Left(S, parts) : f[p] = o}
Made(o, f, S, parts) == Object(o, o.pix \union More(o, f, S, parts))

LEMMA GatheredIs ==
  ASSUME NEW S, NEW parts
  PROVE  Gathered(S, parts) =
           {{Made(o, f, S, parts) : o \in parts} : f \in [Left(S, parts) -> parts]}
BY Zenon DEF Gathered, Made, More, Left

(* gatherup() *)
LEMMA GatheredShares ==
  ASSUME NEW S, NEW val, NEW t, Detection(S, val, t),
         NEW objects \in Gathered(S, Cut(S, val, t).parts)
  PROVE  SharedOut(objects, S, val, t)
<1>1. PICK parts : parts = Cut(S, val, t).parts
  OBVIOUS
<1>2. /\ \A a \in parts : /\ a.pix \subseteq S /\ a.pix # {}
                          /\ Connected(a.pix) /\ Cardinality(a.pix) >= SonArea
      /\ \A a, b \in parts : a # b => /\ a.pix \intersect b.pix = {}
                                      /\ Apart(a.pix, b.pix, S, val, t)
  BY <1>1, PartsFacts
<1>3. PICK f \in [Left(S, parts) -> parts] : objects = {Made(o, f, S, parts) : o \in parts}
  BY <1>1, GatheredIs
<1> DEFINE more(o) == More(o, f, S, parts)
<1>4. /\ \A x \in objects : \E o \in parts : /\ x = Made(o, f, S, parts)
                                            /\ x.pix = o.pix \union more(o) /\ x.core = o.pix
      /\ \A o \in parts : \E x \in objects : x.pix = o.pix \union more(o)
  <2>1. ASSUME NEW o \in parts
        PROVE  Made(o, f, S, parts).pix = o.pix \union more(o) /\ Made(o, f, S, parts).core = o.pix
    BY DEF Made, Object
  <2> HIDE DEF more
  <2> QED BY <1>3, <2>1
<1>5. \A p \in Left(S, parts) : f[p] \in parts /\ p \in more(f[p])
  BY <1>3 DEF More
<1>6. \A p \in S : p \in Left(S, parts) \/ \E o \in parts : p \in o.pix
  BY DEF Left
<1>7. \A o \in parts : more(o) \subseteq S /\ \A q \in parts : more(o) \intersect q.pix = {}
  BY DEF More, Left
<1>8. \A o, q \in parts : o # q => more(o) \intersect more(q) = {}
  BY DEF More
<1> HIDE DEF more
<1>9. UNION {x.pix : x \in objects} = S
  <2>1. ASSUME NEW p \in S PROVE \E x \in objects : p \in x.pix
    BY <1>4, <1>5, <1>6
  <2>2. ASSUME NEW x \in objects PROVE x.pix \subseteq S
    <3>1. PICK o \in parts : x.pix = o.pix \union more(o)
      BY <1>4
    <3>2. o.pix \subseteq S /\ more(o) \subseteq S
      BY <1>2, <1>7
    <3> QED BY <3>1, <3>2
  <2> QED BY <2>1, <2>2
<1>10. ASSUME NEW x \in objects, NEW y \in objects, x # y
       PROVE  x.pix \intersect y.pix = {} /\ Apart(x.core, y.core, S, val, t)
  <2>1. PICK o \in parts : x.pix = o.pix \union more(o) /\ x.core = o.pix /\ x = Made(o, f, S, parts)
    BY <1>4
  <2>2. PICK q \in parts : y.pix = q.pix \union more(q) /\ y.core = q.pix /\ y = Made(q, f, S, parts)
    BY <1>4
  <2>3. o # q
    BY <1>10, <2>1, <2>2
  <2>4. o.pix \intersect q.pix = {} /\ Apart(o.pix, q.pix, S, val, t)
    BY <1>2, <2>3
  <2>5. x.pix \intersect y.pix = {}
    BY <1>7, <1>8, <2>1, <2>2, <2>3, <2>4
  <2> QED BY <2>1, <2>2, <2>4, <2>5
<1>11. ASSUME NEW x \in objects
       PROVE  x.core \subseteq x.pix /\ Connected(x.core) /\ Cardinality(x.core) >= SonArea
  <2>1. PICK o \in parts : x.pix = o.pix \union more(o) /\ x.core = o.pix
    BY <1>4
  <2>2. Connected(o.pix) /\ Cardinality(o.pix) >= SonArea
    BY <1>2
  <2> QED BY <2>1, <2>2
<1> QED BY <1>9, <1>10, <1>11 DEF SharedOut

(* What deblend() returns for a region shares it out: no pixel is in two     *)
(* objects or in none, every core is connected and of the least area, and    *)
(* some level separates any two, whatever the levels cut and whoever         *)
(* gatherup() gives the pixels that are left over.                           *)
THEOREM DeblendedShares ==
  ASSUME NEW S, NEW val, NEW t, Detection(S, val, t), Connected(S), Cardinality(S) >= MinArea,
         NEW objects \in Deblended(S, val, t)
  PROVE  SharedOut(objects, S, val, t)
<1>1. CASE Cut(S, val, t).uncut
  <2>1. objects = {Object(Root(S), S)}
    BY <1>1 DEF Deblended
  <2>2. Cardinality(S) >= SonArea
    <3>1. Cardinality(S) \in Nat /\ MinArea \in Nat
      BY FS_CardinalityType, DeblendAssumption DEF Detection
    <3> QED BY <3>1 DEF SonArea, MAXDEBAREA
  <2>3. Object(Root(S), S).pix = S /\ Object(Root(S), S).core = S
    BY DEF Object, Root
  <2> QED BY <2>1, <2>2, <2>3 DEF SharedOut
<1>2. CASE ~Cut(S, val, t).uncut
  BY <1>2, GatheredShares DEF Deblended
<1> QED BY <1>1, <1>2

(* When nothing is cut out, everything is uncut. *)
LEMMA NothingCut ==
  ASSUME NEW S, NEW val, NEW t, Detection(S, val, t), Cut(S, val, t).parts = {}
  PROVE  Cut(S, val, t).uncut
<1> DEFINE n == NThresh - 1
<1>0. n \in Nat /\ NThresh - 2 = n - 1
  BY DeblendAssumption
<1>1. PICK tree : tree = Tree(S, val, t)
  OBVIOUS
<1>2. PICK U : /\ \A k \in 0..n : UncutAt(U, k, n, S, val, t)
               /\ Cut(S, val, t).uncut = (Root(S) \in U[0])
               /\ Cut(S, val, t).parts =
                     UNION {UNION {Outstanding(o, k, S, val, t) \intersect U[k + 1] :
                              o \in {r \in Tree(S, val, t)[k] : Cardinality(Outstanding(r, k, S, val, t)) > 1}} :
                            k \in 0..(NThresh - 2)}
  BY CutIs
<1> DEFINE N == {d \in Nat : d <= n => tree[n - d] \subseteq U[n - d]}
<1>3. 0 \in N
  <2>1. U[n] = tree[n] /\ n - 0 = n
    BY <1>0, <1>1, <1>2 DEF UncutAt
  <2> QED BY <2>1
<1>4. ASSUME NEW d \in Nat, d \in N PROVE d + 1 \in N
  <2> SUFFICES ASSUME d + 1 <= n PROVE tree[n - (d + 1)] \subseteq U[n - (d + 1)]
    OBVIOUS
  <2>1. PICK k \in Nat : k = n - (d + 1) /\ k + 1 = n - d /\ k \in 0..n /\ k # n /\ k \in 0..(NThresh - 2) /\ k + 1 \in 0..(NThresh - 1)
    <3>1. n - (d + 1) \in Nat /\ (n - (d + 1)) + 1 = n - d /\ n - (d + 1) \in 0..n /\ n - (d + 1) # n
          /\ n - (d + 1) \in 0..(NThresh - 2) /\ (n - (d + 1)) + 1 \in 0..(NThresh - 1)
      BY <1>0
    <3> QED BY <3>1
  <2>2. tree[k + 1] \subseteq U[k + 1]
    <3>1. d <= n
      BY <1>0
    <3> QED BY <1>4, <2>1, <3>1
  <2>3. U[k] = Kept(U[k + 1], k, S, val, t)
    BY <1>2, <2>1 DEF UncutAt
  <2>4. ASSUME NEW o \in tree[k] PROVE o \in U[k]
    <3>1. Outstanding(o, k, S, val, t) \in SUBSET tree[k + 1] /\ Sons(o, tree, k) \subseteq tree[k + 1]
      BY <1>1 DEF Outstanding, Sons
    <3>2. IsFiniteSet(tree[k + 1])
      BY <1>1, <2>1, LevelsAreFinite
    <3>3. IsFiniteSet(Outstanding(o, k, S, val, t)) /\ Cardinality(Outstanding(o, k, S, val, t)) \in Nat
      BY <3>1, <3>2, FS_Subset, FS_CardinalityType
    <3>4. Cardinality(Outstanding(o, k, S, val, t)) <= 1
      <4> SUFFICES ASSUME ~(Cardinality(Outstanding(o, k, S, val, t)) <= 1) PROVE FALSE
        OBVIOUS
      <4>1. Cardinality(Outstanding(o, k, S, val, t)) > 1 /\ Cardinality(Outstanding(o, k, S, val, t)) # 0
        BY <3>3
      <4>2. PICK s : s \in Outstanding(o, k, S, val, t)
        BY <4>1, FS_EmptySet
      <4>3. s \in Outstanding(o, k, S, val, t) \intersect U[k + 1]
        BY <2>2, <3>1, <4>2
      <4>4. s \in Cut(S, val, t).parts
        BY <1>1, <1>2, <2>1, <4>1, <4>3
      <4> QED BY <4>4
    <3> QED BY <1>1, <2>2, <2>3, <3>1, <3>4 DEF Kept
  <2> QED BY <2>1, <2>4
<1> HIDE DEF N
<1>5. Nat \subseteq N
  BY <1>3, <1>4, NatSetInduction
<1>6. tree[0] \subseteq U[0]
  <2>1. n - n = 0 /\ n <= n
    BY <1>0
  <2> QED BY <1>0, <1>5, <2>1 DEF N
<1>7. Root(S) \in tree[0]
  BY <1>1, TreeIs
<1> QED BY <1>2, <1>6, <1>7

(* deblend() fails only when a level has more sub-objects than there is room *)
(* for: whenever the detection itself is cut, something is cut out of it, so *)
(* gatherup() always has an object to give the other pixels to.              *)
THEOREM OnlyFullFails ==
  ASSUME NEW S, NEW val, NEW t, Detection(S, val, t)
  PROVE  Deblended(S, val, t) = {} <=> Overflows(Tree(S, val, t))
<1> SUFFICES ASSUME ~Overflows(Tree(S, val, t)) PROVE Deblended(S, val, t) # {}
  BY DEF Deblended
<1>1. CASE Cut(S, val, t).uncut
  BY <1>1 DEF Deblended
<1>2. CASE ~Cut(S, val, t).uncut
  <2>1. PICK parts : parts = Cut(S, val, t).parts /\ parts # {}
    BY <1>2, NothingCut
  <2>2. PICK o \in parts : TRUE
    BY <2>1
  <2>3. [p \in Left(S, parts) |-> o] \in [Left(S, parts) -> parts]
    OBVIOUS
  <2>4. PICK g : g \in [Left(S, parts) -> parts]
    BY <2>3
  <2>5. {Made(a, g, S, parts) : a \in parts} \in Gathered(S, parts)
    BY <2>4, GatheredIs
  <2> QED BY <1>2, <2>1, <2>5 DEF Deblended
<1> QED BY <1>1, <1>2

-----------------------------------------------------------------------------
(* Deblending in the extraction *)

(* What the scan should hand over. *)
Worth(C) == C \in Components(Bright) /\ Cardinality(C) >= MinArea

(* The regions that should have been handed over are shared out. *)
ShareInv ==
  /\ img \in Images /\ retry \in Nat
  /\ \E F : found \in Seq(F)
  /\ \A j \in DOMAIN found :
       Worth(RootOf(found[j])) => SharedOut(found[j].parts, RootOf(found[j]), img.val, Threshold)

LEMMA ComponentFacts ==
  ASSUME NEW w \in Nat, NEW h \in Nat, NEW B \in SUBSET Pixels(w, h), NEW C \in Components(B)
  PROVE  C \in SUBSET B /\ C # {} /\ C \in SUBSET Cells /\ IsFiniteSet(C) /\ Connected(C)
<1>1. IsFiniteSet(Pixels(w, h))
  <2>1. IsFiniteSet(0..(w - 1)) /\ IsFiniteSet(0..(h - 1))
    BY FS_Interval
  <2> QED BY <2>1, FS_Product DEF Pixels
<1>2. Pixels(w, h) \in SUBSET Cells
  BY DEF Pixels, Cells
<1>3. B \in SUBSET Cells /\ IsFiniteSet(B)
  BY <1>1, <1>2, FS_Subset
<1>4. IsRegion(C, B)
  BY <1>3, ComponentsAreRegions
<1>5. C \in SUBSET B /\ C # {} /\ Whole(C)
  BY <1>4 DEF IsRegion
<1>6. C \in SUBSET Cells /\ IsFiniteSet(C)
  BY <1>3, <1>5, FS_Subset
<1> QED BY <1>5, <1>6, WholeIsConnected

LEMMA WorthIsDetection ==
  ASSUME img \in Images, retry \in Nat, NEW C, Worth(C)
  PROVE  Detection(C, img.val, Threshold) /\ Connected(C) /\ Cardinality(C) >= MinArea
<1>1. /\ img.w \in Nat /\ img.h \in Nat /\ img.val \in [Grid -> Nat]
      /\ Bright \in SUBSET Pixels(img.w, img.h) /\ Grid = Pixels(img.w, img.h)
  BY ExtractionAssumption DEF Grid, Bright
<1>2. C \in SUBSET Bright /\ C # {} /\ C \in SUBSET Cells /\ IsFiniteSet(C) /\ Connected(C)
  BY <1>1, ComponentFacts DEF Worth
<1>3. \A p \in C : img.val[p] \in Nat /\ img.val[p] > Threshold
  BY <1>1, <1>2 DEF Bright
<1> QED BY <1>2, <1>3 DEF Detection, Worth, Threshold

LEMMA ShareInit == Init => ShareInv
<1> SUFFICES ASSUME Init PROVE ShareInv
  OBVIOUS
<1>1. found \in Seq({}) /\ DOMAIN found = {}
  BY DEF Init
<1> QED BY <1>1 DEF Init, ShareInv

LEMMA ShareNext == ShareInv /\ [Next]_vars => ShareInv'
<1> SUFFICES ASSUME ShareInv, [Next]_vars PROVE ShareInv'
  OBVIOUS
<1>1. ASSUME UNCHANGED <<img, retry, found>> PROVE ShareInv'
  BY <1>1 DEF ShareInv, Worth, Threshold, Bright, Grid
<1>2. ASSUME Retry PROVE ShareInv'
  <2>1. found' \in Seq({}) /\ DOMAIN found' = {} /\ img' = img /\ retry' \in Nat
    BY <1>2 DEF Retry, ShareInv
  <2> QED BY <2>1 DEF ShareInv
<1>3. ASSUME Sortit PROVE ShareInv'
  <2>1. PICK parts \in Deblended(Handed(NextScan), img.val, Threshold) :
          found' = Append(found, [root |-> NextScan.object, flag |-> NextScan.ready.flag, parts |-> parts])
    BY <1>3 DEF Sortit
  <2> DEFINE e == [root |-> NextScan.object, flag |-> NextScan.ready.flag, parts |-> parts]
  <2>2. img' = img /\ retry' = retry /\ img \in Images /\ retry \in Nat
    BY <1>3 DEF Sortit, ShareInv
  <2>3. e.parts = parts /\ RootOf(e) = Handed(NextScan)
    BY DEF RootOf, Handed
  <2> HIDE DEF e
  <2>4. PICK F : found \in Seq(F)
    BY DEF ShareInv
  <2>5. found \in Seq(F \union {e})
    BY <2>4
  <2>6. /\ found' \in Seq(F \union {e})
        /\ \A j \in DOMAIN found' : \/ j \in DOMAIN found /\ found'[j] = found[j]
                                    \/ found'[j] = e
    BY <2>1, <2>5 DEF e
  <2>7. ASSUME NEW j \in DOMAIN found', Worth(RootOf(found'[j]))
        PROVE  SharedOut(found'[j].parts, RootOf(found'[j]), img.val, Threshold)
    <3>1. CASE j \in DOMAIN found /\ found'[j] = found[j]
      BY <2>7, <3>1 DEF ShareInv
    <3>2. CASE found'[j] = e
      BY <2>1, <2>2, <2>3, <2>7, <3>2, WorthIsDetection, DeblendedShares
    <3> QED BY <2>6, <3>1, <3>2
  <2>8. Threshold' = Threshold /\ Bright' = Bright
    BY <2>2 DEF Threshold, Bright, Grid
  <2> QED BY <2>2, <2>6, <2>7, <2>8 DEF ShareInv, Worth
<1> QED BY <1>1, <1>2, <1>3 DEF Next, vars, StackFull, Visit, DeblendOverflow, Finish, GiveUp, Stopped

LEMMA ShareGives == ShareInv => (CatalogIsComponents => DeblendPartitions)
<1> SUFFICES ASSUME ShareInv, CatalogIsComponents PROVE DeblendPartitions
  OBVIOUS
<1>1. ASSUME NEW j \in DOMAIN found
      PROVE  SharedOut(found[j].parts, RootOf(found[j]), img.val, Threshold)
  BY DEF ShareInv, CatalogIsComponents, Roots, Worth
<1>2. ASSUME NEW C, NEW D, NEW root, Apart(C, D, root, img.val, Threshold)
      PROVE  Separate(C, D, root)
  BY <1>2, Zenon DEF Apart, Separate
<1> QED BY <1>1, <1>2 DEF SharedOut, DeblendPartitions

(* As long as the scan hands over what it should, regions of at least        *)
(* minarea pixels, the objects of the catalog share out the regions they     *)
(* come from, for every image, number of levels, contrast and room for       *)
(* sub-objects (deblend(), belong() and gatherup() as sortit() calls them).  *)
THEOREM DeblendingShares == Spec => [](CatalogIsComponents => DeblendPartitions)
BY ShareInit, ShareNext, ShareGives, PTL DEF Spec

-----------------------------------------------------------------------------
(* The end of the extraction *)

(* A scan is somewhere, and a part of the loop body does not move it. *)
HasPlace(s)   == "x" \in DOMAIN s /\ "y" \in DOMAIN s
Stays(s, t)   == DOMAIN t = DOMAIN s /\ t.x = s.x /\ t.y = s.y

-----------------------------------------------------------------------------
(* The parts of the loop body *)

LEMMA CheckedStays ==
  ASSUME NEW s, HasPlace(s), NEW i
  PROVE  Stays(s, Checked(s, i))
BY DEF Checked, HasPlace, Stays

LEMMA PoppedStays ==
  ASSUME NEW s, HasPlace(s)
  PROVE  Stays(s, Popped(s)) /\ Stays(s, Pop(s))
<1>1. Stays(s, Popped(s))
  BY DEF Popped, HasPlace, Stays
<1> DEFINE p == Popped(s)
           top == s.psstack[Len(s.psstack)]
<1>2. HasPlace(p)
  BY <1>1 DEF HasPlace, Stays
<1>3. Pop(s) = [p EXCEPT !.ps = top]
  BY DEF Pop
<1> HIDE DEF p, top
<1>4. Stays(p, Pop(s))
  BY <1>2, <1>3 DEF HasPlace, Stays
<1> QED BY <1>1, <1>4 DEF Stays, p

LEMMA PushStays ==
  ASSUME NEW s, HasPlace(s), NEW status0
  PROVE  Stays(s, Push(s, status0))
BY DEF Push, HasPlace, Stays

LEMMA UpdateStays ==
  ASSUME NEW s, HasPlace(s), NEW i, NEW b
  PROVE  Stays(s, Update(s, i, b))
BY DEF Update, HasPlace, Stays

LEMMA TakeCellStays ==
  ASSUME NEW s, HasPlace(s), NEW truncated
  PROVE  Stays(s, TakeCell(s, truncated))
BY DEF TakeCell, HasPlace, Stays

LEMMA StartSegmentStays ==
  ASSUME NEW s, HasPlace(s)
  PROVE  Stays(s, StartSegment(s))
<1> DEFINE t == [s EXCEPT !.cs = "OBJECT"]
           p == Push(t, s.ps)
<1>1. HasPlace(t) /\ Stays(s, t)
  BY DEF HasPlace, Stays
<1>2. HasPlace(p) /\ Stays(s, p)
  BY <1>1, PushStays DEF HasPlace, Stays
<1>3. StartSegment(s) =
        IF s.cs = "OBJECT" THEN s
        ELSE IF s.ps # "OBJECT"
        THEN [p EXCEPT !.marker[s.x] = "S", !.co = s.co + 1, !.start[s.co + 1] = s.x,
                       !.ps = "COMPLETE", !.info[s.co + 1] = Blank]
        ELSE IF s.start[s.co] = UNKNOWN
        THEN [t EXCEPT !.marker[s.x] = "S", !.start[s.co] = s.x]
        ELSE [t EXCEPT !.marker[s.x] = "s"]
  BY DEF StartSegment
<1> HIDE DEF t, p
<1> QED BY <1>1, <1>2, <1>3 DEF HasPlace, Stays

LEMMA MarkerSStays ==
  ASSUME NEW s, HasPlace(s)
  PROVE  Stays(s, MarkerS(s))
<1> DEFINE p == Push(s, s.ps)
           q == Push(p, "COMPLETE")
           u == Update(p, s.co, s.store[s.x])
<1>1. HasPlace(p) /\ Stays(s, p)
  BY PushStays DEF HasPlace, Stays
<1>2. HasPlace(q) /\ Stays(s, q)
  <2> HIDE DEF p
  <2> QED BY <1>1, PushStays DEF HasPlace, Stays
<1>3. HasPlace(u) /\ Stays(s, u)
  <2> HIDE DEF p
  <2> QED BY <1>1, UpdateStays DEF HasPlace, Stays
<1>4. MarkerS(s) =
        IF s.cs = "NONOBJECT"
        THEN [q EXCEPT !.co = s.co + 1, !.info[s.co + 1] = s.store[s.x],
                       !.start[s.co + 1] = UNKNOWN, !.ps = "OBJECT"]
        ELSE [u EXCEPT !.ps = "OBJECT"]
  BY DEF MarkerS
<1> HIDE DEF p, q, u
<1> QED BY <1>2, <1>3, <1>4 DEF HasPlace, Stays

LEMMA MarkerInnerStays ==
  ASSUME NEW s, HasPlace(s)
  PROVE  Stays(s, MarkerInner(s))
<1> DEFINE p == Popped(s)
           q == Update(p, s.co - 1, s.info[s.co])
           u == Checked(q, s.start[s.co])
           outer == s.start[s.co - 1]
<1>1. HasPlace(p) /\ Stays(s, p)
  BY PoppedStays DEF HasPlace, Stays
<1>2. HasPlace(q) /\ Stays(s, q)
  <2> HIDE DEF p
  <2> QED BY <1>1, UpdateStays DEF HasPlace, Stays
<1>3. HasPlace(u) /\ Stays(s, u)
  <2> HIDE DEF q
  <2> QED BY <1>2, CheckedStays DEF HasPlace, Stays
<1>4. MarkerInner(s) =
        IF s.cs = "OBJECT" /\ s.ps = "COMPLETE"
        THEN [u EXCEPT !.co = s.co - 1, !.ps = "OBJECT",
                !.start[s.co - 1] = IF outer = UNKNOWN THEN s.start[s.co] ELSE @,
                !.marker = IF outer = UNKNOWN THEN @ ELSE [@ EXCEPT ![s.start[s.co]] = "s"]]
        ELSE [s EXCEPT !.ps = "OBJECT"]
  BY DEF MarkerInner
<1> HIDE DEF p, q, u, outer
<1> QED BY <1>3, <1>4 DEF HasPlace, Stays

LEMMA CompleteStays ==
  ASSUME NEW s, HasPlace(s), NEW minarea
  PROVE  Stays(s, Complete(s, minarea))
BY DEF Complete, HasPlace, Stays

LEMMA SuspendStays ==
  ASSUME NEW s, HasPlace(s)
  PROVE  Stays(s, Suspend(s))
<1> DEFINE p == Checked(s, s.end[s.co])
           q == Checked(p, s.start[s.co])
<1>1. HasPlace(p) /\ Stays(s, p)
  BY CheckedStays DEF HasPlace, Stays
<1>2. HasPlace(q) /\ Stays(s, q)
  <2> HIDE DEF p
  <2> QED BY <1>1, CheckedStays DEF HasPlace, Stays
<1>3. Suspend(s) = [q EXCEPT !.marker[s.end[s.co]] = "F", !.store[s.start[s.co]] = s.info[s.co]]
  BY DEF Suspend
<1> HIDE DEF p, q
<1> QED BY <1>2, <1>3 DEF HasPlace, Stays

LEMMA MarkerFStays ==
  ASSUME NEW s, HasPlace(s), NEW minarea
  PROVE  Stays(s, MarkerF(s, minarea))
<1> DEFINE p == Pop(s)
           q == IF s.start[s.co] = UNKNOWN THEN Complete(p, minarea) ELSE Suspend(p)
           r == [q EXCEPT !.co = s.co - 1]
<1>1. HasPlace(p) /\ Stays(s, p)
  BY PoppedStays DEF HasPlace, Stays
<1>2. HasPlace(q) /\ Stays(s, q)
  <2> HIDE DEF p
  <2> QED BY <1>1, CompleteStays, SuspendStays DEF HasPlace, Stays
<1>3. HasPlace(r) /\ Stays(s, r)
  <2> HIDE DEF q
  <2> QED BY <1>2 DEF HasPlace, Stays
<1>4. Stays(s, Pop(r))
  <2> HIDE DEF r
  <2> QED BY <1>3, PoppedStays DEF HasPlace, Stays
<1>5. MarkerF(s, minarea) =
        IF s.cs = "NONOBJECT" /\ p.ps = "COMPLETE" THEN Pop(r) ELSE p
  BY DEF MarkerF
<1> QED BY <1>1, <1>4, <1>5

LEMMA NewMarkerStays ==
  ASSUME NEW s, HasPlace(s), NEW mark, NEW minarea
  PROVE  Stays(s, NewMarker(s, mark, minarea))
<1>1. Stays(s, s) /\ Stays(s, [s EXCEPT !.ps = "INCOMPLETE"])
  BY DEF HasPlace, Stays
<1> QED BY <1>1, MarkerSStays, MarkerInnerStays, MarkerFStays DEF NewMarker

LEMMA EndSegmentStays ==
  ASSUME NEW s, HasPlace(s)
  PROVE  Stays(s, EndSegment(s))
<1> DEFINE t == [s EXCEPT !.cs = "NONOBJECT"]
           q == Pop(t)
           p == Checked(q, s.start[s.co])
<1>1. HasPlace(t) /\ Stays(s, t)
  BY DEF HasPlace, Stays
<1>2. HasPlace(q) /\ Stays(s, q)
  <2> HIDE DEF t
  <2> QED BY <1>1, PoppedStays DEF HasPlace, Stays
<1>3. HasPlace(p) /\ Stays(s, p)
  <2> HIDE DEF q
  <2> QED BY <1>2, CheckedStays DEF HasPlace, Stays
<1>4. EndSegment(s) =
        IF s.cs # "OBJECT" THEN s
        ELSE IF s.ps # "COMPLETE"
        THEN [t EXCEPT !.marker[s.x] = "f", !.end[s.co] = s.x]
        ELSE [p EXCEPT !.marker[s.x] = "F", !.store[s.start[s.co]] = s.info[s.co],
                       !.co = s.co - 1]
  BY DEF EndSegment
<1> HIDE DEF t, q, p
<1> QED BY <1>1, <1>3, <1>4 DEF HasPlace, Stays

(* A visit moves the scan to the next position, whatever it finds there. *)
LEMMA VisitedMoves ==
  ASSUME NEW s, HasPlace(s), NEW lit, NEW truncated, NEW minarea, NEW w,
         NEW next, next = Visited(s, lit, truncated, minarea, w)
  PROVE  /\ HasPlace(next)
         /\ IF s.x < w THEN next.x = s.x + 1 /\ next.y = s.y
                       ELSE next.x = 0 /\ next.y = s.y + 1
<1> DEFINE mark == s.marker[s.x]
           c == [s EXCEPT !.marker[s.x] = "none", !.ready = Blank, !.object = <<>>]
           k == TakeCell(c, truncated)
           t == IF lit THEN StartSegment(k) ELSE c
           u == NewMarker(t, mark, minarea)
           v == IF lit THEN Update(u, u.co, u.curpix) ELSE EndSegment(u)
<1>1. HasPlace(c) /\ Stays(s, c)
  BY DEF HasPlace, Stays
<1>2. HasPlace(k) /\ Stays(s, k)
  <2> HIDE DEF c
  <2> QED BY <1>1, TakeCellStays DEF HasPlace, Stays
<1>3. HasPlace(t) /\ Stays(s, t)
  <2> HIDE DEF c, k
  <2> QED BY <1>1, <1>2, StartSegmentStays DEF HasPlace, Stays
<1>4. HasPlace(u) /\ Stays(s, u)
  <2> HIDE DEF t, mark
  <2> QED BY <1>3, NewMarkerStays DEF HasPlace, Stays
<1>5. HasPlace(v) /\ Stays(s, v)
  <2> HIDE DEF u
  <2> QED BY <1>4, UpdateStays, EndSegmentStays DEF HasPlace, Stays
<1>6. next = Advance(v, w)
  BY DEF Visited
<1> HIDE DEF v
<1> QED BY <1>5, <1>6 DEF Advance, HasPlace, Stays

-----------------------------------------------------------------------------
(* Where a call is *)

Statuses == {"scanning", "PIXSTACK_FULL", "DEBLEND_OVERFLOW", "done", "failed"}

(* The scan is at a position of the image with its empty line and column, or *)
(* behind the last one.                                                      *)
PlaceInv ==
  /\ img.w \in Nat \ {0} /\ img.h \in Nat \ {0}
  /\ retry \in 0..MaxRetries /\ status \in Statuses
  /\ HasPlace(scan)
  /\ scan.x \in 0..img.w /\ scan.y \in 0..img.h+1
  /\ scan.y = img.h + 1 => scan.x = 0

LEMMA NewScanPlace ==
  ASSUME NEW w, NEW n
  PROVE  LET s == NewScan(w, n) IN HasPlace(s) /\ s.x = 0 /\ s.y = 0
BY DEF NewScan, HasPlace

LEMMA PlaceInit == Init => PlaceInv
<1> SUFFICES ASSUME Init PROVE PlaceInv
  OBVIOUS
<1>1. img.w \in Nat \ {0} /\ img.h \in Nat \ {0} /\ MaxRetries \in Nat
  BY ExtractionAssumption DEF Init
<1>2. HasPlace(scan) /\ scan.x = 0 /\ scan.y = 0
  BY NewScanPlace DEF Init
<1> QED BY <1>1, <1>2 DEF Init, PlaceInv, Statuses

LEMMA VisitKeeps ==
  ASSUME PlaceInv, CanVisit, scan' = NextScan, UNCHANGED <<img, retry, status>>
  PROVE  /\ PlaceInv'
         /\ IF scan.x < img.w THEN scan'.x = scan.x + 1 /\ scan'.y = scan.y
                              ELSE scan'.x = 0 /\ scan'.y = scan.y + 1
<1> DEFINE lit == Lit
           truncated == Truncated
           w == img.w
<1>1. scan' = Visited(scan, lit, truncated, MinArea, w)
  BY DEF NextScan
<1>2. /\ HasPlace(scan')
      /\ IF scan.x < img.w THEN scan'.x = scan.x + 1 /\ scan'.y = scan.y
                           ELSE scan'.x = 0 /\ scan'.y = scan.y + 1
  <2> HIDE DEF lit, truncated
  <2> QED BY <1>1, VisitedMoves DEF PlaceInv
<1> QED BY <1>2 DEF PlaceInv, CanVisit, Scanned

-----------------------------------------------------------------------------
(* The measure *)

LEMMA Products ==
  /\ \A a, b \in Nat : a * b \in Nat
  /\ \A a, b, c \in Nat : a <= b => a * c <= b * c
  /\ \A a, c \in Int : (a + 1) * c = a * c + c
  /\ \A a, c \in Int : (a - 1) * c = a * c - c
<1>1. \A a, b \in Nat : a * b \in Nat
  OBVIOUS
<1>2. \A a, c \in Int : (a + 1) * c = a * c + c
  OBVIOUS
<1>3. \A a, c \in Int : (a - 1) * c = a * c - c
  OBVIOUS
<1>4. ASSUME NEW a \in Nat, NEW b \in Nat, NEW c \in Nat, a <= b
      PROVE  a * c <= b * c
  <2>1. b * c = a * c + (b - a) * c
    OBVIOUS
  <2>2. (b - a) * c >= 0
    BY <1>1, <1>4
  <2>3. a * c \in Int /\ b * c \in Int /\ (b - a) * c \in Int
    BY <1>4
  <2> QED BY <2>1, <2>2, <2>3
<1> QED BY <1>1, <1>2, <1>3, <1>4

Positions == (img.w + 1) * (img.h + 1)
Seen      == scan.y * (img.w + 1) + scan.x
Stage     == IF status = "scanning" THEN 2 ELSE IF Failed THEN 1 ELSE 0
Calls     == (MaxRetries - retry) * (Positions + 3)

(* What Remaining is made of. *)
RemainingIs ==
  /\ Remaining = Calls + (Positions - Seen) + Stage
  /\ Positions \in Nat /\ Seen \in 0..Positions
  /\ Calls \in Nat

LEMMA RemainingParts == PlaceInv => RemainingIs
<1> SUFFICES ASSUME PlaceInv PROVE RemainingIs
  OBVIOUS
<1>1. Stage = CASE status = "scanning" -> 2 [] Failed -> 1 [] OTHER -> 0
  BY DEF Stage, Failed
<1>2. Remaining = Calls + (Positions - Seen) + Stage
  BY <1>1 DEF Remaining, Calls, Positions, Seen
<1>3. Positions \in Nat
  <2>1. img.w + 1 \in Nat /\ img.h + 1 \in Nat
    BY DEF PlaceInv
  <2> QED BY <2>1, Products DEF Positions
<1>4. Positions = img.h * (img.w + 1) + (img.w + 1)
  <2>1. img.h \in Int /\ img.w + 1 \in Int
    BY DEF PlaceInv
  <2>2. (img.h + 1) * (img.w + 1) = img.h * (img.w + 1) + (img.w + 1)
    BY <2>1, Products
  <2>3. Positions = (img.h + 1) * (img.w + 1)
    BY DEF Positions, PlaceInv
  <2> QED BY <2>2, <2>3
<1>5. Seen \in Nat
  <2>1. scan.y \in Nat /\ img.w + 1 \in Nat /\ scan.x \in Nat
    BY DEF PlaceInv
  <2>2. scan.y * (img.w + 1) \in Nat
    BY <2>1, Products
  <2> QED BY <2>1, <2>2 DEF Seen
<1>6. ~ Scanned => Seen + (img.w + 1 - scan.x) <= Positions
  <2> SUFFICES ASSUME ~ Scanned PROVE Seen + (img.w + 1 - scan.x) <= Positions
    OBVIOUS
  <2>1. /\ scan.y \in Nat /\ img.h \in Nat /\ scan.y <= img.h
        /\ img.w \in Nat /\ img.w + 1 \in Nat /\ scan.x \in Nat
    BY DEF PlaceInv, Scanned
  <2>2. /\ scan.y * (img.w + 1) <= img.h * (img.w + 1)
        /\ scan.y * (img.w + 1) \in Nat /\ img.h * (img.w + 1) \in Nat
    BY <2>1, Products
  <2> DEFINE a == scan.y * (img.w + 1)
             b == img.h * (img.w + 1)
  <2>3. Seen = a + scan.x /\ Positions = b + (img.w + 1)
    BY <1>4 DEF Seen
  <2> HIDE DEF a, b
  <2>4. a \in Nat /\ b \in Nat /\ a <= b
    BY <2>2 DEF a, b
  <2> QED BY <2>1, <2>3, <2>4
<1>7. Scanned => Seen = Positions
  <2> SUFFICES ASSUME Scanned PROVE Seen = Positions
    OBVIOUS
  <2>1. scan.y = img.h + 1 /\ scan.x = 0
    BY DEF PlaceInv, Scanned
  <2>2. (img.h + 1) * (img.w + 1) = Positions /\ Positions \in Nat
    BY <1>3 DEF Positions, PlaceInv
  <2> QED BY <2>1, <2>2 DEF Seen
<1>8. Seen <= Positions
  <2>1. img.w + 1 - scan.x >= 0 /\ img.w \in Nat /\ scan.x \in Nat
    BY DEF PlaceInv
  <2> QED BY <1>3, <1>5, <1>6, <1>7, <2>1
<1>9. Calls \in Nat
  <2>1. MaxRetries - retry \in Nat /\ Positions + 3 \in Nat
    BY <1>3, ExtractionAssumption DEF PlaceInv
  <2> QED BY <2>1, Products DEF Calls
<1> QED BY <1>2, <1>3, <1>5, <1>8, <1>9 DEF RemainingIs

LEMMA RemainingPartsNext == PlaceInv' => RemainingIs'
BY RemainingParts, PTL

(* With the image and the number of calls as they are, a step ends nearer    *)
(* when the scan and the stage together do.                                  *)
LEMMA SameCall ==
  ASSUME PlaceInv, PlaceInv', UNCHANGED <<img, retry>>,
         Stage' - Seen' < Stage - Seen
  PROVE  0 <= Remaining' /\ Remaining' < Remaining
<1>1. Calls' = Calls /\ Positions' = Positions
  BY DEF Calls, Positions
<1>2. Stage \in 0..2 /\ Stage' \in 0..2
  BY DEF Stage
<1>3. /\ Remaining = Calls + (Positions - Seen) + Stage
      /\ Positions \in Nat /\ Seen \in 0..Positions /\ Calls \in Nat
  BY RemainingParts DEF RemainingIs
<1>4. /\ Remaining' = Calls' + (Positions' - Seen') + Stage'
      /\ Seen' \in 0..Positions'
  BY RemainingPartsNext DEF RemainingIs
<1>5. /\ Stage \in Int /\ Stage' \in Int /\ Seen \in Int /\ Seen' \in Int
      /\ Calls \in Int /\ Positions \in Int
  BY <1>1, <1>2, <1>3, <1>4
<1>6. Remaining' = Calls + (Positions - Seen') + Stage' /\ Seen' <= Positions /\ Stage' >= 0
  BY <1>1, <1>2, <1>3, <1>4
<1>7. ASSUME NEW c \in Nat, NEW p \in Int, NEW s \in Int, NEW g \in Int, NEW t \in Int,
             NEW h \in Nat, t <= p, h - t < g - s
      PROVE  0 <= c + (p - t) + h /\ c + (p - t) + h < c + (p - s) + g
  BY <1>7
<1>8. Stage' - Seen' < Stage - Seen
  OBVIOUS
<1>9. Stage' \in Nat /\ Calls \in Nat
  BY <1>2, <1>3
<1>10. 0 <= Calls + (Positions - Seen') + Stage'
  BY <1>5, <1>6, <1>7, <1>8, <1>9
<1>11. Calls + (Positions - Seen') + Stage' < Calls + (Positions - Seen) + Stage
  BY <1>5, <1>6, <1>7, <1>8, <1>9
<1> QED BY <1>3, <1>6, <1>10, <1>11

-----------------------------------------------------------------------------
(* The steps *)

Nearer == 0 <= Remaining' /\ Remaining' < Remaining

LEMMA StackFullNearer == PlaceInv /\ StackFull => PlaceInv' /\ Nearer
<1> SUFFICES ASSUME PlaceInv, StackFull PROVE PlaceInv' /\ Nearer
  OBVIOUS
<1>1. HasPlace(scan') /\ scan'.x = scan.x /\ scan'.y = scan.y
  <2> DEFINE truncated == Truncated
  <2>1. scan' = TakeCell(scan, truncated)
    BY DEF StackFull
  <2> HIDE DEF truncated
  <2> QED BY <2>1, TakeCellStays DEF PlaceInv, HasPlace, Stays
<1>2. PlaceInv'
  BY <1>1 DEF StackFull, PlaceInv, Statuses
<1>3. Seen' = Seen /\ Seen \in Int
  BY <1>1, RemainingParts DEF StackFull, Seen, RemainingIs
<1>4. Stage' = 1 /\ Stage = 2
  BY DEF StackFull, Stage, Failed
<1>5. Stage' - Seen' < Stage - Seen
  BY <1>3, <1>4
<1>6. UNCHANGED <<img, retry>>
  BY DEF StackFull
<1> QED BY <1>2, <1>5, <1>6, SameCall DEF Nearer

LEMMA VisitNearer == PlaceInv /\ (Visit \/ Sortit) => PlaceInv' /\ Nearer
<1> SUFFICES ASSUME PlaceInv, Visit \/ Sortit PROVE PlaceInv' /\ Nearer
  OBVIOUS
<1>1. CanVisit /\ scan' = NextScan /\ UNCHANGED <<img, retry, status>>
  BY DEF Visit, Sortit
<1>2. /\ PlaceInv'
      /\ IF scan.x < img.w THEN scan'.x = scan.x + 1 /\ scan'.y = scan.y
                           ELSE scan'.x = 0 /\ scan'.y = scan.y + 1
  BY <1>1, VisitKeeps
<1>3. /\ scan.x \in 0..img.w /\ scan.y \in Nat /\ img.w \in Nat /\ img'.w = img.w
      /\ scan.y * (img.w + 1) \in Int
  BY <1>1, Products DEF PlaceInv
<1>4. Seen' = Seen + 1
  <2>1. CASE scan.x < img.w
    BY <1>2, <1>3, <2>1 DEF Seen
  <2>2. CASE ~ (scan.x < img.w)
    <3>1. scan.x = img.w
      BY <1>3, <2>2
    <3>2. (scan.y + 1) * (img.w + 1) = scan.y * (img.w + 1) + (img.w + 1)
      BY <1>3, Products
    <3>3. Seen' = (scan.y + 1) * (img.w + 1) + 0
      BY <1>2, <1>3, <2>2 DEF Seen
    <3> QED BY <1>3, <3>1, <3>2, <3>3 DEF Seen
  <2> QED BY <2>1, <2>2
<1>5. Stage' = Stage /\ Stage \in Int /\ Seen \in Int
  BY <1>1, RemainingParts DEF Stage, Failed, RemainingIs
<1>6. Stage' - Seen' < Stage - Seen
  BY <1>4, <1>5
<1> QED BY <1>1, <1>2, <1>6, SameCall DEF Nearer

LEMMA EndOfCallNearer ==
  PlaceInv /\ (DeblendOverflow \/ Finish \/ GiveUp) => PlaceInv' /\ Nearer
<1> SUFFICES ASSUME PlaceInv, DeblendOverflow \/ Finish \/ GiveUp PROVE PlaceInv' /\ Nearer
  OBVIOUS
<1>1. UNCHANGED <<img, retry, scan>> /\ status' \in Statuses
  BY DEF DeblendOverflow, Finish, GiveUp, Statuses
<1>2. PlaceInv'
  BY <1>1 DEF PlaceInv
<1>3. Seen' = Seen /\ Seen \in Int
  BY <1>1, RemainingParts DEF Seen, RemainingIs
<1>4. Stage' \in Int /\ Stage \in Int /\ Stage' < Stage
  BY DEF DeblendOverflow, Finish, GiveUp, CanVisit, Stage, Failed
<1>5. ASSUME NEW g \in Int, NEW h \in Int, NEW s \in Int, h < g PROVE h - s < g - s
  BY <1>5
<1>6. Stage' - Seen' < Stage - Seen
  BY <1>3, <1>4, <1>5
<1> QED BY <1>1, <1>2, <1>6, SameCall DEF Nearer

LEMMA RetryNearer == PlaceInv /\ Retry => PlaceInv' /\ Nearer
<1> SUFFICES ASSUME PlaceInv, Retry PROVE PlaceInv' /\ Nearer
  OBVIOUS
<1>1. HasPlace(scan') /\ scan'.x = 0 /\ scan'.y = 0
  BY NewScanPlace DEF Retry
<1>2. MaxRetries \in Nat /\ retry < MaxRetries /\ retry \in Nat
  BY ExtractionAssumption DEF Retry, PlaceInv
<1>3. PlaceInv'
  BY <1>1, <1>2 DEF Retry, PlaceInv, Statuses
<1>4. Seen' = 0
  <2>1. img'.w \in Nat
    BY <1>3 DEF PlaceInv
  <2> QED BY <1>1, <2>1 DEF Seen
<1>5. Positions' = Positions /\ Positions \in Nat
  BY RemainingParts DEF Retry, Positions, RemainingIs
<1>6. Calls' + (Positions + 3) = Calls
  <2> DEFINE p == Positions + 3
             r == MaxRetries - retry
  <2>1. r \in Int /\ p \in Int /\ MaxRetries - retry' = r - 1
    BY <1>2, <1>5 DEF Retry
  <2>2. Calls = r * p /\ Calls' = (r - 1) * p
    BY <1>5, <2>1 DEF Calls
  <2>3. (r - 1) * p = r * p - p /\ r * p \in Int
    BY <2>1, Products
  <2> HIDE DEF p, r
  <2>4. Calls' + p = Calls
    BY <2>1, <2>2, <2>3
  <2> QED BY <2>4 DEF p
<1>7. Stage' = 2 /\ Stage = 1
  BY DEF Retry, Stage, Failed
<1>8. /\ Remaining = Calls + (Positions - Seen) + 1
      /\ Seen \in 0..Positions /\ Calls \in Nat
  BY <1>7, RemainingParts DEF RemainingIs
<1>9. Remaining' = Calls' + Positions + 2 /\ Calls' \in Nat
  BY <1>3, <1>4, <1>5, <1>7, RemainingPartsNext DEF RemainingIs
<1>10. ASSUME NEW c \in Nat, NEW d \in Nat, NEW p \in Nat, NEW s \in 0..p, d + (p + 3) = c
       PROVE  0 <= d + p + 2 /\ d + p + 2 < c + (p - s) + 1
  BY <1>10
<1>11. /\ 0 <= Calls' + Positions + 2
       /\ Calls' + Positions + 2 < Calls + (Positions - Seen) + 1
  BY <1>5, <1>6, <1>8, <1>9, <1>10
<1> QED BY <1>3, <1>8, <1>9, <1>11 DEF Nearer

(* The scan of a call never leaves the image with its empty line and column. *)
LEMMA PlaceStep == PlaceInv /\ [Next]_vars => PlaceInv'
<1> SUFFICES ASSUME PlaceInv, [Next]_vars PROVE PlaceInv'
  OBVIOUS
<1>1. ASSUME UNCHANGED vars PROVE PlaceInv'
  BY <1>1 DEF vars, PlaceInv
<1> QED BY <1>1, StackFullNearer, VisitNearer, EndOfCallNearer, RetryNearer DEF Next, Stopped

(* Every step brings the end nearer, for every image, threshold class, size  *)
(* of the pixel stack and number of retries, whatever the visits find: the   *)
(* calls and the positions of each call are never gone through again.        *)
THEOREM ExtractionEnds == Spec => EndsNearer
<1>1. ASSUME PlaceInv, [Next]_vars PROVE [Nearer]_vars
  BY <1>1, StackFullNearer, VisitNearer, EndOfCallNearer, RetryNearer DEF Next, Stopped
<1>2. [Nearer]_vars => [0 <= Remaining' /\ Remaining' < Remaining]_vars
  BY DEF Nearer
<1> QED BY <1>1, <1>2, PlaceInit, PlaceStep, PTL DEF Spec, EndsNearer

-----------------------------------------------------------------------------
(* The stack of the scan *)

Gap == {"COMPLETE", "INCOMPLETE"}

IsStack(st) == st \in Seq(Gap)

(* psstack and ps together are one word: COMPLETE, then for each open region  *)
(* a COMPLETE (at base[j]) followed by the state of the regions of the line   *)
(* above that are joined to it and not at an end.  Only the innermost may     *)
(* have none, and only while a run goes on.                                   *)
Bases(co, base) ==
  /\ \A j \in 0..co : base[j] \in Nat
  /\ base[0] = 1
  /\ co # 0 => base[1] = 2
  /\ \A i, j \in 0..co : i < j => base[i] < base[j]
  /\ \A i, j \in 1..co : i < j => base[i] + 2 <= base[j]
  /\ \A j \in 1..co : 2 * j <= base[j]

IsBase(i, co, base) == \E j \in 0..co : base[j] = i

Word(st, co, base) ==
  \A i \in 1..Len(st) : /\ IsBase(i, co, base) => st[i] = "COMPLETE"
                        /\ ~IsBase(i, co, base) => st[i] = "INCOMPLETE"

Top(st, ps, cs, co, base) ==
  /\ base[co] <= Len(st) + 1
  /\ co = 0 => Len(st) = 0
  /\ (ps = "COMPLETE") <=> (base[co] = Len(st) + 1)
  /\ cs = "OBJECT" => co # 0
  /\ co # 0 /\ ps = "COMPLETE" => cs = "OBJECT"

Framed(st, ps, cs, co) ==
  \E base : Bases(co, base) /\ Word(st, co, base) /\ Top(st, ps, cs, co, base)

LEMMA FramedCount ==
  ASSUME NEW st, IsStack(st), NEW ps, NEW cs, NEW co \in Nat, Framed(st, ps, cs, co)
  PROVE  /\ Len(st) \in Nat
         /\ IF ps = "COMPLETE" THEN 2 * co <= Len(st) + 1 ELSE 2 * co <= Len(st)
         /\ co = 0 => Len(st) = 0 /\ ps = "COMPLETE" /\ cs # "OBJECT"
         /\ co # 0 /\ cs # "OBJECT" => ps # "COMPLETE"
<1>1. PICK base : Bases(co, base) /\ Top(st, ps, cs, co, base)
  BY DEF Framed
<1>2. Len(st) \in Nat /\ base[co] \in Nat /\ (co # 0 => co \in 1..co)
  BY <1>1 DEF IsStack, Bases
<1>3. co = 0 => Len(st) = 0 /\ ps = "COMPLETE" /\ cs # "OBJECT"
  BY <1>1 DEF Top, Bases
<1>4. co # 0 /\ cs # "OBJECT" => ps # "COMPLETE"
  BY <1>1 DEF Top
<1>5. co # 0 => 2 * co <= base[co]
  BY <1>1, <1>2 DEF Bases
<1>6. base[co] <= Len(st) + 1 /\ (ps # "COMPLETE" => base[co] # Len(st) + 1)
  BY <1>1 DEF Top
<1>7. ASSUME NEW c \in Nat, NEW n \in Nat, NEW b \in Nat, 2 * c <= b, b <= n + 1
      PROVE  2 * c <= n + 1 /\ (b # n + 1 => 2 * c <= n)
  BY <1>7
<1>8. co # 0 => /\ 2 * co <= Len(st) + 1
                /\ ps # "COMPLETE" => 2 * co <= Len(st)
  BY <1>2, <1>5, <1>6, <1>7
<1> QED BY <1>2, <1>3, <1>4, <1>8

(* The last base is the only one that can be at the top. *)
LEMMA BasesBelow ==
  ASSUME NEW co \in Nat, NEW base, Bases(co, base)
  PROVE  /\ base[co] \in Nat /\ base[0] <= base[co]
         /\ \A j \in 0..co : base[j] <= base[co] /\ (j # co => base[j] < base[co])
         /\ \A i \in Nat : base[co] <= i => (IsBase(i, co, base) <=> base[co] = i)
         /\ \A i \in Nat : IsBase(i, co, base) => i <= base[co] /\ 1 <= i
<1>1. co \in 0..co /\ 0 \in 0..co /\ \A j \in 0..co : base[j] \in Nat
  BY DEF Bases
<1>2. ASSUME NEW j \in 0..co PROVE base[j] <= base[co] /\ (j # co => base[j] < base[co])
  BY <1>1 DEF Bases
<1>3. ASSUME NEW j \in 0..co PROVE 1 <= base[j]
  BY <1>1 DEF Bases
<1> QED BY <1>1, <1>2, <1>3 DEF IsBase

(* A region more at the top, and one fewer. *)
LEMMA BasesMore ==
  ASSUME NEW co \in Nat, NEW base, Bases(co, base), NEW m \in Nat,
         IF co = 0 THEN m = 2 ELSE base[co] + 2 <= m,
         NEW new, new = [j \in 0..(co + 1) |-> IF j = co + 1 THEN m ELSE base[j]]
  PROVE  /\ Bases(co + 1, new) /\ new[co + 1] = m
         /\ \A i \in Nat : IsBase(i, co + 1, new) <=> IsBase(i, co, base) \/ i = m
<1>1. /\ new[co + 1] = m /\ \A j \in 0..co : new[j] = base[j] /\ base[j] \in Nat
  BY DEF Bases
<1>2. \A j \in 0..(co + 1) : j \in 0..co \/ j = co + 1
  OBVIOUS
<1>3. \A j \in 0..co : j \in 0..(co + 1)
  OBVIOUS
<1>4. co + 1 \in 0..(co + 1) /\ co + 1 # 0 /\ 0 \in 0..co /\ (co # 0 => 1 \in 0..co)
  OBVIOUS
<1>5. new[0] = 1 /\ new[1] = 2
  BY <1>1, <1>4 DEF Bases
<1>6. ASSUME NEW i \in 0..co PROVE base[i] < m /\ (i # 0 => base[i] + 2 <= m)
  <2>1. CASE co = 0
    BY <2>1 DEF Bases
  <2>2. CASE co # 0
    <3>1. base[i] <= base[co] /\ base[co] \in Nat /\ base[i] \in Nat
      BY <1>1, BasesBelow
    <3>2. base[co] + 2 <= m
      BY <2>2
    <3> QED BY ONLY <3>1, <3>2, m \in Nat
  <2> QED BY <2>1, <2>2
<1>7. ASSUME NEW i \in 0..(co + 1), NEW j \in 0..(co + 1), i < j
      PROVE  new[i] < new[j] /\ (i # 0 => new[i] + 2 <= new[j])
  <2>1. i \in 0..co
    BY <1>7
  <2>2. CASE j = co + 1
    BY <1>1, <1>6, <2>1, <2>2
  <2>3. CASE j # co + 1
    <3>1. j \in 0..co /\ (i # 0 => i \in 1..co /\ j \in 1..co)
      BY <1>7, <2>3
    <3> QED BY <1>1, <1>7, <2>1, <3>1 DEF Bases
  <2> QED BY <2>2, <2>3
<1>8. ASSUME NEW j \in 1..(co + 1) PROVE 2 * j <= new[j]
  <2>1. CASE j = co + 1
    <3>1. co # 0 => 2 * co <= base[co] /\ base[co] \in Nat
      BY DEF Bases
    <3> QED BY <1>1, <2>1, <3>1
  <2>2. CASE j # co + 1
    BY <1>1, <2>2 DEF Bases
  <2> QED BY <2>1, <2>2
<1>9. \A i, j \in 1..(co + 1) : i \in 0..(co + 1) /\ i # 0
  OBVIOUS
<1>10. Bases(co + 1, new)
  BY <1>4, <1>5, <1>7, <1>8, <1>9 DEF Bases
<1>11. \A i \in Nat : IsBase(i, co + 1, new) <=> IsBase(i, co, base) \/ i = m
  BY <1>1, <1>2, <1>3, <1>4 DEF IsBase
<1> QED BY <1>1, <1>10, <1>11

LEMMA BasesFewer ==
  ASSUME NEW co \in Nat, co # 0, NEW base, Bases(co, base)
  PROVE  /\ co - 1 \in Nat /\ Bases(co - 1, base)
         /\ \A i \in Nat : IsBase(i, co - 1, base) <=> IsBase(i, co, base) /\ i # base[co]
         /\ IF co = 1 THEN base[co] = 2 ELSE base[co - 1] + 2 <= base[co]
<1>1. co - 1 \in Nat /\ \A j \in 0..co : base[j] \in Nat
  BY DEF Bases
<1>2. \A j \in 0..(co - 1) : j \in 0..co /\ j # co
  OBVIOUS
<1>3. \A j \in 0..co : j # co => j \in 0..(co - 1)
  OBVIOUS
<1>4. \A j \in 1..(co - 1) : j \in 1..co
  OBVIOUS
<1>5. Bases(co - 1, base)
  BY <1>2, <1>4 DEF Bases
<1>6. \A i \in Nat : IsBase(i, co - 1, base) <=> IsBase(i, co, base) /\ i # base[co]
  <2>1. \A j \in 0..(co - 1) : base[j] < base[co]
    BY <1>2, BasesBelow
  <2>2. \A j \in 0..(co - 1) : base[j] # base[co]
    BY <1>1, <1>2, <2>1
  <2> QED BY <1>2, <1>3, <2>2 DEF IsBase
<1>7. IF co = 1 THEN base[co] = 2 ELSE base[co - 1] + 2 <= base[co]
  <2>1. co # 1 => co - 1 \in 1..co /\ co \in 1..co /\ co - 1 < co
    OBVIOUS
  <2> QED BY <2>1 DEF Bases
<1> QED BY <1>1, <1>5, <1>6, <1>7

(* psstack with one entry more, and with one fewer. *)
LEMMA WordMore ==
  ASSUME NEW st, IsStack(st), NEW ps \in Gap, NEW st2, st2 = Append(st, ps)
  PROVE  /\ IsStack(st2) /\ Len(st2) = Len(st) + 1 /\ Len(st) \in Nat
         /\ st2[Len(st) + 1] = ps /\ \A i \in 1..Len(st) : st2[i] = st[i]
BY DEF IsStack

LEMMA WordFewer ==
  ASSUME NEW st, IsStack(st), Len(st) # 0, NEW st2, st2 = SubSeq(st, 1, Len(st) - 1)
  PROVE  /\ IsStack(st2) /\ Len(st2) = Len(st) - 1 /\ Len(st) - 1 \in Nat
         /\ st[Len(st)] \in Gap /\ \A i \in 1..(Len(st) - 1) : st2[i] = st[i]
<1>1. PICK n \in Nat : n = Len(st) /\ n # 0 /\ n - 1 \in Nat
  BY DEF IsStack
<1>2. \A i \in 1..n : st[i] \in Gap
  BY <1>1 DEF IsStack
<1>3. /\ IsStack(st2) /\ Len(st2) = IF 1 <= n - 1 THEN (n - 1) - 1 + 1 ELSE 0
      /\ \A i \in 1..((n - 1) - 1 + 1) : st2[i] = st[1 + i - 1]
  <2>1. 1 \in Int /\ n - 1 \in Int /\ \A i \in 1..(n - 1) : st[i] \in Gap
    BY <1>1, <1>2
  <2>2. st2 = SubSeq(st, 1, n - 1)
    BY <1>1
  <2> QED BY ONLY <2>1, <2>2, SubSeqProperties DEF IsStack
<1>4. Len(st2) = n - 1
  BY <1>1, <1>3
<1>5. \A i \in 1..(n - 1) : st2[i] = st[i]
  <2>1. \A i \in 1..(n - 1) : i \in 1..((n - 1) - 1 + 1) /\ 1 + i - 1 = i
    BY <1>1
  <2> QED BY <1>3, <2>1
<1> QED BY <1>1, <1>2, <1>3, <1>4, <1>5

(* An entry is pushed that is no base. *)
LEMMA FramedPush ==
  ASSUME NEW st, IsStack(st), NEW ps \in Gap, NEW co \in Nat, co # 0,
         Framed(st, ps, "OBJECT", co), NEW cs
  PROVE  Framed(Append(st, ps), "OBJECT", cs, co)
<1>1. PICK base : Bases(co, base) /\ Word(st, co, base) /\ Top(st, ps, "OBJECT", co, base)
  BY DEF Framed
<1>2. PICK st2 : st2 = Append(st, ps)
  OBVIOUS
<1>3. PICK n \in Nat : /\ n = Len(st) /\ Len(st2) = n + 1
                       /\ st2[n + 1] = ps /\ \A i \in 1..n : st2[i] = st[i]
  BY <1>2, WordMore
<1>4. base[co] \in Nat /\ base[co] <= n + 1 /\ ((ps = "COMPLETE") <=> (base[co] = n + 1))
  <2>1. base[co] \in Nat
    BY <1>1, BasesBelow
  <2> QED BY <1>1, <1>3, <2>1 DEF Top
<1>5. Word(st2, co, base)
  <2>1. IsBase(n + 1, co, base) <=> ps = "COMPLETE"
    BY <1>1, <1>4, BasesBelow
  <2>2. \A i \in 1..(n + 1) : i \in 1..n \/ i = n + 1
    OBVIOUS
  <2> QED BY <1>1, <1>3, <2>1, <2>2 DEF Word, Gap
<1>6. base[co] <= (n + 1) + 1 /\ base[co] # (n + 1) + 1
  BY <1>4
<1>7. Top(st2, "OBJECT", cs, co, base)
  BY <1>3, <1>6 DEF Top
<1> QED BY <1>1, <1>2, <1>5, <1>7 DEF Framed

(* A region is opened: by a run, or by a region of the line above. *)
LEMMA FramedOpen ==
  ASSUME NEW st, IsStack(st), NEW ps \in Gap, NEW co \in Nat, Framed(st, ps, "NONOBJECT", co)
  PROVE  Framed(Append(st, ps), "COMPLETE", "OBJECT", co + 1)
<1>1. PICK base : Bases(co, base) /\ Word(st, co, base) /\ Top(st, ps, "NONOBJECT", co, base)
  BY DEF Framed
<1>2. PICK st2 : st2 = Append(st, ps)
  OBVIOUS
<1>3. PICK n \in Nat : /\ n = Len(st) /\ Len(st2) = n + 1
                       /\ st2[n + 1] = ps /\ \A i \in 1..n : st2[i] = st[i]
  BY <1>2, WordMore
<1>4. base[co] \in Nat /\ base[co] <= n + 1 /\ ((ps = "COMPLETE") <=> (base[co] = n + 1))
  <2>1. base[co] \in Nat
    BY <1>1, BasesBelow
  <2> QED BY <1>1, <1>3, <2>1 DEF Top
<1>5. (co = 0 => n = 0) /\ (co # 0 => ps # "COMPLETE")
  BY <1>1, <1>3 DEF Top
<1>6. IF co = 0 THEN n + 2 = 2 ELSE base[co] + 2 <= n + 2
  BY <1>4, <1>5
<1>7. PICK new : new = [j \in 0..(co + 1) |-> IF j = co + 1 THEN n + 2 ELSE base[j]]
  OBVIOUS
<1>8. /\ Bases(co + 1, new) /\ new[co + 1] = n + 2
      /\ \A i \in Nat : IsBase(i, co + 1, new) <=> IsBase(i, co, base) \/ i = n + 2
  <2>1. n + 2 \in Nat
    OBVIOUS
  <2> QED BY <1>1, <1>6, <1>7, <2>1, BasesMore
<1>9. Word(st2, co + 1, new)
  <2>1. IsBase(n + 1, co, base) <=> ps = "COMPLETE"
    BY <1>1, <1>4, BasesBelow
  <2>2. \A i \in 1..(n + 1) : (i \in 1..n \/ i = n + 1) /\ i # n + 2 /\ i \in Nat
    OBVIOUS
  <2>3. \A i \in 1..(n + 1) : IsBase(i, co + 1, new) <=> IsBase(i, co, base)
    BY <1>8, <2>2
  <2> QED BY <1>1, <1>3, <2>1, <2>2, <2>3 DEF Word, Gap
<1>10. Top(st2, "COMPLETE", "OBJECT", co + 1, new)
  <2>1. co + 1 # 0 /\ n + 2 = (n + 1) + 1 /\ n + 2 <= (n + 1) + 1
    OBVIOUS
  <2> QED BY <1>3, <1>8, <2>1 DEF Top
<1> QED BY <1>2, <1>8, <1>9, <1>10 DEF Framed

(* The line above is at the end or at the beginning of a segment. *)
LEMMA FramedTurn ==
  ASSUME NEW st, NEW cs, NEW co, NEW ps, ps # "COMPLETE", Framed(st, ps, cs, co),
         NEW ps2, ps2 # "COMPLETE"
  PROVE  Framed(st, ps2, cs, co)
BY DEF Framed, Top

(* A run begins or ends below a region of the line above. *)
LEMMA FramedRun ==
  ASSUME NEW st, NEW cs, NEW co, co # 0, NEW ps, ps # "COMPLETE", Framed(st, ps, cs, co), NEW cs2
  PROVE  Framed(st, ps, cs2, co)
BY DEF Framed, Top

(* The innermost base is taken off. *)
LEMMA FramedClose ==
  ASSUME NEW st, IsStack(st), NEW cs, NEW co \in Nat, co # 0,
         Framed(st, "COMPLETE", cs, co), NEW st2, st2 = SubSeq(st, 1, Len(st) - 1)
  PROVE  /\ Len(st) # 0 /\ st[Len(st)] \in Gap
         /\ Framed(st2, st[Len(st)], "NONOBJECT", co - 1)
         /\ Len(st) - co # 0 => co - 1 # 0 /\ st[Len(st)] = "INCOMPLETE"
<1>1. PICK base : Bases(co, base) /\ Word(st, co, base) /\ Top(st, "COMPLETE", cs, co, base)
  BY DEF Framed
<1>2. PICK n \in Nat : n = Len(st) /\ base[co] = n + 1
  BY <1>1 DEF Top
<1>3. /\ co - 1 \in Nat /\ Bases(co - 1, base)
      /\ \A i \in Nat : IsBase(i, co - 1, base) <=> IsBase(i, co, base) /\ i # base[co]
      /\ IF co = 1 THEN base[co] = 2 ELSE base[co - 1] + 2 <= base[co]
  BY <1>1, BasesFewer
<1>4. base[co - 1] \in Nat /\ base[co - 1] <= n /\ (co # 1 => base[co - 1] # n) /\ (co = 1 => base[co - 1] = n /\ n = 1) /\ n # 0
  <2>1. base[0] = 1 /\ base[co - 1] \in Nat
    BY <1>1, <1>3 DEF Bases
  <2>2. CASE co = 1
    <3>1. co - 1 = 0
      BY <2>2
    <3> QED BY <1>2, <1>3, <2>1, <2>2, <3>1
  <2>3. CASE co # 1
    BY <1>2, <1>3, <2>1, <2>3
  <2> QED BY <2>2, <2>3
<1>5. PICK m \in Nat : m = n - 1 /\ m + 1 = n
  BY <1>4
<1>6. /\ IsStack(st2) /\ Len(st2) = m /\ st[n] \in Gap
      /\ \A i \in 1..m : st2[i] = st[i]
  BY <1>2, <1>4, <1>5, WordFewer
<1>7. (st[n] = "COMPLETE") <=> (co = 1)
  <2>1. IsBase(n, co - 1, base) <=> base[co - 1] = n
    BY <1>3, <1>4, BasesBelow
  <2>2. IsBase(n, co - 1, base) <=> IsBase(n, co, base)
    BY <1>2, <1>3
  <2>3. n \in 1..Len(st)
    BY <1>2, <1>4
  <2> QED BY <1>1, <1>4, <2>1, <2>2, <2>3 DEF Word
<1>8. Word(st2, co - 1, base)
  <2>1. \A i \in 1..m : i \in 1..n /\ i \in Nat /\ i # n + 1
    BY <1>5
  <2>2. \A i \in 1..m : IsBase(i, co - 1, base) <=> IsBase(i, co, base)
    BY <1>2, <1>3, <2>1
  <2> QED BY <1>1, <1>2, <1>6, <2>1, <2>2 DEF Word
<1>9. co - 1 = 0 <=> co = 1
  OBVIOUS
<1>10. Top(st2, st[n], "NONOBJECT", co - 1, base)
  <2>1. base[co - 1] <= m + 1 /\ (base[co - 1] = m + 1 <=> co = 1) /\ (co = 1 => m = 0)
    BY <1>4, <1>5
  <2> QED BY <1>6, <1>7, <1>9, <2>1 DEF Top
<1>11. n - co # 0 => co # 1
  BY <1>4
<1> QED BY <1>2, <1>3, <1>4, <1>6, <1>7, <1>8, <1>9, <1>10, <1>11 DEF Framed, Gap

(* A region of the line above has ended. *)
LEMMA FramedPop ==
  ASSUME NEW st, IsStack(st), NEW cs, NEW co \in Nat, Framed(st, "OBJECT", cs, co),
         NEW st2, st2 = SubSeq(st, 1, Len(st) - 1)
  PROVE  /\ Len(st) # 0 /\ st[Len(st)] \in Gap /\ co # 0
         /\ st[Len(st)] = "INCOMPLETE" \/ cs = "OBJECT" => Framed(st2, st[Len(st)], cs, co)
         /\ st[Len(st)] = "COMPLETE" => Framed(st2, "COMPLETE", "OBJECT", co)
<1>1. PICK base : Bases(co, base) /\ Word(st, co, base) /\ Top(st, "OBJECT", cs, co, base)
  BY DEF Framed
<1>2. PICK n \in Nat : n = Len(st) /\ base[co] <= n + 1 /\ base[co] # n + 1 /\ (co = 0 => n = 0)
  BY <1>1 DEF Top
<1>3. base[co] <= n /\ n # 0 /\ co # 0
  <2>0. base[co] \in Nat /\ base[0] <= base[co]
    BY <1>1, BasesBelow
  <2>1. base[co] <= n
    BY <1>2, <2>0
  <2>2. base[0] = 1
    BY <1>1 DEF Bases
  <2>3. co # 0
    BY <1>2, <2>1, <2>2
  <2>4. n # 0
    BY <2>0, <2>1, <2>2
  <2> QED BY <2>1, <2>3, <2>4
<1>5. PICK m \in Nat : m = n - 1 /\ m + 1 = n
  BY <1>3
<1>6. /\ IsStack(st2) /\ Len(st2) = m /\ st[n] \in Gap
      /\ \A i \in 1..m : st2[i] = st[i]
  BY <1>2, <1>3, <1>5, WordFewer
<1>7. (st[n] = "COMPLETE") <=> (base[co] = n)
  <2>1. IsBase(n, co, base) <=> base[co] = n
    BY <1>1, <1>3, BasesBelow
  <2>2. n \in 1..Len(st)
    BY <1>2, <1>3
  <2> QED BY <1>1, <2>1, <2>2 DEF Word
<1>8. Word(st2, co, base)
  <2>1. \A i \in 1..m : i \in 1..n
    BY <1>5
  <2> QED BY <1>1, <1>2, <1>6, <2>1 DEF Word
<1>9. \A c : c = "OBJECT" \/ st[n] = "INCOMPLETE" => Top(st2, st[n], c, co, base)
  BY <1>3, <1>5, <1>6, <1>7 DEF Top
<1> QED BY <1>1, <1>2, <1>3, <1>6, <1>8, <1>9 DEF Framed

-----------------------------------------------------------------------------
(* The markers of a line *)

Marks == {"none", "S", "s", "f", "F"}

(* What a marker does to the number of regions begun and not ended, and to   *)
(* being in a segment of the innermost.                                      *)
Turn(m, g, a, g2, a2) ==
  \/ m = "none" /\ g2 = g /\ a2 = a
  \/ m = "S" /\ a = 0 /\ g2 = g + 1 /\ a2 = 1
  \/ m = "s" /\ a = 0 /\ g >= 1 /\ g2 = g /\ a2 = 1
  \/ m = "f" /\ a = 1 /\ g2 = g /\ a2 = 0
  \/ m = "F" /\ a = 1 /\ g >= 1 /\ g2 = g - 1 /\ a2 = 0

(* The markers of the columns before X are those of a line. *)
Line(m, X, h, n) ==
  /\ h[0] = 0 /\ n[0] = 0
  /\ \A c \in 0..X : h[c] \in Nat
  /\ \A c \in 0..(X - 1) : Turn(m[c], h[c], n[c], h[c + 1], n[c + 1])

(* How many of the first j open regions have begun on this line. *)
Levels(start, co, lev) ==
  /\ lev[0] = 0
  /\ \A j \in 0..co : lev[j] \in Nat
  /\ \A j \in 1..co : lev[j] = IF start[j] = UNKNOWN THEN lev[j - 1] ELSE lev[j - 1] + 1
  /\ \A i, j \in 0..co : i <= j => lev[i] <= lev[j]
  /\ \A i, j \in 0..co : i < j /\ start[j] # UNKNOWN => lev[i] < lev[j]

(* An open region that has begun on this line, and one with no run going on. *)
Begun(j, m, start, X, h, lev) ==
  /\ start[j] \in 0..(X - 1) /\ m[start[j]] = "S" /\ h[start[j]] + 1 = lev[j]
  /\ \A c \in (start[j] + 1)..X : lev[j] <= h[c]

Paused(j, m, start, end, X, h, lev) ==
  /\ end[j] \in 0..(X - 1) /\ start[j] < end[j] /\ m[end[j]] = "f" /\ h[end[j]] = lev[j]
  /\ \A c \in (end[j] + 1)..(X - 1) : m[c] \in {"s", "f", "F"} => lev[j] < h[c]

InRun(cs) == IF cs = "OBJECT" THEN 1 ELSE 0

Regions(m, start, end, cs, co, X, h, n, lev) ==
  /\ h[X] = lev[co] /\ n[X] = InRun(cs)
  /\ cs = "OBJECT" => co # 0 /\ start[co] # UNKNOWN
  /\ \A j \in 1..co : start[j] # UNKNOWN =>
       /\ Begun(j, m, start, X, h, lev)
       /\ j # co \/ cs # "OBJECT" => Paused(j, m, start, end, X, h, lev)

Past(m, start, end, cs, co, X) ==
  \E h, n, lev : /\ Line(m, X, h, n) /\ Levels(start, co, lev)
                 /\ Regions(m, start, end, cs, co, X, h, n, lev)

(* One column more. *)
LEMMA LineMore ==
  ASSUME NEW m, NEW X \in Nat, NEW h, NEW n, Line(m, X, h, n),
         NEW m2, \A c \in 0..(X - 1) : m2[c] = m[c],
         NEW h2, NEW n2, \A c \in 0..X : h2[c] = h[c] /\ n2[c] = n[c],
         h2[X + 1] \in Nat, Turn(m2[X], h[X], n[X], h2[X + 1], n2[X + 1])
  PROVE  Line(m2, X + 1, h2, n2)
<1>1. \A c \in 0..X : h2[c] = h[c] /\ n2[c] = n[c] /\ h[c] \in Nat
  BY DEF Line
<1>2. ASSUME NEW c \in 0..X PROVE Turn(m2[c], h2[c], n2[c], h2[c + 1], n2[c + 1])
  <2>1. CASE c = X
    BY <1>1, <2>1
  <2>2. CASE c # X
    <3>1. c \in 0..(X - 1) /\ c + 1 \in 0..X
      BY <2>2
    <3> QED BY <1>1, <3>1 DEF Line
  <2> QED BY <2>1, <2>2
<1>3. h2[0] = 0 /\ n2[0] = 0
  BY <1>1 DEF Line
<1>4. \A c \in 0..(X + 1) : c \in 0..X \/ c = X + 1
  OBVIOUS
<1>5. (X + 1) - 1 = X
  OBVIOUS
<1> QED BY <1>1, <1>2, <1>3, <1>4, <1>5 DEF Line

(* What the regions of the longer line are, one by one: an older one, or one  *)
(* that begins or pauses there.                                               *)
StaysBegun(j, co, start, lev, start2, lev2) ==
  j \in 1..co /\ start[j] # UNKNOWN /\ start2[j] = start[j] /\ lev2[j] = lev[j]

StaysPaused(j, co, cs, end, end2) == (j # co \/ cs # "OBJECT") /\ end2[j] = end[j]

LEMMA PastMore ==
  ASSUME NEW m, NEW start, NEW end, NEW cs, NEW co \in Nat, NEW X \in Nat, NEW h, NEW n, NEW lev,
         Line(m, X, h, n), Levels(start, co, lev), Regions(m, start, end, cs, co, X, h, n, lev),
         NEW m2, NEW start2, NEW end2, NEW cs2, NEW co2 \in Nat, NEW lev2,
         \A c \in 0..(X - 1) : m2[c] = m[c],
         Levels(start2, co2, lev2), Turn(m2[X], h[X], n[X], lev2[co2], InRun(cs2)),
         cs2 = "OBJECT" => co2 # 0 /\ start2[co2] # UNKNOWN,
         \A j \in 1..co2 : start2[j] # UNKNOWN =>
           \/ StaysBegun(j, co, start, lev, start2, lev2)
           \/ start2[j] = X /\ m2[X] = "S" /\ lev2[j] = h[X] + 1,
         \A j \in 1..co2 : start2[j] # UNKNOWN /\ (j # co2 \/ cs2 # "OBJECT") =>
           /\ StaysBegun(j, co, start, lev, start2, lev2)
           /\ \/ StaysPaused(j, co, cs, end, end2) /\ (m2[X] \in {"s", "f", "F"} => lev[j] < h[X])
              \/ end2[j] = X /\ m2[X] = "f" /\ lev[j] = h[X]
  PROVE  Past(m2, start2, end2, cs2, co2, X + 1)
<1> DEFINE h2 == [c \in 0..(X + 1) |-> IF c = X + 1 THEN lev2[co2] ELSE h[c]]
           n2 == [c \in 0..(X + 1) |-> IF c = X + 1 THEN InRun(cs2) ELSE n[c]]
<1>1. lev2[co2] \in Nat /\ \A j \in 1..co2 : lev2[j] \in Nat /\ lev2[j] <= lev2[co2]
  <2>1. co2 \in 0..co2 /\ \A j \in 1..co2 : j \in 0..co2 /\ j <= co2
    OBVIOUS
  <2> QED BY <2>1 DEF Levels
<1>2. /\ Line(m2, X + 1, h2, n2)
      /\ h2[X + 1] = lev2[co2] /\ n2[X + 1] = InRun(cs2) /\ \A c \in 0..X : h2[c] = h[c] /\ h[c] \in Nat
  <2>1. /\ h2[X + 1] = lev2[co2] /\ n2[X + 1] = InRun(cs2)
        /\ \A c \in 0..X : h2[c] = h[c] /\ n2[c] = n[c]
    OBVIOUS
  <2>2. \A c \in 0..X : h[c] \in Nat
    BY DEF Line
  <2> HIDE DEF h2, n2
  <2> QED BY <1>1, <2>1, <2>2, LineMore
<1> HIDE DEF h2, n2
<1>3. X \in 0..X /\ (X + 1) - 1 = X /\ \A c \in 0..(X + 1) : c \in 0..X \/ c = X + 1
  OBVIOUS
<1>4. ASSUME NEW j \in 1..co2, start2[j] # UNKNOWN PROVE Begun(j, m2, start2, X + 1, h2, lev2)
  <2>1. CASE StaysBegun(j, co, start, lev, start2, lev2)
    <3>1. /\ start2[j] = start[j] /\ lev2[j] = lev[j]
          /\ start[j] \in 0..(X - 1) /\ m[start[j]] = "S" /\ h[start[j]] + 1 = lev[j]
          /\ \A c \in (start[j] + 1)..X : lev[j] <= h[c]
      BY <2>1 DEF StaysBegun, Regions, Begun
    <3>2. start[j] \in 0..X /\ m2[start[j]] = "S" /\ h2[start[j]] = h[start[j]]
      BY <1>2, <3>1
    <3>3. ASSUME NEW c \in (start[j] + 1)..(X + 1) PROVE lev2[j] <= h2[c]
      <4>1. CASE c = X + 1
        BY <1>1, <1>2, <4>1
      <4>2. CASE c # X + 1
        <5>1. c \in (start[j] + 1)..X /\ c \in 0..X
          BY <3>2, <4>2
        <5> QED BY <1>2, <3>1, <5>1
      <4> QED BY <4>1, <4>2
    <3> QED BY <1>3, <3>1, <3>2, <3>3 DEF Begun
  <2>2. CASE start2[j] = X /\ m2[X] = "S" /\ lev2[j] = h[X] + 1
    <3>1. \A c \in (X + 1)..(X + 1) : c = X + 1
      OBVIOUS
    <3> QED BY <1>1, <1>2, <1>3, <2>2, <3>1 DEF Begun
  <2> QED BY <1>4, <2>1, <2>2
<1>5. ASSUME NEW j \in 1..co2, start2[j] # UNKNOWN, j # co2 \/ cs2 # "OBJECT"
      PROVE  Paused(j, m2, start2, end2, X + 1, h2, lev2)
  <2>1. StaysBegun(j, co, start, lev, start2, lev2)
    BY <1>5
  <2>2. /\ start2[j] = start[j] /\ lev2[j] = lev[j] /\ start[j] \in 0..(X - 1) /\ j \in 1..co /\ start[j] # UNKNOWN
    BY <2>1 DEF StaysBegun, Regions, Begun
  <2>3. CASE StaysPaused(j, co, cs, end, end2) /\ (m2[X] \in {"s", "f", "F"} => lev[j] < h[X])
    <3>1. Paused(j, m, start, end, X, h, lev) /\ end2[j] = end[j]
      BY <2>2, <2>3 DEF StaysPaused, Regions
    <3>2. /\ end[j] \in 0..(X - 1) /\ start[j] < end[j] /\ m[end[j]] = "f" /\ h[end[j]] = lev[j]
          /\ \A c \in (end[j] + 1)..(X - 1) : m[c] \in {"s", "f", "F"} => lev[j] < h[c]
      BY <3>1 DEF Paused
    <3>3. end[j] \in 0..X /\ m2[end[j]] = "f" /\ h2[end[j]] = h[end[j]]
      BY <1>2, <3>2
    <3>4. ASSUME NEW c \in (end[j] + 1)..X, m2[c] \in {"s", "f", "F"} PROVE lev2[j] < h2[c]
      <4>1. CASE c = X
        BY <1>2, <1>3, <2>2, <2>3, <3>4, <4>1
      <4>2. CASE c # X
        <5>1. c \in (end[j] + 1)..(X - 1) /\ c \in 0..X /\ c \in 0..(X - 1)
          BY <3>3, <4>2
        <5> QED BY <1>2, <2>2, <3>2, <3>4, <5>1
      <4> QED BY <4>1, <4>2
    <3> QED BY <1>3, <2>2, <3>1, <3>2, <3>3, <3>4 DEF Paused
  <2>4. CASE end2[j] = X /\ m2[X] = "f" /\ lev[j] = h[X]
    <3>1. (X + 1)..X = {} /\ start[j] < X
      BY <2>2
    <3> QED BY <1>2, <1>3, <2>2, <2>4, <3>1 DEF Paused
  <2> QED BY <1>5, <2>3, <2>4
<1>6. Regions(m2, start2, end2, cs2, co2, X + 1, h2, n2, lev2)
  BY <1>2, <1>4, <1>5 DEF Regions
<1> QED BY <1>2, <1>6 DEF Past

LEMMA LevelsFewer ==
  ASSUME NEW start, NEW co \in Nat, co # 0, NEW lev, Levels(start, co, lev)
  PROVE  /\ co - 1 \in Nat /\ Levels(start, co - 1, lev)
         /\ lev[co - 1] \in Nat /\ lev[co] \in Nat
         /\ lev[co] = IF start[co] = UNKNOWN THEN lev[co - 1] ELSE lev[co - 1] + 1
<1>1. /\ co - 1 \in Nat /\ co \in 1..co /\ co \in 0..co /\ co - 1 \in 0..co
      /\ 0..(co - 1) \subseteq 0..co /\ 1..(co - 1) \subseteq 1..co
  OBVIOUS
<1> QED BY <1>1 DEF Levels

LEMMA LevelsMore ==
  ASSUME NEW start, NEW co \in Nat, NEW lev, Levels(start, co, lev),
         NEW start2, \A j \in 1..co : start2[j] = start[j],
         NEW lev2, \A j \in 0..co : lev2[j] = lev[j],
         lev2[co + 1] = IF start2[co + 1] = UNKNOWN THEN lev[co] ELSE lev[co] + 1
  PROVE  Levels(start2, co + 1, lev2)
<1>1. /\ \A j \in 0..co : lev[j] \in Nat
      /\ \A i, j \in 0..co : i <= j => lev[i] <= lev[j]
      /\ \A i, j \in 0..co : i < j /\ start[j] # UNKNOWN => lev[i] < lev[j]
      /\ lev[0] = 0
      /\ \A j \in 1..co : lev[j] = IF start[j] = UNKNOWN THEN lev[j - 1] ELSE lev[j - 1] + 1
  BY DEF Levels
<1>2. /\ \A j \in 0..(co + 1) : j \in 0..co \/ j = co + 1
      /\ \A j \in 1..(co + 1) : j \in 1..co \/ j = co + 1
      /\ \A j \in 1..co : j \in 0..co /\ j - 1 \in 0..co
      /\ 0 \in 0..co /\ co \in 0..co /\ (co + 1) - 1 = co
  OBVIOUS
<1>3. \A i \in 0..co : lev[i] <= lev[co]
  BY <1>1, <1>2
<1>4. lev2[co + 1] \in Nat /\ lev[co] <= lev2[co + 1] /\ (start2[co + 1] # UNKNOWN => lev[co] < lev2[co + 1])
  BY <1>1, <1>2
<1>5. \A j \in 0..(co + 1) : lev2[j] \in Nat
  BY <1>1, <1>2, <1>4
<1>6. ASSUME NEW j \in 1..(co + 1)
      PROVE  lev2[j] = IF start2[j] = UNKNOWN THEN lev2[j - 1] ELSE lev2[j - 1] + 1
  <2>1. CASE j = co + 1
    BY <1>2, <2>1
  <2>2. CASE j # co + 1
    <3>1. j \in 1..co
      BY <2>2
    <3> QED BY <1>1, <1>2, <3>1
  <2> QED BY <2>1, <2>2
<1>7. ASSUME NEW i \in 0..(co + 1), NEW j \in 0..(co + 1)
      PROVE  (i <= j => lev2[i] <= lev2[j]) /\ (i < j /\ start2[j] # UNKNOWN => lev2[i] < lev2[j])
  <2>1. CASE i = co + 1
    BY <1>4, <2>1
  <2>2. CASE i # co + 1 /\ j = co + 1
    <3>1. i \in 0..co /\ lev2[i] = lev[i] /\ lev[i] \in Nat /\ lev[co] \in Nat /\ lev[i] <= lev[co]
      BY <1>1, <1>2, <1>3, <2>2
    <3> QED BY ONLY <1>4, <2>2, <3>1
  <2>3. CASE i # co + 1 /\ j # co + 1
    <3>1. i \in 0..co /\ j \in 0..co
      BY <1>2, <2>3
    <3>2. i < j => j \in 1..co
      BY <3>1
    <3>3. lev2[i] = lev[i] /\ lev2[j] = lev[j] /\ (i <= j => lev[i] <= lev[j])
      BY <1>1, <3>1
    <3>4. i < j /\ start[j] # UNKNOWN => lev[i] < lev[j]
      BY <1>1, <3>1
    <3> QED BY <3>2, <3>3, <3>4
  <2> QED BY <2>1, <2>2, <2>3
<1>8. lev2[0] = 0
  BY <1>1, <1>2
<1> QED BY <1>5, <1>6, <1>7, <1>8 DEF Levels

-----------------------------------------------------------------------------
(* A pixel is visited: the markers of one column more are written *)

LEMMA PastNone ==
  ASSUME NEW m, NEW start, NEW end, NEW cs, NEW co \in Nat, NEW X \in Nat, Past(m, start, end, cs, co, X),
         NEW m2, \A c \in 0..(X - 1) : m2[c] = m[c], m2[X] = "none"
  PROVE  Past(m2, start, end, cs, co, X + 1)
<1>1. PICK h, n, lev : /\ Line(m, X, h, n) /\ Levels(start, co, lev)
                       /\ Regions(m, start, end, cs, co, X, h, n, lev)
  BY DEF Past
<1>2. Turn(m2[X], h[X], n[X], lev[co], InRun(cs)) /\ (cs = "OBJECT" => co # 0 /\ start[co] # UNKNOWN)
  BY <1>1 DEF Regions, Turn
<1>3. \A j \in 1..co : start[j] # UNKNOWN => StaysBegun(j, co, start, lev, start, lev)
  BY DEF StaysBegun
<1>4. \A j \in 1..co : j # co \/ cs # "OBJECT" => StaysPaused(j, co, cs, end, end)
  BY DEF StaysPaused
<1>5. ~ m2[X] \in {"s", "f", "F"}
  OBVIOUS
<1> QED BY <1>1, <1>2, <1>3, <1>4, <1>5, PastMore

LEMMA PastOpen ==
  ASSUME NEW m, NEW start, NEW end, NEW cs, NEW co \in Nat, NEW X \in Nat, Past(m, start, end, cs, co, X),
         cs # "OBJECT",
         NEW m2, \A c \in 0..(X - 1) : m2[c] = m[c], m2[X] = "S",
         NEW start2, \A j \in 1..co : start2[j] = start[j], start2[co + 1] = X
  PROVE  Past(m2, start2, end, "OBJECT", co + 1, X + 1)
<1>1. PICK h, n, lev : /\ Line(m, X, h, n) /\ Levels(start, co, lev)
                       /\ Regions(m, start, end, cs, co, X, h, n, lev)
  BY DEF Past
<1> DEFINE lev2 == [j \in 0..(co + 1) |-> IF j = co + 1 THEN lev[co] + 1 ELSE lev[j]]
<1>2. lev2[co + 1] = lev[co] + 1 /\ \A j \in 0..co : lev2[j] = lev[j]
  OBVIOUS
<1> HIDE DEF lev2
<1>3. start2[co + 1] # UNKNOWN /\ co + 1 # 0 /\ co + 1 \in Nat
  BY DEF UNKNOWN
<1>4. Levels(start2, co + 1, lev2)
  BY <1>1, <1>2, <1>3, LevelsMore
<1>5. h[X] = lev[co] /\ n[X] = 0
  BY <1>1 DEF Regions, InRun
<1>6. Turn(m2[X], h[X], n[X], lev2[co + 1], InRun("OBJECT"))
  BY <1>2, <1>5 DEF Turn, InRun
<1>7. \A j \in 1..(co + 1) : j # co + 1 => j \in 1..co /\ j \in 0..co
  OBVIOUS
<1>8. ASSUME NEW j \in 1..(co + 1), j # co + 1, start2[j] # UNKNOWN
      PROVE  StaysBegun(j, co, start, lev, start2, lev2) /\ StaysPaused(j, co, cs, end, end)
  BY <1>2, <1>7, <1>8 DEF StaysBegun, StaysPaused
<1>9. ~ m2[X] \in {"s", "f", "F"}
  OBVIOUS
<1>10. \A j \in 1..(co + 1) : start2[j] # UNKNOWN =>
           \/ StaysBegun(j, co, start, lev, start2, lev2)
           \/ start2[j] = X /\ m2[X] = "S" /\ lev2[j] = h[X] + 1
  BY <1>2, <1>5, <1>8
<1> QED BY <1>1, <1>3, <1>4, <1>6, <1>8, <1>9, <1>10, PastMore

LEMMA PastFirst ==
  ASSUME NEW m, NEW start, NEW end, NEW cs, NEW co \in Nat, NEW X \in Nat, Past(m, start, end, cs, co, X),
         cs # "OBJECT", co # 0, start[co] = UNKNOWN,
         NEW m2, \A c \in 0..(X - 1) : m2[c] = m[c], m2[X] = "S",
         NEW start2, \A j \in 1..(co - 1) : start2[j] = start[j], start2[co] = X
  PROVE  Past(m2, start2, end, "OBJECT", co, X + 1)
<1>1. PICK h, n, lev : /\ Line(m, X, h, n) /\ Levels(start, co, lev)
                       /\ Regions(m, start, end, cs, co, X, h, n, lev)
  BY DEF Past
<1> DEFINE lev2 == [j \in 0..co |-> IF j = co THEN lev[co] + 1 ELSE lev[j]]
<1>2. lev2[co] = lev[co] + 1 /\ \A j \in 0..(co - 1) : lev2[j] = lev[j]
  OBVIOUS
<1> HIDE DEF lev2
<1>3. start2[co] # UNKNOWN /\ (co - 1) + 1 = co
  BY DEF UNKNOWN
<1>4. co - 1 \in Nat /\ Levels(start, co - 1, lev) /\ lev[co] = lev[co - 1]
  BY <1>1, LevelsFewer
<1>5. Levels(start2, co, lev2)
  <2>1. Levels(start2, (co - 1) + 1, lev2)
    BY <1>2, <1>3, <1>4, LevelsMore
  <2> QED BY <1>3, <2>1
<1>6. h[X] = lev[co] /\ n[X] = 0
  BY <1>1 DEF Regions, InRun
<1>7. Turn(m2[X], h[X], n[X], lev2[co], InRun("OBJECT"))
  BY <1>2, <1>6 DEF Turn, InRun
<1>8. \A j \in 1..co : j # co => j \in 1..(co - 1) /\ j \in 0..(co - 1)
  OBVIOUS
<1>9. ASSUME NEW j \in 1..co, j # co, start2[j] # UNKNOWN
      PROVE  StaysBegun(j, co, start, lev, start2, lev2) /\ StaysPaused(j, co, cs, end, end)
  BY <1>2, <1>8, <1>9 DEF StaysBegun, StaysPaused
<1>10. ~ m2[X] \in {"s", "f", "F"}
  OBVIOUS
<1>11. \A j \in 1..co : start2[j] # UNKNOWN =>
           \/ StaysBegun(j, co, start, lev, start2, lev2)
           \/ start2[j] = X /\ m2[X] = "S" /\ lev2[j] = h[X] + 1
  BY <1>2, <1>6, <1>9
<1> QED BY <1>1, <1>3, <1>5, <1>7, <1>9, <1>10, <1>11, PastMore

(* The older of two regions has the lower level when the younger is known. *)
LEMMA LevelsBelow ==
  ASSUME NEW start, NEW co \in Nat, NEW lev, Levels(start, co, lev), co # 0, start[co] # UNKNOWN
  PROVE  /\ lev[co] \in Nat /\ lev[co] # 0
         /\ \A j \in 1..co : lev[j] \in Nat /\ (j # co => lev[j] < lev[co])
<1>1. co \in 0..co /\ 0 \in 0..co /\ 0 < co /\ \A j \in 1..co : j \in 0..co /\ (j # co => j < co)
  OBVIOUS
<1> QED BY <1>1 DEF Levels

LEMMA PastAgain ==
  ASSUME NEW m, NEW start, NEW end, NEW cs, NEW co \in Nat, NEW X \in Nat, Past(m, start, end, cs, co, X),
         cs # "OBJECT", co # 0, start[co] # UNKNOWN,
         NEW m2, \A c \in 0..(X - 1) : m2[c] = m[c], m2[X] = "s"
  PROVE  Past(m2, start, end, "OBJECT", co, X + 1)
<1>1. PICK h, n, lev : /\ Line(m, X, h, n) /\ Levels(start, co, lev)
                       /\ Regions(m, start, end, cs, co, X, h, n, lev)
  BY DEF Past
<1>2. /\ lev[co] \in Nat /\ lev[co] # 0
      /\ \A j \in 1..co : lev[j] \in Nat /\ (j # co => lev[j] < lev[co])
  BY <1>1, LevelsBelow
<1>3. h[X] = lev[co] /\ n[X] = 0
  BY <1>1 DEF Regions, InRun
<1>4. Turn(m2[X], h[X], n[X], lev[co], InRun("OBJECT"))
  BY <1>2, <1>3 DEF Turn, InRun
<1>5. \A j \in 1..co : start[j] # UNKNOWN => StaysBegun(j, co, start, lev, start, lev)
  BY DEF StaysBegun
<1>6. \A j \in 1..co : j # co => StaysPaused(j, co, cs, end, end) /\ lev[j] < h[X]
  BY <1>2, <1>3 DEF StaysPaused
<1> QED BY <1>1, <1>4, <1>5, <1>6, PastMore

LEMMA PastPause ==
  ASSUME NEW m, NEW start, NEW end, NEW co \in Nat, NEW X \in Nat, Past(m, start, end, "OBJECT", co, X),
         NEW m2, \A c \in 0..(X - 1) : m2[c] = m[c], m2[X] = "f",
         NEW end2, \A j \in 1..(co - 1) : end2[j] = end[j], end2[co] = X
  PROVE  Past(m2, start, end2, "NONOBJECT", co, X + 1)
<1>1. PICK h, n, lev : /\ Line(m, X, h, n) /\ Levels(start, co, lev)
                       /\ Regions(m, start, end, "OBJECT", co, X, h, n, lev)
  BY DEF Past
<1>2. h[X] = lev[co] /\ n[X] = 1 /\ co # 0 /\ start[co] # UNKNOWN
  BY <1>1 DEF Regions, InRun
<1>3. /\ lev[co] \in Nat /\ lev[co] # 0
      /\ \A j \in 1..co : lev[j] \in Nat /\ (j # co => lev[j] < lev[co])
  BY <1>1, <1>2, LevelsBelow
<1>4. Turn(m2[X], h[X], n[X], lev[co], InRun("NONOBJECT"))
  BY <1>2, <1>3 DEF Turn, InRun
<1>5. \A j \in 1..co : start[j] # UNKNOWN => StaysBegun(j, co, start, lev, start, lev)
  BY DEF StaysBegun
<1>6. \A j \in 1..co : j # co => j \in 1..(co - 1)
  OBVIOUS
<1>7. \A j \in 1..co : j # co => StaysPaused(j, co, "OBJECT", end, end2) /\ lev[j] < h[X]
  BY <1>2, <1>3, <1>6 DEF StaysPaused
<1>8. \A j \in 1..co : start[j] # UNKNOWN =>
           /\ StaysBegun(j, co, start, lev, start, lev)
           /\ \/ StaysPaused(j, co, "OBJECT", end, end2) /\ (m2[X] \in {"s", "f", "F"} => lev[j] < h[X])
              \/ end2[j] = X /\ m2[X] = "f" /\ lev[j] = h[X]
  BY <1>2, <1>5, <1>7
<1> QED BY <1>1, <1>4, <1>5, <1>8, PastMore

LEMMA PastClose ==
  ASSUME NEW m, NEW start, NEW end, NEW co \in Nat, NEW X \in Nat, Past(m, start, end, "OBJECT", co, X),
         NEW m2, \A c \in 0..(X - 1) : m2[c] = m[c], m2[X] = "F"
  PROVE  Past(m2, start, end, "NONOBJECT", co - 1, X + 1)
<1>1. PICK h, n, lev : /\ Line(m, X, h, n) /\ Levels(start, co, lev)
                       /\ Regions(m, start, end, "OBJECT", co, X, h, n, lev)
  BY DEF Past
<1>2. h[X] = lev[co] /\ n[X] = 1 /\ co # 0 /\ start[co] # UNKNOWN
  BY <1>1 DEF Regions, InRun
<1>3. /\ lev[co] \in Nat /\ lev[co] # 0
      /\ \A j \in 1..co : lev[j] \in Nat /\ (j # co => lev[j] < lev[co])
  BY <1>1, <1>2, LevelsBelow
<1>4. co - 1 \in Nat /\ Levels(start, co - 1, lev) /\ lev[co] = lev[co - 1] + 1 /\ lev[co - 1] \in Nat
  BY <1>1, <1>2, LevelsFewer
<1>5. Turn(m2[X], h[X], n[X], lev[co - 1], InRun("NONOBJECT"))
  BY <1>2, <1>3, <1>4 DEF Turn, InRun
<1>6. \A j \in 1..(co - 1) : j \in 1..co /\ j # co
  OBVIOUS
<1>7. \A j \in 1..(co - 1) : start[j] # UNKNOWN =>
           /\ StaysBegun(j, co, start, lev, start, lev)
           /\ StaysPaused(j, co, "OBJECT", end, end) /\ lev[j] < h[X]
  BY <1>2, <1>3, <1>6 DEF StaysBegun, StaysPaused
<1>8. ~ "NONOBJECT" = "OBJECT"
  OBVIOUS
<1> QED BY <1>1, <1>4, <1>5, <1>7, <1>8, PastMore

(* Markers not yet written do not matter. *)
LEMMA PastSame ==
  ASSUME NEW m, NEW start, NEW end, NEW cs, NEW co \in Nat, NEW X \in Nat, Past(m, start, end, cs, co, X),
         NEW m2, \A c \in 0..(X - 1) : m2[c] = m[c]
  PROVE  Past(m2, start, end, cs, co, X)
<1>1. PICK h, n, lev : /\ Line(m, X, h, n) /\ Levels(start, co, lev)
                       /\ Regions(m, start, end, cs, co, X, h, n, lev)
  BY DEF Past
<1>2. Line(m2, X, h, n)
  BY <1>1 DEF Line
<1>3. ASSUME NEW j \in 1..co, Begun(j, m, start, X, h, lev)
      PROVE  Begun(j, m2, start, X, h, lev)
  BY <1>3 DEF Begun
<1>4. ASSUME NEW j \in 1..co, start[j] \in 0..(X - 1), Paused(j, m, start, end, X, h, lev)
      PROVE  Paused(j, m2, start, end, X, h, lev)
  <2>1. \A c \in (end[j] + 1)..(X - 1) : c \in 0..(X - 1)
    BY <1>4 DEF Paused
  <2> QED BY <1>4, <2>1 DEF Paused
<1>5. \A j \in 1..co : Begun(j, m, start, X, h, lev) => start[j] \in 0..(X - 1)
  BY DEF Begun
<1>6. Regions(m2, start, end, cs, co, X, h, n, lev)
  BY <1>1, <1>3, <1>4, <1>5 DEF Regions
<1> QED BY <1>1, <1>2, <1>6 DEF Past

(* Where a region that is known on this line began, and where it was left. *)
LEMMA PastKnown ==
  ASSUME NEW m, NEW start, NEW end, NEW cs, NEW co \in Nat, NEW X \in Nat, Past(m, start, end, cs, co, X)
  PROVE  /\ cs = "OBJECT" => co # 0 /\ start[co] # UNKNOWN
         /\ co # 0 /\ start[co] # UNKNOWN => start[co] \in 0..(X - 1)
         /\ co # 0 /\ start[co] # UNKNOWN /\ cs # "OBJECT" => end[co] \in 0..(X - 1)
<1>1. PICK h, n, lev : /\ Line(m, X, h, n) /\ Levels(start, co, lev)
                       /\ Regions(m, start, end, cs, co, X, h, n, lev)
  BY DEF Past
<1>2. cs = "OBJECT" => co # 0 /\ start[co] # UNKNOWN
  BY <1>1 DEF Regions
<1>3. ASSUME co # 0, start[co] # UNKNOWN
      PROVE  /\ start[co] \in 0..(X - 1)
             /\ cs # "OBJECT" => end[co] \in 0..(X - 1)
  <2>1. co \in 1..co
    BY <1>3
  <2> QED BY <1>1, <1>3, <2>1 DEF Regions, Begun, Paused
<1> QED BY <1>2, <1>3

(* A line begins with nothing known of it. *)
LEMMA PastStart ==
  ASSUME NEW m, NEW start, NEW end PROVE Past(m, start, end, "NONOBJECT", 0, 0)
<1> DEFINE z == [c \in 0..0 |-> 0]
<1>1. z[0] = 0 /\ (\A c \in 0..0 : z[c] = 0) /\ 0..(0 - 1) = {} /\ 1..0 = {} /\ \A c \in 0..0 : c = 0
  OBVIOUS
<1> HIDE DEF z
<1>2. Line(m, 0, z, z)
  BY <1>1 DEF Line
<1>3. Levels(start, 0, z)
  BY <1>1 DEF Levels
<1>4. Regions(m, start, end, "NONOBJECT", 0, 0, z, z, z)
  BY <1>1 DEF Regions, InRun
<1> QED BY <1>2, <1>3, <1>4 DEF Past

-----------------------------------------------------------------------------
(* The line above: regions are opened, joined, handed over and suspended *)

LEMMA PastPush ==
  ASSUME NEW m, NEW start, NEW end, NEW cs, NEW co \in Nat, NEW X \in Nat, Past(m, start, end, cs, co, X),
         cs # "OBJECT",
         NEW start2, \A j \in 1..co : start2[j] = start[j], start2[co + 1] = UNKNOWN
  PROVE  Past(m, start2, end, cs, co + 1, X)
<1>1. PICK h, n, lev : /\ Line(m, X, h, n) /\ Levels(start, co, lev)
                       /\ Regions(m, start, end, cs, co, X, h, n, lev)
  BY DEF Past
<1> DEFINE lev2 == [j \in 0..(co + 1) |-> IF j = co + 1 THEN lev[co] ELSE lev[j]]
<1>2. lev2[co + 1] = lev[co] /\ \A j \in 0..co : lev2[j] = lev[j]
  OBVIOUS
<1> HIDE DEF lev2
<1>3. co + 1 # 0 /\ co + 1 \in Nat
  OBVIOUS
<1>4. Levels(start2, co + 1, lev2)
  BY <1>1, <1>2, <1>3, LevelsMore
<1>5. \A j \in 1..(co + 1) : j # co + 1 => j \in 1..co /\ j \in 0..co
  OBVIOUS
<1>6. ASSUME NEW j \in 1..(co + 1), start2[j] # UNKNOWN
      PROVE  Begun(j, m, start2, X, h, lev2) /\ Paused(j, m, start2, end, X, h, lev2)
  <2>1. j # co + 1
    BY <1>6
  <2>2. j \in 1..co /\ start2[j] = start[j] /\ lev2[j] = lev[j]
    BY <1>2, <1>5, <2>1
  <2>3. Begun(j, m, start, X, h, lev) /\ Paused(j, m, start, end, X, h, lev)
    BY <1>1, <1>6, <2>2 DEF Regions
  <2> QED BY <2>2, <2>3 DEF Begun, Paused
<1>7. Regions(m, start2, end, cs, co + 1, X, h, n, lev2)
  BY <1>1, <1>2, <1>6 DEF Regions
<1> QED BY <1>1, <1>4, <1>7 DEF Past

LEMMA PastDrop ==
  ASSUME NEW m, NEW start, NEW end, NEW cs, NEW co \in Nat, NEW X \in Nat, Past(m, start, end, cs, co, X),
         cs # "OBJECT", co # 0, start[co] = UNKNOWN
  PROVE  Past(m, start, end, cs, co - 1, X)
<1>1. PICK h, n, lev : /\ Line(m, X, h, n) /\ Levels(start, co, lev)
                       /\ Regions(m, start, end, cs, co, X, h, n, lev)
  BY DEF Past
<1>2. co - 1 \in Nat /\ Levels(start, co - 1, lev) /\ lev[co] = lev[co - 1]
  BY <1>1, LevelsFewer
<1>3. \A j \in 1..(co - 1) : j \in 1..co
  OBVIOUS
<1>4. Regions(m, start, end, cs, co - 1, X, h, n, lev)
  BY <1>1, <1>2, <1>3 DEF Regions
<1> QED BY <1>1, <1>2, <1>4 DEF Past

(* The innermost region is joined to one not met on this line before. *)
LEMMA PastUnite ==
  ASSUME NEW m, NEW start, NEW end, NEW co \in Nat, NEW X \in Nat, Past(m, start, end, "OBJECT", co, X),
         co - 1 # 0, start[co - 1] = UNKNOWN,
         NEW start2, \A j \in 1..(co - 2) : start2[j] = start[j], start2[co - 1] = start[co]
  PROVE  Past(m, start2, end, "OBJECT", co - 1, X)
<1>1. PICK h, n, lev : /\ Line(m, X, h, n) /\ Levels(start, co, lev)
                       /\ Regions(m, start, end, "OBJECT", co, X, h, n, lev)
  BY DEF Past
<1>2. h[X] = lev[co] /\ n[X] = 1 /\ co # 0 /\ start[co] # UNKNOWN
  BY <1>1 DEF Regions, InRun
<1>3. co - 1 \in Nat /\ Levels(start, co - 1, lev) /\ lev[co] = lev[co - 1] + 1
  BY <1>1, <1>2, LevelsFewer
<1>4. (co - 1) - 1 \in Nat /\ Levels(start, (co - 1) - 1, lev) /\ lev[co - 1] = lev[(co - 1) - 1]
  BY <1>3, LevelsFewer
<1>5. (co - 1) - 1 = co - 2 /\ (co - 2) + 1 = co - 1 /\ co - 2 \in Nat
  BY <1>4
<1> DEFINE lev2 == [j \in 0..(co - 1) |-> IF j = co - 1 THEN lev[co] ELSE lev[j]]
<1>6. lev2[co - 1] = lev[co] /\ \A j \in 0..(co - 2) : lev2[j] = lev[j]
  BY <1>3, <1>5
<1> HIDE DEF lev2
<1>7. Levels(start2, co - 1, lev2)
  <2>1. Levels(start, co - 2, lev) /\ lev[co] = lev[co - 2] + 1
    BY <1>3, <1>4, <1>5
  <2>2. lev2[(co - 2) + 1] = IF start2[(co - 2) + 1] = UNKNOWN THEN lev[co - 2] ELSE lev[co - 2] + 1
    BY <1>2, <1>5, <1>6, <2>1
  <2>3. Levels(start2, (co - 2) + 1, lev2)
    BY <1>5, <1>6, <2>1, <2>2, LevelsMore
  <2> QED BY <1>5, <2>3
<1>8. \A j \in 1..(co - 1) : j # co - 1 => j \in 1..(co - 2) /\ j \in 0..(co - 2) /\ j \in 1..co /\ j # co
  OBVIOUS
<1>9. ASSUME NEW j \in 1..(co - 1), j # co - 1, start2[j] # UNKNOWN
      PROVE  Begun(j, m, start2, X, h, lev2) /\ Paused(j, m, start2, end, X, h, lev2)
  <2>1. j \in 1..co /\ j # co /\ start2[j] = start[j] /\ lev2[j] = lev[j]
    BY <1>6, <1>8, <1>9
  <2>2. Begun(j, m, start, X, h, lev) /\ Paused(j, m, start, end, X, h, lev)
    BY <1>1, <1>9, <2>1 DEF Regions
  <2> QED BY <2>1, <2>2 DEF Begun, Paused
<1>10. Begun(co - 1, m, start2, X, h, lev2)
  <2>1. co \in 1..co
    BY <1>2
  <2>2. Begun(co, m, start, X, h, lev)
    BY <1>1, <1>2, <2>1 DEF Regions
  <2> QED BY <1>6, <2>2 DEF Begun
<1>11. Regions(m, start2, end, "OBJECT", co - 1, X, h, n, lev2)
  BY <1>2, <1>6, <1>9, <1>10 DEF Regions, InRun
<1> QED BY <1>1, <1>7, <1>11 DEF Past

-----------------------------------------------------------------------------
(* A marker of this line is written again: the segments after it lie in one  *)
(* region less                                                               *)

Lower(h, P, h2, X) == \A c \in 0..X : h2[c] = IF c <= P THEN h[c] ELSE h[c] - 1

LEMMA LineLower ==
  ASSUME NEW m, NEW X \in Nat, NEW h, NEW n, Line(m, X, h, n),
         NEW P \in 0..(X - 1), NEW m2, \A c \in 0..(X - 1) : c # P => m2[c] = m[c],
         NEW h2, Lower(h, P, h2, X),
         \A c \in (P + 1)..X : h[c] >= 1,
         \A c \in (P + 1)..(X - 1) : m[c] \in {"s", "F"} => h[c] >= 2,
         Turn(m2[P], h[P], n[P], h[P + 1] - 1, n[P + 1])
  PROVE  Line(m2, X, h2, n)
<1>1. /\ h[0] = 0 /\ n[0] = 0 /\ (\A c \in 0..X : h[c] \in Nat)
      /\ \A c \in 0..(X - 1) : Turn(m[c], h[c], n[c], h[c + 1], n[c + 1])
  BY DEF Line
<1>2. h2[0] = 0
  BY <1>1 DEF Lower
<1>3. ASSUME NEW c \in 0..X PROVE h2[c] \in Nat
  BY <1>1 DEF Lower
<1>4. ASSUME NEW c \in 0..(X - 1) PROVE Turn(m2[c], h2[c], n[c], h2[c + 1], n[c + 1])
  <2>0. c \in 0..X /\ c + 1 \in 0..X /\ h[c] \in Nat /\ h[c + 1] \in Nat
    BY <1>1
  <2>1. CASE c < P
    <3>1. h2[c] = h[c] /\ h2[c + 1] = h[c + 1] /\ m2[c] = m[c]
      BY <2>0, <2>1 DEF Lower
    <3> QED BY <1>1, <3>1
  <2>2. CASE c = P
    <3>1. h2[P] = h[P] /\ h2[P + 1] = h[P + 1] - 1
      BY <2>0, <2>2 DEF Lower
    <3> QED BY <2>2, <3>1
  <2>3. CASE P < c
    <3>1. h2[c] = h[c] - 1 /\ h2[c + 1] = h[c + 1] - 1 /\ m2[c] = m[c]
      BY <2>0, <2>3 DEF Lower
    <3>2. Turn(m[c], h[c], n[c], h[c + 1], n[c + 1]) /\ (m[c] \in {"s", "F"} => h[c] >= 2)
      BY <1>1, <2>3
    <3> QED BY <2>0, <3>1, <3>2 DEF Turn
  <2> QED BY <2>1, <2>2, <2>3
<1> QED BY <1>1, <1>2, <1>3, <1>4 DEF Line

(* The other regions of the line, when those after P lie lower. *)
LEMMA RegionsLower ==
  ASSUME NEW m, NEW start, NEW end, NEW X \in Nat, NEW h, NEW lev, NEW top \in Nat,
         \A c \in 0..X : h[c] \in Nat,
         NEW P \in 0..(X - 1), NEW m2, \A c \in 0..(X - 1) : c # P => m2[c] = m[c],
         NEW h2, Lower(h, P, h2, X), \A c \in (P + 1)..X : h[c] >= top,
         NEW j, lev[j] \in Nat, lev[j] < top, Begun(j, m, start, X, h, lev), start[j] # P
  PROVE  /\ Begun(j, m2, start, X, h2, lev)
         /\ /\ Paused(j, m, start, end, X, h, lev) /\ end[j] # P
            /\ m2[P] \in {"s", "f", "F"} => lev[j] < h[P]
            /\ \A c \in (P + 1)..(X - 1) : m[c] \in {"s", "f", "F"} => lev[j] + 1 < h[c]
            => Paused(j, m2, start, end, X, h2, lev)
<1>1. /\ start[j] \in 0..(X - 1) /\ m[start[j]] = "S" /\ h[start[j]] + 1 = lev[j]
      /\ \A c \in (start[j] + 1)..X : lev[j] <= h[c]
  BY DEF Begun
<1>2. h[start[j]] \in Nat /\ start[j] < P /\ start[j] \in 0..X
  <2>1. start[j] \in 0..X /\ h[start[j]] \in Nat
    BY <1>1
  <2>2. ~ start[j] \in (P + 1)..X
    BY <1>1, <2>1
  <2> QED BY <1>1, <2>1, <2>2
<1>3. m2[start[j]] = "S" /\ h2[start[j]] = h[start[j]]
  BY <1>1, <1>2 DEF Lower
<1>4. ASSUME NEW c \in (start[j] + 1)..X PROVE lev[j] <= h2[c]
  <2>1. c \in 0..X /\ h[c] \in Nat /\ lev[j] <= h[c]
    BY <1>1
  <2>2. c <= P => h2[c] = h[c]
    BY <2>1 DEF Lower
  <2>3. ~(c <= P) => h2[c] = h[c] - 1 /\ h[c] >= top
    BY <1>1, <2>1 DEF Lower
  <2> QED BY <2>1, <2>2, <2>3
<1>5. Begun(j, m2, start, X, h2, lev)
  BY <1>1, <1>3, <1>4 DEF Begun
<1>6. ASSUME Paused(j, m, start, end, X, h, lev), end[j] # P,
             m2[P] \in {"s", "f", "F"} => lev[j] < h[P],
             \A c \in (P + 1)..(X - 1) : m[c] \in {"s", "f", "F"} => lev[j] + 1 < h[c]
      PROVE  Paused(j, m2, start, end, X, h2, lev)
  <2>1. /\ end[j] \in 0..(X - 1) /\ start[j] < end[j] /\ m[end[j]] = "f" /\ h[end[j]] = lev[j]
        /\ \A c \in (end[j] + 1)..(X - 1) : m[c] \in {"s", "f", "F"} => lev[j] < h[c]
    BY <1>6 DEF Paused
  <2>2. end[j] < P /\ end[j] \in 0..X
    <3>1. ~ end[j] \in (P + 1)..X
      BY <2>1
    <3> QED BY <1>6, <2>1, <3>1
  <2>3. m2[end[j]] = "f" /\ h2[end[j]] = lev[j]
    BY <2>1, <2>2 DEF Lower
  <2>4. ASSUME NEW c \in (end[j] + 1)..(X - 1), m2[c] \in {"s", "f", "F"} PROVE lev[j] < h2[c]
    <3>0. c \in 0..X /\ c \in 0..(X - 1) /\ h[c] \in Nat
      BY <2>1
    <3>1. CASE c < P
      BY <2>1, <2>4, <3>0, <3>1 DEF Lower
    <3>2. CASE c = P
      BY <1>6, <2>4, <3>0, <3>2 DEF Lower
    <3>3. CASE P < c
      <4>1. c \in (P + 1)..(X - 1) /\ m2[c] = m[c] /\ h2[c] = h[c] - 1
        BY <3>0, <3>3 DEF Lower
      <4> QED BY <1>6, <2>4, <3>0, <4>1
    <3> QED BY <3>0, <3>1, <3>2, <3>3
  <2> QED BY <2>1, <2>3, <2>4 DEF Paused
<1> QED BY <1>5, <1>6

(* The innermost region is joined to another begun on this line: it goes on  *)
(* where the innermost began.                                                *)
LEMMA PastJoin ==
  ASSUME NEW m, NEW start, NEW end, NEW co \in Nat, NEW X \in Nat, Past(m, start, end, "OBJECT", co, X),
         co - 1 # 0, start[co - 1] # UNKNOWN,
         NEW m2, \A c \in 0..(X - 1) : c # start[co] => m2[c] = m[c], m2[start[co]] = "s"
  PROVE  Past(m2, start, end, "OBJECT", co - 1, X)
<1>1. PICK h, n, lev : /\ Line(m, X, h, n) /\ Levels(start, co, lev)
                       /\ Regions(m, start, end, "OBJECT", co, X, h, n, lev)
  BY DEF Past
<1>2. PICK P : P = start[co]
  OBVIOUS
<1>3. h[X] = lev[co] /\ n[X] = 1 /\ co # 0 /\ start[co] # UNKNOWN /\ co \in 1..co
  BY <1>1 DEF Regions, InRun
<1>4. co - 1 \in Nat /\ Levels(start, co - 1, lev) /\ lev[co] = lev[co - 1] + 1 /\ lev[co - 1] \in Nat
  BY <1>1, <1>3, LevelsFewer
<1>5. /\ lev[co] \in Nat
      /\ \A j \in 1..co : lev[j] \in Nat /\ (j # co => lev[j] < lev[co])
  BY <1>1, <1>3, LevelsBelow
<1>6. /\ lev[co - 1] # 0
      /\ \A j \in 1..(co - 1) : j # co - 1 => lev[j] < lev[co - 1]
  BY <1>4, LevelsBelow
<1>7. P \in 0..(X - 1) /\ m[P] = "S" /\ h[P] + 1 = lev[co] /\ \A c \in (P + 1)..X : lev[co] <= h[c]
  <2>1. Begun(co, m, start, X, h, lev)
    BY <1>1, <1>3 DEF Regions
  <2> QED BY <1>2, <2>1 DEF Begun
<1>8. (\A c \in 0..X : h[c] \in Nat) /\ \A c \in 0..(X - 1) : Turn(m[c], h[c], n[c], h[c + 1], n[c + 1])
  BY <1>1 DEF Line
<1> DEFINE h2 == [c \in 0..X |-> IF c <= P THEN h[c] ELSE h[c] - 1]
<1>9. Lower(h, P, h2, X)
  BY DEF Lower
<1> HIDE DEF h2
<1>10. h2[X] = lev[co - 1]
  <2>1. X \in 0..X /\ ~(X <= P)
    BY <1>7
  <2> QED BY <1>3, <1>4, <1>9, <2>1 DEF Lower
<1>11. \A c \in (P + 1)..X : h[c] \in Nat /\ h[c] >= lev[co] /\ h[c] >= 2
  <2>1. ASSUME NEW c \in (P + 1)..X PROVE h[c] \in Nat /\ h[c] >= lev[co]
    <3>1. c \in 0..X
      BY <1>7
    <3> QED BY <1>5, <1>7, <1>8, <3>1
  <2> QED BY <1>4, <1>5, <1>6, <2>1
<1>12. Line(m2, X, h2, n)
  <2>1. Turn("S", h[P], n[P], h[P + 1], n[P + 1]) /\ h[P] \in Nat /\ P + 1 \in 0..X
    BY <1>7, <1>8
  <2>2. Turn(m2[P], h[P], n[P], h[P + 1] - 1, n[P + 1])
    BY <1>2, <1>4, <1>6, <1>7, <2>1 DEF Turn
  <2>3. (\A c \in (P + 1)..X : h[c] >= 1) /\ \A c \in (P + 1)..(X - 1) : m[c] \in {"s", "F"} => h[c] >= 2
    BY <1>11
  <2> QED BY <1>1, <1>2, <1>7, <1>9, <2>2, <2>3, LineLower
<1>13. ASSUME NEW j \in 1..(co - 1), start[j] # UNKNOWN
       PROVE  /\ Begun(j, m2, start, X, h2, lev)
              /\ j # co - 1 => Paused(j, m2, start, end, X, h2, lev)
  <2>1. j \in 1..co /\ j # co
    OBVIOUS
  <2>2. Begun(j, m, start, X, h, lev) /\ Paused(j, m, start, end, X, h, lev)
    BY <1>1, <1>13, <2>1 DEF Regions
  <2>3. start[j] # P
    BY <1>5, <1>7, <1>8, <2>1, <2>2 DEF Begun
  <2>4. end[j] # P
    BY <1>7, <2>2 DEF Paused
  <2>5. lev[j] \in Nat /\ lev[j] < lev[co]
    BY <1>5, <2>1
  <2>6. j # co - 1 => lev[j] < h[P]
    BY <1>4, <1>6, <1>7, <1>8, <2>5
  <2>7. ASSUME j # co - 1 PROVE \A c \in (P + 1)..(X - 1) : lev[j] + 1 < h[c]
    <3>1. lev[j] + 1 < lev[co]
      BY <1>4, <1>6, <2>5, <2>7
    <3> QED BY <1>5, <1>11, <2>5, <3>1
  <2>8. \A c \in (P + 1)..X : h[c] >= lev[co]
    BY <1>11
  <2> QED BY <1>2, <1>5, <1>7, <1>8, <1>9, <2>2, <2>3, <2>4, <2>5, <2>6, <2>7, <2>8, RegionsLower
<1>14. Regions(m2, start, end, "OBJECT", co - 1, X, h2, n, lev)
  BY <1>3, <1>10, <1>13 DEF Regions, InRun
<1> QED BY <1>4, <1>12, <1>14 DEF Past

(* The innermost region ends where its last segment did: it is left to the   *)
(* next line.                                                                *)
LEMMA PastSuspend ==
  ASSUME NEW m, NEW start, NEW end, NEW co \in Nat, NEW X \in Nat, Past(m, start, end, "NONOBJECT", co, X),
         co # 0, start[co] # UNKNOWN,
         NEW m2, \A c \in 0..(X - 1) : c # end[co] => m2[c] = m[c], m2[end[co]] = "F"
  PROVE  Past(m2, start, end, "NONOBJECT", co - 1, X)
<1>1. PICK h, n, lev : /\ Line(m, X, h, n) /\ Levels(start, co, lev)
                       /\ Regions(m, start, end, "NONOBJECT", co, X, h, n, lev)
  BY DEF Past
<1>2. PICK P : P = end[co]
  OBVIOUS
<1>3. h[X] = lev[co] /\ n[X] = 0 /\ co \in 1..co
  BY <1>1 DEF Regions, InRun
<1>4. co - 1 \in Nat /\ Levels(start, co - 1, lev) /\ lev[co] = lev[co - 1] + 1 /\ lev[co - 1] \in Nat
  BY <1>1, LevelsFewer
<1>5. /\ lev[co] \in Nat /\ lev[co] # 0
      /\ \A j \in 1..co : lev[j] \in Nat /\ (j # co => lev[j] < lev[co])
  BY <1>1, <1>3, LevelsBelow
<1>6. /\ start[co] \in 0..(X - 1) /\ \A c \in (start[co] + 1)..X : lev[co] <= h[c]
  <2>1. Begun(co, m, start, X, h, lev)
    BY <1>1, <1>3 DEF Regions
  <2> QED BY <2>1 DEF Begun
<1>7. /\ P \in 0..(X - 1) /\ start[co] < P /\ m[P] = "f" /\ h[P] = lev[co]
      /\ \A c \in (P + 1)..(X - 1) : m[c] \in {"s", "f", "F"} => lev[co] < h[c]
  <2>1. Paused(co, m, start, end, X, h, lev)
    BY <1>1, <1>3 DEF Regions
  <2> QED BY <1>2, <2>1 DEF Paused
<1>8. (\A c \in 0..X : h[c] \in Nat) /\ \A c \in 0..(X - 1) : Turn(m[c], h[c], n[c], h[c + 1], n[c + 1])
  BY <1>1 DEF Line
<1> DEFINE h2 == [c \in 0..X |-> IF c <= P THEN h[c] ELSE h[c] - 1]
<1>9. Lower(h, P, h2, X)
  BY DEF Lower
<1> HIDE DEF h2
<1>10. h2[X] = lev[co - 1]
  <2>1. X \in 0..X /\ ~(X <= P)
    BY <1>7
  <2> QED BY <1>3, <1>4, <1>9, <2>1 DEF Lower
<1>11. \A c \in (P + 1)..X : h[c] \in Nat /\ h[c] >= lev[co]
  <2>1. ASSUME NEW c \in (P + 1)..X PROVE h[c] \in Nat /\ h[c] >= lev[co]
    <3>1. c \in 0..X /\ c \in (start[co] + 1)..X
      BY <1>6, <1>7
    <3> QED BY <1>5, <1>6, <1>8, <3>1
  <2> QED BY <2>1
<1>12. Line(m2, X, h2, n)
  <2>1. Turn("f", h[P], n[P], h[P + 1], n[P + 1]) /\ h[P] \in Nat /\ P + 1 \in 0..X
    BY <1>7, <1>8
  <2>2. Turn(m2[P], h[P], n[P], h[P + 1] - 1, n[P + 1])
    BY <1>2, <1>5, <1>7, <2>1 DEF Turn
  <2>3. \A c \in (P + 1)..X : h[c] >= 1
    BY <1>5, <1>11
  <2>4. ASSUME NEW c \in (P + 1)..(X - 1), m[c] \in {"s", "F"} PROVE h[c] >= 2
    <3>1. lev[co] < h[c] /\ h[c] \in Nat
      BY <1>7, <1>11, <2>4
    <3> QED BY <1>5, <3>1
  <2> QED BY <1>1, <1>2, <1>7, <1>9, <2>2, <2>3, <2>4, LineLower
<1>13. ASSUME NEW j \in 1..(co - 1), start[j] # UNKNOWN
       PROVE  Begun(j, m2, start, X, h2, lev) /\ Paused(j, m2, start, end, X, h2, lev)
  <2>1. j \in 1..co /\ j # co
    OBVIOUS
  <2>2. Begun(j, m, start, X, h, lev) /\ Paused(j, m, start, end, X, h, lev)
    BY <1>1, <1>13, <2>1 DEF Regions
  <2>3. start[j] # P
    BY <1>7, <2>2 DEF Begun
  <2>5. lev[j] \in Nat /\ lev[j] < lev[co]
    BY <1>5, <2>1
  <2>4. end[j] # P
    BY <1>7, <2>2, <2>5 DEF Paused
  <2>6. lev[j] < h[P]
    BY <1>7, <2>5
  <2>7. ASSUME NEW c \in (P + 1)..(X - 1), m[c] \in {"s", "f", "F"} PROVE lev[j] + 1 < h[c]
    <3>1. lev[co] < h[c] /\ h[c] \in Nat
      BY <1>7, <1>11, <2>7
    <3> QED BY <1>5, <2>5, <3>1
  <2>8. \A c \in (P + 1)..X : h[c] >= lev[co]
    BY <1>11
  <2>9. /\ m2[P] \in {"s", "f", "F"} => lev[j] < h[P]
        /\ \A c \in (P + 1)..(X - 1) : m[c] \in {"s", "f", "F"} => lev[j] + 1 < h[c]
    BY <2>6, <2>7
  <2>10. P \in 0..(X - 1) /\ (\A c \in 0..(X - 1) : c # P => m2[c] = m[c]) /\ lev[co] \in Nat
    BY <1>2, <1>5, <1>7
  <2>11. /\ Begun(j, m2, start, X, h2, lev)
         /\ /\ Paused(j, m, start, end, X, h, lev) /\ end[j] # P
            /\ m2[P] \in {"s", "f", "F"} => lev[j] < h[P]
            /\ \A c \in (P + 1)..(X - 1) : m[c] \in {"s", "f", "F"} => lev[j] + 1 < h[c]
            => Paused(j, m2, start, end, X, h2, lev)
    BY <1>8, <1>9, <2>2, <2>3, <2>5, <2>8, <2>10, RegionsLower, Zenon
  <2> QED BY <2>2, <2>4, <2>9, <2>11
<1>14. Regions(m2, start, end, "NONOBJECT", co - 1, X, h2, n, lev)
  BY <1>3, <1>10, <1>13 DEF Regions, InRun
<1> QED BY <1>4, <1>12, <1>14 DEF Past

-----------------------------------------------------------------------------
(* What the line above has left for the columns from x on *)

Room(h, n, c, w) == 2 * h - n <= w + 1 - c

Rest(m, g, a, x, w) ==
  \E h, n : /\ h[x] = g /\ n[x] = a /\ h[w + 1] = 0 /\ n[w + 1] = 0
            /\ \A c \in x..w : Turn(m[c], h[c], n[c], h[c + 1], n[c + 1])
            /\ \A c \in x..(w + 1) : h[c] \in Nat /\ n[c] \in {0, 1} /\ Room(h[c], n[c], c, w)
            /\ 2 * g - a <= x

LEMMA RestRoom ==
  ASSUME NEW m, NEW g, NEW a, NEW w \in Nat, NEW x \in 0..(w + 1), Rest(m, g, a, x, w)
  PROVE  /\ g \in Nat /\ a \in {0, 1} /\ 2 * g - a <= x /\ 2 * g - a <= w + 1 - x
         /\ x = w + 1 => g = 0 /\ a = 0
<1>1. x \in x..(w + 1)
  OBVIOUS
<1> QED BY <1>1 DEF Rest, Room

LEMMA RestStep ==
  ASSUME NEW m, NEW g, NEW a, NEW w \in Nat, NEW x \in 0..w, Rest(m, g, a, x, w),
         NEW m2, \A c \in (x + 1)..w : m2[c] = m[c]
  PROVE  \E g2, a2 : Turn(m[x], g, a, g2, a2) /\ Rest(m2, g2, a2, x + 1, w)
<1>1. PICK h, n : /\ h[x] = g /\ n[x] = a /\ h[w + 1] = 0 /\ n[w + 1] = 0
                  /\ \A c \in x..w : Turn(m[c], h[c], n[c], h[c + 1], n[c + 1])
                  /\ \A c \in x..(w + 1) : h[c] \in Nat /\ n[c] \in {0, 1} /\ Room(h[c], n[c], c, w)
                  /\ 2 * g - a <= x
  BY DEF Rest
<1>2. x \in x..w /\ x \in x..(w + 1) /\ x + 1 \in x..(w + 1)
  OBVIOUS
<1>3. Turn(m[x], g, a, h[x + 1], n[x + 1])
  BY <1>1, <1>2
<1>4. g \in Nat /\ a \in {0, 1} /\ h[x + 1] \in Nat /\ n[x + 1] \in {0, 1}
  BY <1>1, <1>2
<1>5. 2 * h[x + 1] - n[x + 1] <= x + 1
  BY <1>1, <1>3, <1>4 DEF Turn
<1>6. \A c \in (x + 1)..w : c \in x..w /\ m2[c] = m[c]
  OBVIOUS
<1>7. \A c \in (x + 1)..(w + 1) : c \in x..(w + 1)
  OBVIOUS
<1>8. Rest(m2, h[x + 1], n[x + 1], x + 1, w)
  BY <1>1, <1>5, <1>6, <1>7 DEF Rest
<1> QED BY <1>3, <1>8

(* A line that is done leaves room for its segments, wherever it is read. *)
LEMMA WordRoom ==
  ASSUME NEW m, NEW w \in Nat, NEW h, NEW n, Line(m, w + 1, h, n), h[w + 1] = 0, n[w + 1] = 0
  PROVE  \A c \in 0..(w + 1) : n[c] \in {0, 1} /\ Room(h[c], n[c], c, w)
<1> DEFINE Good(c) == n[c] \in {0, 1} /\ Room(h[c], n[c], c, w)
           S == {d \in Nat : d <= w + 1 => Good(w + 1 - d)}
<1>1. (\A c \in 0..(w + 1) : h[c] \in Nat) /\ \A c \in 0..w : Turn(m[c], h[c], n[c], h[c + 1], n[c + 1])
  <2>1. (w + 1) - 1 = w
    OBVIOUS
  <2> QED BY <2>1 DEF Line
<1>2. 0 \in S
  BY DEF Room
<1>3. ASSUME NEW d \in Nat, d \in S PROVE d + 1 \in S
  <2> SUFFICES ASSUME d + 1 <= w + 1 PROVE Good(w + 1 - (d + 1))
    OBVIOUS
  <2>1. PICK c \in 0..w : c = w - d
    OBVIOUS
  <2>2. w + 1 - d = c + 1 /\ w + 1 - (d + 1) = c /\ c \in 0..(w + 1)
    BY <2>1
  <2>3. n[c + 1] \in {0, 1} /\ 2 * h[c + 1] - n[c + 1] <= w - c
    <3>1. Good(c + 1)
      BY <1>3, <2>2
    <3> QED BY <3>1, <2>1 DEF Room
  <2>4. Turn(m[c], h[c], n[c], h[c + 1], n[c + 1]) /\ h[c] \in Nat /\ h[c + 1] \in Nat
    BY <1>1, <2>2
  <2>5. Good(c)
    BY <2>3, <2>4 DEF Turn, Room
  <2> QED BY <2>2, <2>5
<1>4. Nat \subseteq S
  <2> HIDE DEF S
  <2> QED BY <1>2, <1>3, NatSetInduction
<1>5. ASSUME NEW c \in 0..(w + 1) PROVE Good(c)
  <2>1. w + 1 - c \in Nat /\ w + 1 - c <= w + 1 /\ w + 1 - (w + 1 - c) = c
    OBVIOUS
  <2> QED BY <1>4, <2>1
<1> QED BY <1>5

LEMMA RestNew ==
  ASSUME NEW m, NEW start, NEW end, NEW w \in Nat, Past(m, start, end, "NONOBJECT", 0, w + 1)
  PROVE  Rest(m, 0, 0, 0, w)
<1>1. PICK h, n, lev : /\ Line(m, w + 1, h, n) /\ Levels(start, 0, lev)
                       /\ Regions(m, start, end, "NONOBJECT", 0, w + 1, h, n, lev)
  BY DEF Past
<1>2. h[w + 1] = 0 /\ n[w + 1] = 0 /\ (w + 1) - 1 = w
  BY <1>1 DEF Levels, Regions, InRun
<1>3. \A c \in 0..(w + 1) : n[c] \in {0, 1} /\ Room(h[c], n[c], c, w)
  BY <1>1, <1>2, WordRoom
<1> QED BY <1>1, <1>2, <1>3 DEF Line, Rest

-----------------------------------------------------------------------------
(* What the parts of the loop body do to a line *)

LineFields == {"x", "marker", "start", "end", "psstack", "co", "ps", "cs", "wild"}

HasLine(s, w) ==
  /\ LineFields \subseteq DOMAIN s
  /\ DOMAIN s.marker = 0..w /\ DOMAIN s.start = 0..w /\ DOMAIN s.end = 0..w

Becomes(s, t, marker, start, end, st, co, ps, cs) ==
  /\ DOMAIN t = DOMAIN s /\ t.x = s.x /\ t.wild = s.wild
  /\ t.marker = marker /\ t.start = start /\ t.end = end
  /\ t.psstack = st /\ t.co = co /\ t.ps = ps /\ t.cs = cs

Same(s, t) == Becomes(s, t, s.marker, s.start, s.end, s.psstack, s.co, s.ps, s.cs)

LEMMA SameSame ==
  ASSUME NEW r, NEW s, NEW t, Same(r, s), Same(s, t)
  PROVE  Same(r, t)
BY DEF Same, Becomes

LEMMA TakeCellSame ==
  ASSUME NEW s, LineFields \subseteq DOMAIN s, NEW truncated
  PROVE  Same(s, TakeCell(s, truncated))
BY DEF TakeCell, LineFields, Same, Becomes

LEMMA UpdateSame ==
  ASSUME NEW s, LineFields \subseteq DOMAIN s, NEW i, NEW b
  PROVE  Same(s, Update(s, i, b))
BY DEF Update, LineFields, Same, Becomes

LEMMA CompleteSame ==
  ASSUME NEW s, LineFields \subseteq DOMAIN s, NEW minarea
  PROVE  Same(s, Complete(s, minarea))
BY DEF Complete, LineFields, Same, Becomes

LEMMA CheckedSame ==
  ASSUME NEW s, LineFields \subseteq DOMAIN s, s.wild = FALSE, NEW i, i \in DOMAIN s.marker
  PROVE  Same(s, Checked(s, i))
BY DEF Checked, Column, LineFields, Same, Becomes

LEMMA PushDoes ==
  ASSUME NEW s, LineFields \subseteq DOMAIN s, NEW status0
  PROVE  Becomes(s, Push(s, status0), s.marker, s.start, s.end, Append(s.psstack, status0), s.co, s.ps, s.cs)
BY DEF Push, LineFields, Becomes

LEMMA PoppedDoes ==
  ASSUME NEW s, LineFields \subseteq DOMAIN s
  PROVE  Becomes(s, Popped(s), s.marker, s.start, s.end, SubSeq(s.psstack, 1, Len(s.psstack) - 1),
                 s.co, s.ps, s.cs)
BY DEF Popped, LineFields, Becomes

LEMMA PopDoes ==
  ASSUME NEW s, LineFields \subseteq DOMAIN s
  PROVE  Becomes(s, Pop(s), s.marker, s.start, s.end, SubSeq(s.psstack, 1, Len(s.psstack) - 1),
                 s.co, s.psstack[Len(s.psstack)], s.cs)
<1>1. PICK p : p = Popped(s)
  OBVIOUS
<1>2. PICK top : top = s.psstack[Len(s.psstack)]
  OBVIOUS
<1>3. Pop(s) = [p EXCEPT !.ps = top]
  BY <1>1, <1>2 DEF Pop
<1>4. /\ Becomes(s, p, s.marker, s.start, s.end, SubSeq(s.psstack, 1, Len(s.psstack) - 1), s.co, s.ps, s.cs)
  BY <1>1, PoppedDoes
<1>5. Becomes(p, [p EXCEPT !.ps = top], p.marker, p.start, p.end, p.psstack, p.co, top, p.cs)
  BY <1>4 DEF Becomes, LineFields
<1> QED BY <1>2, <1>3, <1>4, <1>5 DEF Becomes

LEMMA StartSegmentDoes ==
  ASSUME NEW s, LineFields \subseteq DOMAIN s, NEW t, t = StartSegment(s)
  PROVE  /\ s.cs = "OBJECT" => Same(s, t)
         /\ s.cs # "OBJECT" /\ s.ps # "OBJECT" =>
              Becomes(s, t, [s.marker EXCEPT ![s.x] = "S"], [s.start EXCEPT ![s.co + 1] = s.x], s.end,
                      Append(s.psstack, s.ps), s.co + 1, "COMPLETE", "OBJECT")
         /\ s.cs # "OBJECT" /\ s.ps = "OBJECT" /\ s.start[s.co] = UNKNOWN =>
              Becomes(s, t, [s.marker EXCEPT ![s.x] = "S"], [s.start EXCEPT ![s.co] = s.x], s.end,
                      s.psstack, s.co, s.ps, "OBJECT")
         /\ s.cs # "OBJECT" /\ s.ps = "OBJECT" /\ s.start[s.co] # UNKNOWN =>
              Becomes(s, t, [s.marker EXCEPT ![s.x] = "s"], s.start, s.end,
                      s.psstack, s.co, s.ps, "OBJECT")
<1>1. PICK r : r = [s EXCEPT !.cs = "OBJECT"]
  OBVIOUS
<1>2. PICK p : p = Push(r, s.ps)
  OBVIOUS
<1>3. Becomes(s, r, s.marker, s.start, s.end, s.psstack, s.co, s.ps, "OBJECT")
  BY <1>1 DEF Becomes, LineFields
<1>4. Becomes(s, p, s.marker, s.start, s.end, Append(s.psstack, s.ps), s.co, s.ps, "OBJECT")
  <2>1. LineFields \subseteq DOMAIN r
    BY <1>3 DEF Becomes
  <2> QED BY <1>2, <1>3, <2>1, PushDoes DEF Becomes
<1>5. t = IF s.cs = "OBJECT" THEN s
          ELSE IF s.ps # "OBJECT"
          THEN [p EXCEPT !.marker[s.x] = "S", !.co = s.co + 1, !.start[s.co + 1] = s.x,
                         !.ps = "COMPLETE", !.info[s.co + 1] = Blank]
          ELSE IF s.start[s.co] = UNKNOWN
          THEN [r EXCEPT !.marker[s.x] = "S", !.start[s.co] = s.x]
          ELSE [r EXCEPT !.marker[s.x] = "s"]
  BY <1>1, <1>2 DEF StartSegment
<1>6. ASSUME s.cs = "OBJECT" PROVE Same(s, t)
  BY <1>5, <1>6 DEF Same, Becomes
<1>7. ASSUME s.cs # "OBJECT", s.ps # "OBJECT"
      PROVE  Becomes(s, t, [s.marker EXCEPT ![s.x] = "S"], [s.start EXCEPT ![s.co + 1] = s.x], s.end,
                      Append(s.psstack, s.ps), s.co + 1, "COMPLETE", "OBJECT")
  <2>1. t = [p EXCEPT !.marker[s.x] = "S", !.co = s.co + 1, !.start[s.co + 1] = s.x,
                         !.ps = "COMPLETE", !.info[s.co + 1] = Blank]
    BY <1>5, <1>7
  <2> QED BY <1>4, <2>1 DEF Becomes, LineFields
<1>8. ASSUME s.cs # "OBJECT", s.ps = "OBJECT", s.start[s.co] = UNKNOWN
      PROVE  Becomes(s, t, [s.marker EXCEPT ![s.x] = "S"], [s.start EXCEPT ![s.co] = s.x], s.end,
                      s.psstack, s.co, s.ps, "OBJECT")
  <2>1. t = [r EXCEPT !.marker[s.x] = "S", !.start[s.co] = s.x]
    BY <1>5, <1>8
  <2> QED BY <1>3, <2>1 DEF Becomes, LineFields
<1>9. ASSUME s.cs # "OBJECT", s.ps = "OBJECT", s.start[s.co] # UNKNOWN
      PROVE  Becomes(s, t, [s.marker EXCEPT ![s.x] = "s"], s.start, s.end,
                      s.psstack, s.co, s.ps, "OBJECT")
  <2>1. t = [r EXCEPT !.marker[s.x] = "s"]
    BY <1>5, <1>9
  <2> QED BY <1>3, <2>1 DEF Becomes, LineFields
<1> QED BY <1>6, <1>7, <1>8, <1>9

LEMMA MarkerSDoes ==
  ASSUME NEW s, LineFields \subseteq DOMAIN s, NEW t, t = MarkerS(s)
  PROVE  /\ s.cs = "NONOBJECT" =>
              Becomes(s, t, s.marker, [s.start EXCEPT ![s.co + 1] = UNKNOWN], s.end,
                      Append(Append(s.psstack, s.ps), "COMPLETE"), s.co + 1, "OBJECT", s.cs)
         /\ s.cs # "NONOBJECT" =>
              Becomes(s, t, s.marker, s.start, s.end, Append(s.psstack, s.ps), s.co, "OBJECT", s.cs)
<1>1. PICK p : p = Push(s, s.ps)
  OBVIOUS
<1>2. PICK q : q = Push(p, "COMPLETE")
  OBVIOUS
<1>3. PICK u : u = Update(p, s.co, s.store[s.x])
  OBVIOUS
<1>4. t = IF s.cs = "NONOBJECT"
          THEN [q EXCEPT !.co = s.co + 1, !.info[s.co + 1] = s.store[s.x],
                         !.start[s.co + 1] = UNKNOWN, !.ps = "OBJECT"]
          ELSE [u EXCEPT !.ps = "OBJECT"]
  BY <1>1, <1>2, <1>3 DEF MarkerS
<1>5. /\ LineFields \subseteq DOMAIN p
      /\ Becomes(s, p, s.marker, s.start, s.end, Append(s.psstack, s.ps), s.co, s.ps, s.cs)
  BY <1>1, PushDoes DEF Becomes
<1>6. Becomes(s, q, s.marker, s.start, s.end, Append(Append(s.psstack, s.ps), "COMPLETE"), s.co, s.ps, s.cs)
  BY <1>2, <1>5, PushDoes DEF Becomes
<1>7. Same(p, u)
  BY <1>3, <1>5, UpdateSame
<1>8. ASSUME s.cs = "NONOBJECT"
      PROVE  Becomes(s, t, s.marker, [s.start EXCEPT ![s.co + 1] = UNKNOWN], s.end,
                      Append(Append(s.psstack, s.ps), "COMPLETE"), s.co + 1, "OBJECT", s.cs)
  <2>1. t = [q EXCEPT !.co = s.co + 1, !.info[s.co + 1] = s.store[s.x],
                         !.start[s.co + 1] = UNKNOWN, !.ps = "OBJECT"]
    BY <1>4, <1>8
  <2> QED BY <1>6, <2>1 DEF Becomes, LineFields
<1>9. ASSUME s.cs # "NONOBJECT"
      PROVE  Becomes(s, t, s.marker, s.start, s.end, Append(s.psstack, s.ps), s.co, "OBJECT", s.cs)
  <2>1. t = [u EXCEPT !.ps = "OBJECT"]
    BY <1>4, <1>9
  <2> QED BY <1>5, <1>7, <2>1 DEF Same, Becomes, LineFields
<1> QED BY <1>8, <1>9

LEMMA MarkerInnerDoes ==
  ASSUME NEW s, LineFields \subseteq DOMAIN s, NEW t, t = MarkerInner(s), s.wild = FALSE,
         s.cs = "OBJECT" /\ s.ps = "COMPLETE" => s.start[s.co] \in DOMAIN s.marker
  PROVE  /\ ~(s.cs = "OBJECT" /\ s.ps = "COMPLETE") =>
              Becomes(s, t, s.marker, s.start, s.end, s.psstack, s.co, "OBJECT", s.cs)
         /\ s.cs = "OBJECT" /\ s.ps = "COMPLETE" /\ s.start[s.co - 1] = UNKNOWN =>
              Becomes(s, t, s.marker, [s.start EXCEPT ![s.co - 1] = s.start[s.co]], s.end,
                      SubSeq(s.psstack, 1, Len(s.psstack) - 1), s.co - 1, "OBJECT", s.cs)
         /\ s.cs = "OBJECT" /\ s.ps = "COMPLETE" /\ s.start[s.co - 1] # UNKNOWN =>
              \E start : /\ start = [s.start EXCEPT ![s.co - 1] = @]
                         /\ Becomes(s, t, [s.marker EXCEPT ![s.start[s.co]] = "s"], start, s.end,
                              SubSeq(s.psstack, 1, Len(s.psstack) - 1), s.co - 1, "OBJECT", s.cs)
<1>1. PICK p : p = Popped(s)
  OBVIOUS
<1>2. PICK q : q = Update(p, s.co - 1, s.info[s.co])
  OBVIOUS
<1>3. PICK u : u = Checked(q, s.start[s.co])
  OBVIOUS
<1>4. PICK outer : outer = s.start[s.co - 1]
  OBVIOUS
<1>5. t = IF s.cs = "OBJECT" /\ s.ps = "COMPLETE"
          THEN [u EXCEPT !.co = s.co - 1, !.ps = "OBJECT",
                  !.start[s.co - 1] = IF outer = UNKNOWN THEN s.start[s.co] ELSE @,
                  !.marker = IF outer = UNKNOWN THEN @ ELSE [@ EXCEPT ![s.start[s.co]] = "s"]]
          ELSE [s EXCEPT !.ps = "OBJECT"]
  BY <1>1, <1>2, <1>3, <1>4 DEF MarkerInner
<1>6. ASSUME ~(s.cs = "OBJECT" /\ s.ps = "COMPLETE")
      PROVE  Becomes(s, t, s.marker, s.start, s.end, s.psstack, s.co, "OBJECT", s.cs)
  <2>1. t = [s EXCEPT !.ps = "OBJECT"]
    BY <1>5, <1>6
  <2> QED BY <2>1 DEF Becomes, LineFields
<1>7. ASSUME s.cs = "OBJECT" /\ s.ps = "COMPLETE"
      PROVE  Becomes(s, u, s.marker, s.start, s.end, SubSeq(s.psstack, 1, Len(s.psstack) - 1),
                     s.co, s.ps, s.cs)
  <2>1. /\ LineFields \subseteq DOMAIN p
        /\ Becomes(s, p, s.marker, s.start, s.end, SubSeq(s.psstack, 1, Len(s.psstack) - 1),
                   s.co, s.ps, s.cs)
    BY <1>1, PoppedDoes DEF Becomes
  <2>2. Same(p, q)
    BY <1>2, <2>1, UpdateSame
  <2>3. LineFields \subseteq DOMAIN q /\ q.wild = FALSE /\ q.marker = s.marker
    BY <2>1, <2>2 DEF Same, Becomes
  <2>4. Same(q, u)
    BY <1>3, <1>7, <2>3, CheckedSame
  <2>5. Same(p, u)
    BY <2>2, <2>4, SameSame
  <2> QED BY <2>1, <2>5 DEF Same, Becomes
<1>8. ASSUME s.cs = "OBJECT" /\ s.ps = "COMPLETE", outer = UNKNOWN
      PROVE  Becomes(s, t, s.marker, [s.start EXCEPT ![s.co - 1] = s.start[s.co]], s.end,
                      SubSeq(s.psstack, 1, Len(s.psstack) - 1), s.co - 1, "OBJECT", s.cs)
  <2>1. t = [u EXCEPT !.co = s.co - 1, !.ps = "OBJECT", !.start[s.co - 1] = s.start[s.co], !.marker = @]
    BY <1>5, <1>8
  <2> QED BY <1>7, <1>8, <2>1 DEF Becomes, LineFields
<1>9. ASSUME s.cs = "OBJECT" /\ s.ps = "COMPLETE", outer # UNKNOWN, NEW start, start = [s.start EXCEPT ![s.co - 1] = @]
      PROVE  Becomes(s, t, [s.marker EXCEPT ![s.start[s.co]] = "s"], start, s.end,
                      SubSeq(s.psstack, 1, Len(s.psstack) - 1), s.co - 1, "OBJECT", s.cs)
  <2>1. t = [u EXCEPT !.co = s.co - 1, !.ps = "OBJECT", !.start[s.co - 1] = @,
                      !.marker = [@ EXCEPT ![s.start[s.co]] = "s"]]
    BY <1>5, <1>9
  <2> QED BY <1>7, <1>9, <2>1 DEF Becomes, LineFields
<1> QED BY <1>4, <1>6, <1>8, <1>9

LEMMA SuspendDoes ==
  ASSUME NEW s, LineFields \subseteq DOMAIN s, s.wild = FALSE,
         s.end[s.co] \in DOMAIN s.marker, s.start[s.co] \in DOMAIN s.marker,
         NEW t, t = Suspend(s)
  PROVE  Becomes(s, t, [s.marker EXCEPT ![s.end[s.co]] = "F"], s.start, s.end, s.psstack, s.co, s.ps, s.cs)
<1>1. PICK p : p = Checked(s, s.end[s.co])
  OBVIOUS
<1>2. PICK q : q = Checked(p, s.start[s.co])
  OBVIOUS
<1>3. Same(s, p)
  BY <1>1, CheckedSame
<1>4. LineFields \subseteq DOMAIN p /\ p.wild = FALSE /\ p.marker = s.marker
  BY <1>3 DEF Same, Becomes
<1>5. Same(p, q)
  BY <1>2, <1>4, CheckedSame
<1>6. Same(s, q)
  BY <1>3, <1>5, SameSame
<1>7. t = [q EXCEPT !.marker[s.end[s.co]] = "F", !.store[s.start[s.co]] = s.info[s.co]]
  BY <1>1, <1>2 DEF Suspend
<1> QED BY <1>6, <1>7 DEF Same, Becomes, LineFields

LEMMA MarkerFDoes ==
  ASSUME NEW s, LineFields \subseteq DOMAIN s, s.wild = FALSE, NEW minarea, NEW t, t = MarkerF(s, minarea),
         NEW st2, st2 = SubSeq(s.psstack, 1, Len(s.psstack) - 1),
         NEW top, top = s.psstack[Len(s.psstack)],
         s.cs = "NONOBJECT" /\ top = "COMPLETE" /\ s.start[s.co] # UNKNOWN =>
           s.end[s.co] \in DOMAIN s.marker /\ s.start[s.co] \in DOMAIN s.marker
  PROVE  /\ ~(s.cs = "NONOBJECT" /\ top = "COMPLETE") =>
              Becomes(s, t, s.marker, s.start, s.end, st2, s.co, top, s.cs)
         /\ s.cs = "NONOBJECT" /\ top = "COMPLETE" /\ s.start[s.co] = UNKNOWN =>
              Becomes(s, t, s.marker, s.start, s.end,
                      SubSeq(st2, 1, Len(st2) - 1), s.co - 1, st2[Len(st2)], s.cs)
         /\ s.cs = "NONOBJECT" /\ top = "COMPLETE" /\ s.start[s.co] # UNKNOWN =>
              Becomes(s, t, [s.marker EXCEPT ![s.end[s.co]] = "F"], s.start, s.end,
                      SubSeq(st2, 1, Len(st2) - 1), s.co - 1, st2[Len(st2)], s.cs)
<1>1. PICK p : p = Pop(s)
  OBVIOUS
<1>2. PICK q : q = IF s.start[s.co] = UNKNOWN THEN Complete(p, minarea) ELSE Suspend(p)
  OBVIOUS
<1>3. PICK r : r = [q EXCEPT !.co = s.co - 1]
  OBVIOUS
<1>4. /\ LineFields \subseteq DOMAIN p
      /\ Becomes(s, p, s.marker, s.start, s.end, st2, s.co, top, s.cs)
  BY <1>1, PopDoes DEF Becomes
<1>5. t = IF s.cs = "NONOBJECT" /\ p.ps = "COMPLETE" THEN Pop(r) ELSE p
  BY <1>1, <1>2, <1>3 DEF MarkerF
<1>6. p.ps = top
  BY <1>4 DEF Becomes
<1>7. ASSUME ~(s.cs = "NONOBJECT" /\ top = "COMPLETE")
      PROVE  Becomes(s, t, s.marker, s.start, s.end, st2, s.co, top, s.cs)
  BY <1>4, <1>5, <1>6, <1>7
<1>8. ASSUME NEW marker, Becomes(s, q, marker, s.start, s.end, st2, s.co, top, s.cs),
             s.cs = "NONOBJECT" /\ top = "COMPLETE"
      PROVE  Becomes(s, t, marker, s.start, s.end,
                      SubSeq(st2, 1, Len(st2) - 1), s.co - 1, st2[Len(st2)], s.cs)
  <2>1. /\ LineFields \subseteq DOMAIN r
        /\ Becomes(s, r, marker, s.start, s.end, st2, s.co - 1, top, s.cs)
    BY <1>3, <1>8 DEF Becomes, LineFields
  <2>2. t = Pop(r)
    BY <1>5, <1>6, <1>8
  <2>3. Becomes(r, t, r.marker, r.start, r.end, SubSeq(r.psstack, 1, Len(r.psstack) - 1),
                r.co, r.psstack[Len(r.psstack)], r.cs)
    BY <2>1, <2>2, PopDoes
  <2> QED BY <2>1, <2>3 DEF Becomes
<1>9. ASSUME s.start[s.co] = UNKNOWN
      PROVE  Becomes(s, q, s.marker, s.start, s.end, st2, s.co, top, s.cs)
  <2>1. Same(p, q)
    BY <1>2, <1>4, <1>9, CompleteSame
  <2> QED BY <1>4, <2>1 DEF Same, Becomes
<1>10. ASSUME s.cs = "NONOBJECT" /\ top = "COMPLETE" /\ s.start[s.co] # UNKNOWN
       PROVE  Becomes(s, q, [s.marker EXCEPT ![s.end[s.co]] = "F"], s.start, s.end, st2, s.co, top, s.cs)
  <2>1. q = Suspend(p)
    BY <1>2, <1>10
  <2>2. p.wild = FALSE /\ p.end[p.co] \in DOMAIN p.marker /\ p.start[p.co] \in DOMAIN p.marker
    BY <1>4, <1>10 DEF Becomes
  <2>3. Becomes(p, q, [p.marker EXCEPT ![p.end[p.co]] = "F"], p.start, p.end, p.psstack, p.co, p.ps, p.cs)
    BY <1>4, <2>1, <2>2, SuspendDoes
  <2> QED BY <1>4, <2>3 DEF Becomes
<1> QED BY <1>7, <1>8, <1>9, <1>10

LEMMA EndSegmentDoes ==
  ASSUME NEW s, LineFields \subseteq DOMAIN s, s.wild = FALSE, NEW t, t = EndSegment(s),
         s.cs = "OBJECT" => s.start[s.co] \in DOMAIN s.marker
  PROVE  /\ s.cs # "OBJECT" => Same(s, t)
         /\ s.cs = "OBJECT" /\ s.ps # "COMPLETE" =>
              Becomes(s, t, [s.marker EXCEPT ![s.x] = "f"], s.start, [s.end EXCEPT ![s.co] = s.x],
                      s.psstack, s.co, s.ps, "NONOBJECT")
         /\ s.cs = "OBJECT" /\ s.ps = "COMPLETE" =>
              Becomes(s, t, [s.marker EXCEPT ![s.x] = "F"], s.start, s.end,
                      SubSeq(s.psstack, 1, Len(s.psstack) - 1), s.co - 1,
                      s.psstack[Len(s.psstack)], "NONOBJECT")
<1>1. PICK r : r = [s EXCEPT !.cs = "NONOBJECT"]
  OBVIOUS
<1>2. PICK q : q = Pop(r)
  OBVIOUS
<1>3. PICK p : p = Checked(q, s.start[s.co])
  OBVIOUS
<1>4. t = IF s.cs # "OBJECT" THEN s
          ELSE IF s.ps # "COMPLETE"
          THEN [r EXCEPT !.marker[s.x] = "f", !.end[s.co] = s.x]
          ELSE [p EXCEPT !.marker[s.x] = "F", !.store[s.start[s.co]] = s.info[s.co],
                         !.co = s.co - 1]
  BY <1>1, <1>2, <1>3 DEF EndSegment
<1>5. /\ LineFields \subseteq DOMAIN r
      /\ Becomes(s, r, s.marker, s.start, s.end, s.psstack, s.co, s.ps, "NONOBJECT")
  BY <1>1 DEF Becomes, LineFields
<1>6. ASSUME s.cs = "OBJECT" /\ s.ps # "COMPLETE"
      PROVE  Becomes(s, t, [s.marker EXCEPT ![s.x] = "f"], s.start, [s.end EXCEPT ![s.co] = s.x],
                      s.psstack, s.co, s.ps, "NONOBJECT")
  <2>1. t = [r EXCEPT !.marker[s.x] = "f", !.end[s.co] = s.x]
    BY <1>4, <1>6
  <2> QED BY <1>5, <2>1 DEF Becomes, LineFields
<1>7. ASSUME s.cs = "OBJECT" /\ s.ps = "COMPLETE"
      PROVE  Becomes(s, t, [s.marker EXCEPT ![s.x] = "F"], s.start, s.end,
                      SubSeq(s.psstack, 1, Len(s.psstack) - 1), s.co - 1,
                      s.psstack[Len(s.psstack)], "NONOBJECT")
  <2>1. /\ LineFields \subseteq DOMAIN q /\ q.wild = FALSE /\ q.marker = s.marker
        /\ Becomes(s, q, s.marker, s.start, s.end, SubSeq(s.psstack, 1, Len(s.psstack) - 1), s.co,
                s.psstack[Len(s.psstack)], "NONOBJECT")
    BY <1>2, <1>5, PopDoes DEF Becomes
  <2>2. Same(q, p)
    BY <1>3, <1>7, <2>1, CheckedSame
  <2>3. t = [p EXCEPT !.marker[s.x] = "F", !.store[s.start[s.co]] = s.info[s.co], !.co = s.co - 1]
    BY <1>4, <1>7
  <2> QED BY <2>1, <2>2, <2>3 DEF Same, Becomes, LineFields
<1>8. ASSUME s.cs # "OBJECT" PROVE Same(s, t)
  BY <1>4, <1>8 DEF Same, Becomes
<1> QED BY <1>6, <1>7, <1>8

-----------------------------------------------------------------------------
(* The invariant of a line *)

Inside(s, w) ==
  /\ HasLine(s, w) /\ s.wild = FALSE
  /\ s.x \in 0..w /\ s.co \in 0..w
  /\ s.ps \in Gap \union {"OBJECT"} /\ s.cs \in {"OBJECT", "NONOBJECT"}
  /\ IsStack(s.psstack) /\ Framed(s.psstack, s.ps, s.cs, s.co)

Known(s, X) == Past(s.marker, s.start, s.end, s.cs, s.co, X)

(* The regions of the line above begun and not ended, and being in a segment. *)
Depth(s) == Len(s.psstack) - s.co
Under(s) == IF s.ps = "OBJECT" THEN 1 ELSE 0

(* A table with one entry changed. *)
LEMMA ChangedAt ==
  ASSUME NEW w \in Nat, NEW f, DOMAIN f = 0..w, NEW i \in 0..w, NEW v, NEW g, g = [f EXCEPT ![i] = v]
  PROVE  DOMAIN g = 0..w /\ g[i] = v /\ \A j \in 0..w : j # i => g[j] = f[j]
OBVIOUS

LEMMA StartSegmentKeeps ==
  ASSUME NEW w \in Nat, NEW s, Inside(s, w), Known(s, s.x), s.marker[s.x] = "none",
         s.cs # "OBJECT" /\ s.ps # "OBJECT" => s.co < w,
         NEW t, t = StartSegment(s)
  PROVE  /\ Inside(t, w) /\ Known(t, s.x + 1) /\ t.x = s.x /\ t.cs = "OBJECT"
         /\ Depth(t) = Depth(s) /\ Under(t) = Under(s)
         /\ \A c \in (s.x + 1)..w : t.marker[c] = s.marker[c]
<1>1. PICK x \in 0..w, co \in 0..w : x = s.x /\ co = s.co /\ x \in Nat /\ co \in Nat
  BY DEF Inside
<1>2. /\ LineFields \subseteq DOMAIN s /\ s.wild = FALSE
      /\ DOMAIN s.marker = 0..w /\ DOMAIN s.start = 0..w /\ DOMAIN s.end = 0..w
      /\ s.ps \in Gap \union {"OBJECT"} /\ s.cs \in {"OBJECT", "NONOBJECT"}
      /\ IsStack(s.psstack) /\ Framed(s.psstack, s.ps, s.cs, co)
  BY <1>1 DEF Inside, HasLine
<1>3. Past(s.marker, s.start, s.end, s.cs, co, x)
  BY <1>1 DEF Known
<1>4. /\ 0..(x - 1) \subseteq 0..w /\ (\A c \in 0..(x - 1) : c # x)
      /\ (x + 1)..w \subseteq 0..w /\ (\A c \in (x + 1)..w : c # x)
      /\ 1..co \subseteq 0..w /\ 1..(co - 1) \subseteq 0..w
      /\ (\A j \in 1..co : j # co + 1) /\ (\A j \in 1..(co - 1) : j # co)
  OBVIOUS
<1>5. CASE s.cs = "OBJECT"
  <2>1. Same(s, t)
    BY <1>2, <1>5, StartSegmentDoes
  <2>2. Past(s.marker, s.start, s.end, s.cs, co, x + 1)
    BY <1>1, <1>3, PastNone
  <2> QED BY <1>1, <1>2, <1>5, <2>1, <2>2 DEF Same, Becomes, Inside, HasLine, Known, Depth, Under
<1>6. CASE s.cs # "OBJECT" /\ s.ps # "OBJECT"
  <2>1. PICK m2, start2, st2 : /\ m2 = [s.marker EXCEPT ![x] = "S"] /\ start2 = [s.start EXCEPT ![co + 1] = x]
                               /\ st2 = Append(s.psstack, s.ps)
    OBVIOUS
  <2>2. Becomes(s, t, m2, start2, s.end, st2, co + 1, "COMPLETE", "OBJECT")
    BY <1>1, <1>2, <1>6, <2>1, StartSegmentDoes
  <2>3. co + 1 \in 0..w /\ s.ps \in Gap /\ s.cs = "NONOBJECT"
    BY <1>1, <1>2, <1>6
  <2>4. DOMAIN m2 = 0..w /\ m2[x] = "S" /\ \A c \in 0..w : c # x => m2[c] = s.marker[c]
    BY <1>2, <2>1, ChangedAt
  <2>5. DOMAIN start2 = 0..w /\ start2[co + 1] = x /\ \A j \in 0..w : j # co + 1 => start2[j] = s.start[j]
    BY <1>2, <2>1, <2>3, ChangedAt
  <2>6. IsStack(st2) /\ Len(st2) = Len(s.psstack) + 1 /\ Len(s.psstack) \in Nat
    BY ONLY <1>2, <2>1, <2>3, WordMore, ZenonT(60)
  <2>7. Framed(st2, "COMPLETE", "OBJECT", co + 1)
    BY <1>1, <1>2, <2>1, <2>3, FramedOpen
  <2>8. Past(m2, start2, s.end, "OBJECT", co + 1, x + 1)
    <3>1. /\ \A c \in 0..(x - 1) : m2[c] = s.marker[c]
          /\ \A j \in 1..co : start2[j] = s.start[j]
      BY <1>4, <2>4, <2>5
    <3> QED BY ONLY <1>1, <1>3, <1>6, <2>4, <2>5, <3>1, PastOpen, SMTT(60)
  <2>9. Inside(t, w) /\ Known(t, x + 1) /\ t.x = x /\ t.cs = "OBJECT"
    BY <1>1, <1>2, <2>2, <2>3, <2>4, <2>5, <2>6, <2>7, <2>8 DEF Becomes, Inside, HasLine, Known, Gap
  <2>10. Depth(t) = Depth(s) /\ Under(t) = Under(s)
    BY <1>1, <1>6, <2>2, <2>6 DEF Becomes, Depth, Under
  <2> QED BY <1>1, <1>4, <2>2, <2>4, <2>9, <2>10 DEF Becomes
<1>7. CASE s.cs # "OBJECT" /\ s.ps = "OBJECT" /\ s.start[co] = UNKNOWN
  <2>1. PICK m2, start2 : /\ m2 = [s.marker EXCEPT ![x] = "S"] /\ start2 = [s.start EXCEPT ![co] = x]
    OBVIOUS
  <2>2. Becomes(s, t, m2, start2, s.end, s.psstack, co, s.ps, "OBJECT")
    BY <1>1, <1>2, <1>7, <2>1, StartSegmentDoes
  <2>3. co # 0
    BY <1>1, <1>2, <1>7, FramedCount
  <2>4. DOMAIN m2 = 0..w /\ m2[x] = "S" /\ \A c \in 0..w : c # x => m2[c] = s.marker[c]
    BY <1>2, <2>1, ChangedAt
  <2>5. DOMAIN start2 = 0..w /\ start2[co] = x /\ \A j \in 0..w : j # co => start2[j] = s.start[j]
    BY <1>2, <2>1, ChangedAt
  <2>6. Framed(s.psstack, s.ps, "OBJECT", co)
    BY <1>2, <1>7, <2>3, FramedRun
  <2>7. Past(m2, start2, s.end, "OBJECT", co, x + 1)
    <3>1. /\ \A c \in 0..(x - 1) : m2[c] = s.marker[c]
          /\ \A j \in 1..(co - 1) : start2[j] = s.start[j]
      BY <1>4, <2>4, <2>5
    <3>2. PICK m, start, end, cs : m = s.marker /\ start = s.start /\ end = s.end /\ cs = s.cs
      OBVIOUS
    <3>3. /\ co \in Nat /\ x \in Nat /\ Past(m, start, end, cs, co, x)
          /\ cs # "OBJECT" /\ co # 0 /\ start[co] = UNKNOWN /\ m2[x] = "S" /\ start2[co] = x
          /\ \A c \in 0..(x - 1) : m2[c] = m[c]
          /\ \A j \in 1..(co - 1) : start2[j] = start[j]
      BY <1>1, <1>3, <1>7, <2>3, <2>4, <2>5, <3>1, <3>2
    <3>4. Past(m2, start2, end, "OBJECT", co, x + 1)
      BY ONLY <3>3, PastFirst
    <3> QED BY <3>2, <3>4
  <2>8. Inside(t, w) /\ Known(t, x + 1) /\ t.x = x /\ t.cs = "OBJECT"
    BY <1>1, <1>2, <2>2, <2>4, <2>5, <2>6, <2>7 DEF Becomes, Inside, HasLine, Known
  <2> QED BY <1>1, <1>4, <2>2, <2>4, <2>8 DEF Becomes, Depth, Under
<1>8. CASE s.cs # "OBJECT" /\ s.ps = "OBJECT" /\ s.start[co] # UNKNOWN
  <2>1. PICK m2 : m2 = [s.marker EXCEPT ![x] = "s"]
    OBVIOUS
  <2>2. Becomes(s, t, m2, s.start, s.end, s.psstack, co, s.ps, "OBJECT")
    BY <1>1, <1>2, <1>8, <2>1, StartSegmentDoes
  <2>3. co # 0
    BY <1>1, <1>2, <1>8, FramedCount
  <2>4. DOMAIN m2 = 0..w /\ m2[x] = "s" /\ \A c \in 0..w : c # x => m2[c] = s.marker[c]
    BY <1>2, <2>1, ChangedAt
  <2>5. Framed(s.psstack, s.ps, "OBJECT", co)
    BY <1>2, <1>8, <2>3, FramedRun
  <2>6. Past(m2, s.start, s.end, "OBJECT", co, x + 1)
    <3>1. \A c \in 0..(x - 1) : m2[c] = s.marker[c]
      BY <1>4, <2>4
    <3> QED BY <1>1, <1>3, <1>8, <2>3, <2>4, <3>1, PastAgain, Zenon
  <2>7. Inside(t, w) /\ Known(t, x + 1) /\ t.x = x /\ t.cs = "OBJECT"
    BY <1>1, <1>2, <2>2, <2>4, <2>5, <2>6 DEF Becomes, Inside, HasLine, Known
  <2> QED BY <1>1, <1>4, <2>2, <2>4, <2>7 DEF Becomes, Depth, Under
<1> QED BY <1>1, <1>5, <1>6, <1>7, <1>8

LEMMA EndSegmentKeeps ==
  ASSUME NEW w \in Nat, NEW s, Inside(s, w), Known(s, s.x), s.marker[s.x] = "none",
         NEW t, t = EndSegment(s)
  PROVE  /\ Inside(t, w) /\ Known(t, s.x + 1) /\ t.x = s.x /\ t.cs = "NONOBJECT"
         /\ Depth(t) = Depth(s) /\ Under(t) = Under(s)
         /\ \A c \in (s.x + 1)..w : t.marker[c] = s.marker[c]
<1>1. PICK x \in 0..w, co \in 0..w : x = s.x /\ co = s.co /\ x \in Nat /\ co \in Nat
  BY DEF Inside
<1>2. /\ LineFields \subseteq DOMAIN s /\ s.wild = FALSE
      /\ DOMAIN s.marker = 0..w /\ DOMAIN s.start = 0..w /\ DOMAIN s.end = 0..w
      /\ s.ps \in Gap \union {"OBJECT"} /\ s.cs \in {"OBJECT", "NONOBJECT"}
      /\ IsStack(s.psstack) /\ Framed(s.psstack, s.ps, s.cs, co)
  BY <1>1 DEF Inside, HasLine
<1>3. Past(s.marker, s.start, s.end, s.cs, co, x)
  BY <1>1 DEF Known
<1>4. /\ 0..(x - 1) \subseteq 0..w /\ (\A c \in 0..(x - 1) : c # x)
      /\ (x + 1)..w \subseteq 0..w /\ (\A c \in (x + 1)..w : c # x)
      /\ 1..(co - 1) \subseteq 0..w /\ (\A j \in 1..(co - 1) : j # co)
  OBVIOUS
<1>5. /\ s.cs = "OBJECT" => co # 0 /\ s.start[co] # UNKNOWN
      /\ s.cs = "OBJECT" => s.start[co] \in 0..w
  <2>1. s.cs = "OBJECT" => co # 0 /\ s.start[co] # UNKNOWN /\ s.start[co] \in 0..(x - 1)
    BY <1>1, <1>3, PastKnown
  <2> QED BY <1>4, <2>1
<1>6. CASE s.cs # "OBJECT"
  <2>1. Same(s, t)
    BY <1>1, <1>2, <1>5, <1>6, EndSegmentDoes
  <2>2. Past(s.marker, s.start, s.end, s.cs, co, x + 1)
    BY <1>1, <1>3, PastNone
  <2> QED BY <1>1, <1>2, <1>6, <2>1, <2>2 DEF Same, Becomes, Inside, HasLine, Known, Depth, Under
<1>7. CASE s.cs = "OBJECT" /\ s.ps # "COMPLETE"
  <2>1. PICK m2, end2 : /\ m2 = [s.marker EXCEPT ![x] = "f"] /\ end2 = [s.end EXCEPT ![co] = x]
    OBVIOUS
  <2>2. Becomes(s, t, m2, s.start, end2, s.psstack, co, s.ps, "NONOBJECT")
    BY <1>1, <1>2, <1>5, <1>7, <2>1, EndSegmentDoes
  <2>4. DOMAIN m2 = 0..w /\ m2[x] = "f" /\ \A c \in 0..w : c # x => m2[c] = s.marker[c]
    BY <1>2, <2>1, ChangedAt
  <2>5. DOMAIN end2 = 0..w /\ end2[co] = x /\ \A j \in 0..w : j # co => end2[j] = s.end[j]
    BY <1>2, <2>1, ChangedAt
  <2>6. Framed(s.psstack, s.ps, "NONOBJECT", co)
    BY <1>2, <1>5, <1>7, FramedRun
  <2>7. Past(m2, s.start, end2, "NONOBJECT", co, x + 1)
    <3>1. /\ \A c \in 0..(x - 1) : m2[c] = s.marker[c]
          /\ \A j \in 1..(co - 1) : end2[j] = s.end[j]
      BY <1>4, <2>4, <2>5
    <3>2. PICK m, start, end : m = s.marker /\ start = s.start /\ end = s.end
      OBVIOUS
    <3>3. /\ co \in Nat /\ x \in Nat /\ Past(m, start, end, "OBJECT", co, x)
          /\ m2[x] = "f" /\ end2[co] = x
          /\ \A c \in 0..(x - 1) : m2[c] = m[c]
          /\ \A j \in 1..(co - 1) : end2[j] = end[j]
      BY <1>1, <1>3, <1>7, <2>4, <2>5, <3>1, <3>2
    <3>4. Past(m2, start, end2, "NONOBJECT", co, x + 1)
      BY ONLY <3>3, PastPause
    <3> QED BY <3>2, <3>4
  <2>8. Inside(t, w) /\ Known(t, x + 1) /\ t.x = x /\ t.cs = "NONOBJECT"
    BY <1>1, <1>2, <2>2, <2>4, <2>5, <2>6, <2>7 DEF Becomes, Inside, HasLine, Known
  <2> QED BY <1>1, <1>4, <2>2, <2>4, <2>8 DEF Becomes, Depth, Under
<1>8. CASE s.cs = "OBJECT" /\ s.ps = "COMPLETE"
  <2>1. PICK m2, st2, top : /\ m2 = [s.marker EXCEPT ![x] = "F"] /\ top = s.psstack[Len(s.psstack)]
                            /\ st2 = SubSeq(s.psstack, 1, Len(s.psstack) - 1)
    OBVIOUS
  <2>2. Becomes(s, t, m2, s.start, s.end, st2, co - 1, top, "NONOBJECT")
    BY <1>1, <1>2, <1>5, <1>8, <2>1, EndSegmentDoes
  <2>4. DOMAIN m2 = 0..w /\ m2[x] = "F" /\ \A c \in 0..w : c # x => m2[c] = s.marker[c]
    BY <1>2, <2>1, ChangedAt
  <2>5. Len(s.psstack) # 0 /\ top \in Gap /\ Framed(st2, top, "NONOBJECT", co - 1)
    BY <1>1, <1>2, <1>5, <1>8, <2>1, FramedClose
  <2>6. IsStack(st2) /\ Len(st2) = Len(s.psstack) - 1 /\ Len(s.psstack) - 1 \in Nat
    BY <1>2, <2>1, <2>5, WordFewer
  <2>7. Past(m2, s.start, s.end, "NONOBJECT", co - 1, x + 1)
    <3>1. \A c \in 0..(x - 1) : m2[c] = s.marker[c]
      BY <1>4, <2>4
    <3>2. /\ co \in Nat /\ x \in Nat /\ Past(s.marker, s.start, s.end, "OBJECT", co, x)
          /\ m2[x] = "F"
      BY <1>1, <1>3, <1>8, <2>4
    <3> QED BY ONLY <3>1, <3>2, PastClose, Zenon
  <2>8. co - 1 \in 0..w
    BY <1>5, <1>8
  <2>9. Inside(t, w) /\ Known(t, x + 1) /\ t.x = x /\ t.cs = "NONOBJECT"
    BY <1>1, <1>2, <2>2, <2>4, <2>5, <2>6, <2>7, <2>8 DEF Becomes, Inside, HasLine, Known
  <2>10. Len(s.psstack) \in Nat
    BY <1>1, <1>2, FramedCount
  <2>11. Depth(t) = Depth(s)
    BY <1>1, <2>2, <2>6, <2>10 DEF Becomes, Depth
  <2>12. Under(t) = Under(s)
    BY <1>8, <2>2, <2>5 DEF Becomes, Under, Gap
  <2> QED BY <1>1, <1>4, <2>2, <2>4, <2>9, <2>11, <2>12 DEF Becomes
<1> QED BY <1>1, <1>6, <1>7, <1>8

(* Only the open regions' starts matter. *)
LEMMA PastStarts ==
  ASSUME NEW m, NEW start, NEW end, NEW cs, NEW co \in Nat, NEW X, Past(m, start, end, cs, co, X),
         NEW start2, \A j \in 1..co : start2[j] = start[j]
  PROVE  Past(m, start2, end, cs, co, X)
<1>1. PICK h, n, lev : /\ Line(m, X, h, n) /\ Levels(start, co, lev)
                       /\ Regions(m, start, end, cs, co, X, h, n, lev)
  BY DEF Past
<1>2. Levels(start2, co, lev)
  <2>1. \A i, j \in 0..co : i < j => j \in 1..co
    OBVIOUS
  <2> QED BY <1>1, <2>1 DEF Levels
<1>3. ASSUME NEW j \in 1..co
      PROVE  /\ Begun(j, m, start, X, h, lev) => Begun(j, m, start2, X, h, lev)
             /\ Paused(j, m, start, end, X, h, lev) => Paused(j, m, start2, end, X, h, lev)
  BY DEF Begun, Paused
<1>4. co # 0 => co \in 1..co
  OBVIOUS
<1>5. Regions(m, start2, end, cs, co, X, h, n, lev)
  BY <1>1, <1>3, <1>4 DEF Regions
<1> QED BY <1>1, <1>2, <1>5 DEF Past

(* What a marker of the line above leads to. *)
Follows(s, t, w, X, g2, a2) ==
  /\ Inside(t, w) /\ Known(t, X) /\ t.x = s.x /\ t.cs = s.cs
  /\ Depth(t) = g2 /\ Under(t) = a2
  /\ \A c \in X..w : t.marker[c] = s.marker[c]

LEMMA MarkerSKeeps ==
  ASSUME NEW w \in Nat, NEW s, Inside(s, w), NEW X \in Nat, Known(s, X),
         NEW g2, NEW a2, Turn("S", Depth(s), Under(s), g2, a2),
         s.cs # "OBJECT" /\ s.ps # "OBJECT" => s.co < w,
         NEW t, t = MarkerS(s)
  PROVE  Follows(s, t, w, X, g2, a2)
<1>1. PICK co \in 0..w : co = s.co /\ co \in Nat
  BY DEF Inside
<1>2. /\ LineFields \subseteq DOMAIN s /\ s.wild = FALSE /\ s.x \in 0..w
      /\ DOMAIN s.marker = 0..w /\ DOMAIN s.start = 0..w /\ DOMAIN s.end = 0..w
      /\ s.ps \in Gap \union {"OBJECT"} /\ s.cs \in {"OBJECT", "NONOBJECT"}
      /\ IsStack(s.psstack) /\ Framed(s.psstack, s.ps, s.cs, co)
  BY <1>1 DEF Inside, HasLine
<1>3. Past(s.marker, s.start, s.end, s.cs, co, X)
  BY <1>1 DEF Known
<1>4. Under(s) = 0 /\ g2 = Depth(s) + 1 /\ a2 = 1
  BY DEF Turn
<1>5. s.ps \in Gap
  BY <1>2, <1>4 DEF Under
<1>6. PICK st2 : st2 = Append(s.psstack, s.ps)
  OBVIOUS
<1>7. IsStack(st2) /\ Len(st2) = Len(s.psstack) + 1 /\ Len(s.psstack) \in Nat
  BY ONLY <1>2, <1>5, <1>6, WordMore, ZenonT(60)
<1>8. CASE s.cs = "NONOBJECT"
  <2>1. PICK start2, st3 : start2 = [s.start EXCEPT ![co + 1] = UNKNOWN] /\ st3 = Append(st2, "COMPLETE")
    OBVIOUS
  <2>2. Becomes(s, t, s.marker, start2, s.end, st3, co + 1, "OBJECT", s.cs)
    BY <1>1, <1>2, <1>6, <1>8, <2>1, MarkerSDoes
  <2>3. co + 1 \in 0..w /\ "COMPLETE" \in Gap /\ co + 1 # 0 /\ co + 1 \in Nat
    BY <1>1, <1>5, <1>8 DEF Gap
  <2>4. DOMAIN start2 = 0..w /\ start2[co + 1] = UNKNOWN /\ \A j \in 0..w : j # co + 1 => start2[j] = s.start[j]
    BY <1>2, <2>1, <2>3, ChangedAt
  <2>5. IsStack(st3) /\ Len(st3) = Len(st2) + 1
    BY ONLY <1>7, <2>1, <2>3, WordMore, ZenonT(60)
  <2>6. Framed(st2, "COMPLETE", "OBJECT", co + 1)
    BY <1>1, <1>2, <1>5, <1>6, <1>8, FramedOpen
  <2>7. Framed(st3, "OBJECT", s.cs, co + 1)
    <3>1. PICK k \in Nat : k = co + 1 /\ k # 0
      BY <2>3
    <3>2. Framed(st2, "COMPLETE", "OBJECT", k)
      BY <2>6, <3>1
    <3>3. Framed(st3, "OBJECT", s.cs, k)
      BY ONLY <1>7, <2>1, <2>3, <3>1, <3>2, FramedPush
    <3> QED BY <3>1, <3>3
  <2>8. Past(s.marker, start2, s.end, s.cs, co + 1, X)
    <3>1. \A j \in 1..co : start2[j] = s.start[j]
      BY <2>3, <2>4
    <3> QED BY ONLY <1>1, <1>3, <1>8, <2>4, <3>1, PastPush, SMTT(60)
  <2>9. Inside(t, w) /\ Known(t, X) /\ t.x = s.x /\ t.cs = s.cs
    BY <1>2, <2>2, <2>3, <2>4, <2>5, <2>7, <2>8 DEF Becomes, Inside, HasLine, Known
  <2>10. Depth(t) = g2 /\ Under(t) = a2
    <3>1. Depth(t) = Len(st3) - (co + 1) /\ Under(t) = 1
      BY <2>2 DEF Becomes, Depth, Under
    <3>2. Depth(s) = Len(s.psstack) - co
      BY <1>1 DEF Depth
    <3> QED BY ONLY <1>1, <1>4, <1>7, <2>5, <3>1, <3>2
  <2> QED BY <2>2, <2>9, <2>10 DEF Becomes, Follows
<1>9. CASE s.cs = "OBJECT"
  <2>1. Becomes(s, t, s.marker, s.start, s.end, st2, co, "OBJECT", s.cs)
    BY <1>1, <1>2, <1>6, <1>9, MarkerSDoes
  <2>2. co # 0
    BY <1>1, <1>2, <1>9, FramedCount
  <2>3. Framed(st2, "OBJECT", s.cs, co)
    BY ONLY <1>1, <1>2, <1>5, <1>6, <1>9, <2>2, FramedPush
  <2>4. Inside(t, w) /\ Known(t, X) /\ t.x = s.x /\ t.cs = s.cs
    BY <1>2, <1>3, <1>7, <2>1, <2>3 DEF Becomes, Inside, HasLine, Known
  <2>5. Depth(t) = g2 /\ Under(t) = a2
    BY <1>1, <1>4, <1>7, <2>1 DEF Becomes, Depth, Under
  <2> QED BY <2>1, <2>4, <2>5 DEF Becomes, Follows
<1> QED BY <1>2, <1>8, <1>9

LEMMA MarkerInnerKeeps ==
  ASSUME NEW w \in Nat, NEW s, Inside(s, w), NEW X \in 0..(w + 1), Known(s, X),
         NEW g2, NEW a2, Turn("s", Depth(s), Under(s), g2, a2),
         NEW t, t = MarkerInner(s)
  PROVE  Follows(s, t, w, X, g2, a2)
<1>1. PICK co \in 0..w : co = s.co /\ co \in Nat /\ X \in Nat
  BY DEF Inside
<1>2. /\ LineFields \subseteq DOMAIN s /\ s.wild = FALSE /\ s.x \in 0..w
      /\ DOMAIN s.marker = 0..w /\ DOMAIN s.start = 0..w /\ DOMAIN s.end = 0..w
      /\ s.ps \in Gap \union {"OBJECT"} /\ s.cs \in {"OBJECT", "NONOBJECT"}
      /\ IsStack(s.psstack) /\ Framed(s.psstack, s.ps, s.cs, co)
  BY <1>1 DEF Inside, HasLine
<1>3. Past(s.marker, s.start, s.end, s.cs, co, X)
  BY <1>1 DEF Known
<1>4. Under(s) = 0 /\ g2 = Depth(s) /\ a2 = 1 /\ Depth(s) >= 1
  BY DEF Turn
<1>5. s.ps \in Gap
  BY <1>2, <1>4 DEF Under
<1>6. /\ s.cs = "OBJECT" => co # 0 /\ s.start[co] # UNKNOWN
      /\ s.cs = "OBJECT" => s.start[co] \in 0..(X - 1) /\ s.start[co] \in 0..w
  <2>1. s.cs = "OBJECT" => co # 0 /\ s.start[co] # UNKNOWN /\ s.start[co] \in 0..(X - 1)
    BY <1>1, <1>3, PastKnown
  <2> QED BY <2>1
<1>7. Len(s.psstack) \in Nat /\ (co = 0 => Len(s.psstack) = 0) /\ (co # 0 /\ s.cs # "OBJECT" => s.ps # "COMPLETE")
  BY <1>1, <1>2, FramedCount
<1>8. CASE ~(s.cs = "OBJECT" /\ s.ps = "COMPLETE")
  <2>1. Becomes(s, t, s.marker, s.start, s.end, s.psstack, co, "OBJECT", s.cs)
    BY <1>1, <1>2, <1>8, MarkerInnerDoes
  <2>2. co # 0
    BY <1>1, <1>4, <1>7 DEF Depth
  <2>3. s.ps # "COMPLETE"
    BY <1>7, <1>8, <2>2
  <2>4. Framed(s.psstack, "OBJECT", s.cs, co)
    BY <1>2, <2>3, FramedTurn
  <2>5. Inside(t, w) /\ Known(t, X) /\ t.x = s.x /\ t.cs = s.cs
    BY <1>2, <1>3, <2>1, <2>4 DEF Becomes, Inside, HasLine, Known
  <2>6. Depth(t) = g2 /\ Under(t) = a2
    BY <1>1, <1>4, <2>1 DEF Becomes, Depth, Under
  <2> QED BY <2>1, <2>5, <2>6 DEF Becomes, Follows
<1>9. CASE s.cs = "OBJECT" /\ s.ps = "COMPLETE"
  <2>1. PICK st2, top : st2 = SubSeq(s.psstack, 1, Len(s.psstack) - 1) /\ top = s.psstack[Len(s.psstack)]
    OBVIOUS
  <2>2. /\ Len(s.psstack) # 0 /\ Framed(st2, top, "NONOBJECT", co - 1)
        /\ co - 1 # 0 /\ top = "INCOMPLETE"
    <3>1. Len(s.psstack) - co # 0
      BY <1>1, <1>4 DEF Depth
    <3> QED BY <1>1, <1>2, <1>6, <1>9, <2>1, <3>1, FramedClose
  <2>3. IsStack(st2) /\ Len(st2) = Len(s.psstack) - 1
    BY <1>2, <2>1, <2>2, WordFewer
  <2>4. Framed(st2, "OBJECT", "NONOBJECT", co - 1)
    BY <2>2, FramedTurn
  <2>5. Framed(st2, "OBJECT", s.cs, co - 1)
    BY <2>2, <2>4, FramedRun
  <2>6. co - 1 \in 0..w /\ 1..(co - 2) \subseteq 0..w /\ \A j \in 1..(co - 2) : j # co - 1
    BY <1>6, <1>9
  <2>7. CASE s.start[co - 1] = UNKNOWN
    <3>1. PICK start2 : start2 = [s.start EXCEPT ![co - 1] = s.start[co]]
      OBVIOUS
    <3>2. Becomes(s, t, s.marker, start2, s.end, st2, co - 1, "OBJECT", s.cs)
      BY <1>1, <1>2, <1>6, <1>9, <2>1, <2>7, <3>1, MarkerInnerDoes
    <3>3. DOMAIN start2 = 0..w /\ start2[co - 1] = s.start[co] /\ \A j \in 0..w : j # co - 1 => start2[j] = s.start[j]
      BY <1>2, <2>6, <3>1, ChangedAt
    <3>4. \A j \in 1..(co - 2) : start2[j] = s.start[j]
      BY <2>6, <3>3
    <3>5. Past(s.marker, s.start, s.end, "OBJECT", co, X)
      BY <1>3, <1>9
    <3>6. Past(s.marker, start2, s.end, "OBJECT", co - 1, X)
      BY ONLY <1>1, <3>5, <2>2, <2>7, <3>3, <3>4, PastUnite
    <3>7. Inside(t, w) /\ Known(t, X) /\ t.x = s.x /\ t.cs = s.cs
      BY <1>2, <1>9, <2>3, <2>5, <2>6, <3>2, <3>3, <3>6 DEF Becomes, Inside, HasLine, Known
    <3>8. Depth(t) = g2 /\ Under(t) = a2
      <4>1. Depth(t) = Len(st2) - (co - 1) /\ Under(t) = 1
        BY <3>2 DEF Becomes, Depth, Under
      <4>2. Depth(s) = Len(s.psstack) - co
        BY <1>1 DEF Depth
      <4> QED BY ONLY <1>1, <1>4, <1>7, <2>3, <4>1, <4>2
    <3> QED BY <3>2, <3>7, <3>8 DEF Becomes, Follows
  <2>8. CASE s.start[co - 1] # UNKNOWN
    <3>1. PICK m2 : m2 = [s.marker EXCEPT ![s.start[co]] = "s"]
      OBVIOUS
    <3>2. PICK start2 : /\ start2 = [s.start EXCEPT ![co - 1] = @]
                        /\ Becomes(s, t, m2, start2, s.end, st2, co - 1, "OBJECT", s.cs)
      BY <1>1, <1>2, <1>6, <1>9, <2>1, <2>8, <3>1, MarkerInnerDoes
    <3>3. DOMAIN start2 = 0..w /\ \A j \in 0..w : start2[j] = s.start[j]
      BY <1>2, <3>2
    <3>4. DOMAIN m2 = 0..w /\ m2[s.start[co]] = "s" /\ \A c \in 0..w : c # s.start[co] => m2[c] = s.marker[c]
      BY <1>2, <1>6, <1>9, <3>1, ChangedAt
    <3>5. Past(s.marker, s.start, s.end, "OBJECT", co, X)
      BY <1>3, <1>9
    <3>6. \A c \in 0..(X - 1) : c # s.start[co] => m2[c] = s.marker[c]
      BY <3>4
    <3>7. Past(m2, s.start, s.end, "OBJECT", co - 1, X)
      BY ONLY <1>1, <3>5, <2>2, <2>8, <3>4, <3>6, PastJoin
    <3>8. Past(m2, start2, s.end, "OBJECT", co - 1, X)
      <4>1. co - 1 \in Nat /\ \A j \in 1..(co - 1) : start2[j] = s.start[j]
        BY <2>6, <3>3
      <4> QED BY ONLY <3>7, <4>1, PastStarts
    <3>9. Inside(t, w) /\ Known(t, X) /\ t.x = s.x /\ t.cs = s.cs
      BY <1>2, <1>9, <2>3, <2>5, <2>6, <3>2, <3>3, <3>4, <3>8 DEF Becomes, Inside, HasLine, Known
    <3>10. Depth(t) = g2 /\ Under(t) = a2
      <4>1. Depth(t) = Len(st2) - (co - 1) /\ Under(t) = 1
        BY <3>2 DEF Becomes, Depth, Under
      <4>2. Depth(s) = Len(s.psstack) - co
        BY <1>1 DEF Depth
      <4> QED BY ONLY <1>1, <1>4, <1>7, <2>3, <4>1, <4>2
    <3>11. \A c \in X..w : m2[c] = s.marker[c]
      BY <1>6, <1>9, <3>4
    <3> QED BY <3>2, <3>9, <3>10, <3>11 DEF Becomes, Follows
  <2> QED BY <2>7, <2>8
<1> QED BY <1>8, <1>9

LEMMA MarkerFKeeps ==
  ASSUME NEW w \in Nat, NEW s, Inside(s, w), NEW X \in 0..(w + 1), Known(s, X),
         NEW g2, NEW a2, Turn("F", Depth(s), Under(s), g2, a2),
         NEW minarea, NEW t, t = MarkerF(s, minarea)
  PROVE  Follows(s, t, w, X, g2, a2)
<1>1. PICK co \in 0..w : co = s.co /\ co \in Nat /\ X \in Nat
  BY DEF Inside
<1>2. /\ LineFields \subseteq DOMAIN s /\ s.wild = FALSE /\ s.x \in 0..w
      /\ DOMAIN s.marker = 0..w /\ DOMAIN s.start = 0..w /\ DOMAIN s.end = 0..w
      /\ s.ps \in Gap \union {"OBJECT"} /\ s.cs \in {"OBJECT", "NONOBJECT"}
      /\ IsStack(s.psstack) /\ Framed(s.psstack, s.ps, s.cs, co)
  BY <1>1 DEF Inside, HasLine
<1>3. Past(s.marker, s.start, s.end, s.cs, co, X)
  BY <1>1 DEF Known
<1>4. s.ps = "OBJECT" /\ g2 = Depth(s) - 1 /\ a2 = 0
  BY DEF Turn, Under
<1>5. PICK st2, top : st2 = SubSeq(s.psstack, 1, Len(s.psstack) - 1) /\ top = s.psstack[Len(s.psstack)]
  OBVIOUS
<1>6. /\ Len(s.psstack) # 0 /\ top \in Gap /\ co # 0
      /\ top = "INCOMPLETE" \/ s.cs = "OBJECT" => Framed(st2, top, s.cs, co)
      /\ top = "COMPLETE" => Framed(st2, "COMPLETE", "OBJECT", co)
  <2>1. Framed(s.psstack, "OBJECT", s.cs, co)
    BY <1>2, <1>4
  <2> QED BY ONLY <1>1, <1>2, <1>5, <2>1, FramedPop
<1>7. IsStack(st2) /\ Len(st2) = Len(s.psstack) - 1 /\ Len(s.psstack) \in Nat
  <2>1. Len(s.psstack) \in Nat
    BY <1>1, <1>2, FramedCount
  <2> QED BY <1>2, <1>5, <1>6, <2>1, WordFewer
<1>8. s.cs = "NONOBJECT" /\ s.start[co] # UNKNOWN =>
        /\ s.start[co] \in 0..w /\ s.end[co] \in 0..w /\ s.end[co] \in 0..(X - 1)
  <2>1. s.cs = "NONOBJECT" /\ s.start[co] # UNKNOWN => s.start[co] \in 0..(X - 1) /\ s.end[co] \in 0..(X - 1)
    BY <1>1, <1>3, <1>6, PastKnown
  <2> QED BY <2>1
<1>9. CASE ~(s.cs = "NONOBJECT" /\ top = "COMPLETE")
  <2>1. Becomes(s, t, s.marker, s.start, s.end, st2, co, top, s.cs)
    BY <1>1, <1>2, <1>5, <1>8, <1>9, MarkerFDoes
  <2>2. Framed(st2, top, s.cs, co)
    BY <1>2, <1>6, <1>9 DEF Gap
  <2>3. Inside(t, w) /\ Known(t, X) /\ t.x = s.x /\ t.cs = s.cs
    BY <1>2, <1>3, <1>6, <1>7, <2>1, <2>2 DEF Becomes, Inside, HasLine, Known
  <2>4. Depth(t) = g2
    BY <1>1, <1>4, <1>7, <2>1 DEF Becomes, Depth
  <2>5. Under(t) = a2
    BY <1>4, <1>6, <2>1 DEF Becomes, Under, Gap
  <2> QED BY <2>1, <2>3, <2>4, <2>5 DEF Becomes, Follows
<1>10. CASE s.cs = "NONOBJECT" /\ top = "COMPLETE"
  <2>1. PICK st3, top2 : st3 = SubSeq(st2, 1, Len(st2) - 1) /\ top2 = st2[Len(st2)]
    OBVIOUS
  <2>2. Len(st2) # 0 /\ top2 \in Gap /\ Framed(st3, top2, "NONOBJECT", co - 1)
    <3>1. Framed(st2, "COMPLETE", "OBJECT", co)
      BY <1>6, <1>10
    <3> QED BY ONLY <1>1, <1>6, <1>7, <2>1, <3>1, FramedClose
  <2>3. IsStack(st3) /\ Len(st3) = Len(st2) - 1
    BY <1>7, <2>1, <2>2, WordFewer
  <2>4. co - 1 \in 0..w
    BY <1>6
  <2>5. Past(s.marker, s.start, s.end, "NONOBJECT", co, X)
    BY <1>3, <1>10
  <2>6. CASE s.start[co] = UNKNOWN
    <3>1. Becomes(s, t, s.marker, s.start, s.end, st3, co - 1, top2, s.cs)
      BY <1>1, <1>2, <1>5, <1>10, <2>1, <2>6, MarkerFDoes
    <3>2. Past(s.marker, s.start, s.end, "NONOBJECT", co - 1, X)
      BY ONLY <1>1, <1>6, <2>5, <2>6, PastDrop
    <3>3. Inside(t, w) /\ Known(t, X) /\ t.x = s.x /\ t.cs = s.cs
      BY <1>2, <1>10, <2>2, <2>3, <2>4, <3>1, <3>2 DEF Becomes, Inside, HasLine, Known
    <3>4. Depth(t) = g2
      BY <1>1, <1>4, <1>7, <2>3, <3>1 DEF Becomes, Depth
    <3>5. Under(t) = a2
      BY <1>4, <2>2, <3>1 DEF Becomes, Under, Gap
    <3> QED BY <3>1, <3>3, <3>4, <3>5 DEF Becomes, Follows
  <2>7. CASE s.start[co] # UNKNOWN
    <3>1. PICK m2 : m2 = [s.marker EXCEPT ![s.end[co]] = "F"]
      OBVIOUS
    <3>2. Becomes(s, t, m2, s.start, s.end, st3, co - 1, top2, s.cs)
      BY <1>1, <1>2, <1>5, <1>8, <1>10, <2>1, <2>7, <3>1, MarkerFDoes
    <3>3. DOMAIN m2 = 0..w /\ m2[s.end[co]] = "F" /\ \A c \in 0..w : c # s.end[co] => m2[c] = s.marker[c]
      BY <1>2, <1>8, <1>10, <2>7, <3>1, ChangedAt
    <3>4. (\A c \in 0..(X - 1) : c # s.end[co] => m2[c] = s.marker[c]) /\ \A c \in X..w : m2[c] = s.marker[c]
      BY <1>8, <1>10, <2>7, <3>3
    <3>5. Past(m2, s.start, s.end, "NONOBJECT", co - 1, X)
      BY ONLY <1>1, <1>6, <2>5, <2>7, <3>3, <3>4, PastSuspend
    <3>6. Inside(t, w) /\ Known(t, X) /\ t.x = s.x /\ t.cs = s.cs
      BY <1>2, <1>10, <2>2, <2>3, <2>4, <3>2, <3>3, <3>5 DEF Becomes, Inside, HasLine, Known
    <3>7. Depth(t) = g2
      BY <1>1, <1>4, <1>7, <2>3, <3>2 DEF Becomes, Depth
    <3>8. Under(t) = a2
      BY <1>4, <2>2, <3>2 DEF Becomes, Under, Gap
    <3> QED BY <3>2, <3>4, <3>6, <3>7, <3>8 DEF Becomes, Follows
  <2> QED BY <2>6, <2>7
<1> QED BY <1>9, <1>10

LEMMA NewMarkerKeeps ==
  ASSUME NEW w \in Nat, NEW s, Inside(s, w), NEW X \in 0..(w + 1), Known(s, X),
         NEW mark, NEW g2, NEW a2, Turn(mark, Depth(s), Under(s), g2, a2),
         s.cs # "OBJECT" /\ s.ps # "OBJECT" => s.co < w,
         NEW minarea, NEW t, t = NewMarker(s, mark, minarea)
  PROVE  Follows(s, t, w, X, g2, a2)
<1>1. X \in Nat
  OBVIOUS
<1>2. CASE mark = "none"
  <2>1. t = s
    BY <1>2 DEF NewMarker
  <2>2. g2 = Depth(s) /\ a2 = Under(s)
    BY <1>2 DEF Turn
  <2> QED BY <2>1, <2>2 DEF Follows
<1>3. CASE mark = "S"
  BY <1>1, <1>3, MarkerSKeeps DEF NewMarker
<1>4. CASE mark = "s"
  BY <1>4, MarkerInnerKeeps DEF NewMarker
<1>5. CASE mark = "f"
  <2>1. t = [s EXCEPT !.ps = "INCOMPLETE"]
    BY <1>5 DEF NewMarker
  <2>2. s.ps = "OBJECT" /\ g2 = Depth(s) /\ a2 = 0
    BY <1>5 DEF Turn, Under
  <2>3. LineFields \subseteq DOMAIN s
    BY DEF Inside, HasLine
  <2>4. Becomes(s, t, s.marker, s.start, s.end, s.psstack, s.co, "INCOMPLETE", s.cs)
    BY <2>1, <2>3 DEF Becomes, LineFields
  <2>5. Framed(s.psstack, "INCOMPLETE", s.cs, s.co)
    BY <2>2, FramedTurn DEF Inside
  <2>6. Inside(t, w) /\ Known(t, X)
    BY <2>4, <2>5 DEF Becomes, Inside, HasLine, Known, Gap
  <2> QED BY <2>2, <2>4, <2>6 DEF Becomes, Follows, Depth, Under
<1>6. CASE mark = "F"
  BY <1>6, MarkerFKeeps DEF NewMarker
<1> QED BY <1>2, <1>3, <1>4, <1>5, <1>6 DEF Turn

-----------------------------------------------------------------------------
(* The whole loop body *)

LineInv(s, w) == Inside(s, w) /\ Known(s, s.x) /\ Rest(s.marker, Depth(s), Under(s), s.x, w)

(* No run goes on where a line begins. *)
LEMMA StartsOut ==
  ASSUME NEW m, NEW start, NEW end, NEW cs, NEW co, Past(m, start, end, cs, co, 0)
  PROVE  cs # "OBJECT"
BY DEF Past, Line, Regions, InRun

(* A stack of length 0 is the empty one. *)
LEMMA NoneStacked ==
  ASSUME NEW st, IsStack(st), Len(st) = 0
  PROVE  st = <<>>
BY EmptySeq DEF IsStack

(* The regions open on a line, and the entries of psstack, find room in it;  *)
(* and a line begins with none.                                              *)
LEMMA LineRoom ==
  ASSUME NEW w \in Nat \ {0}, NEW s, LineInv(s, w)
  PROVE  /\ s.cs # "OBJECT" /\ s.ps # "OBJECT" => s.co < w
         /\ s.co <= w /\ Len(s.psstack) <= w + 1
         /\ s.x = 0 => s.co = 0 /\ s.psstack = <<>>
<1>1. PICK x \in 0..w, co \in 0..w : x = s.x /\ co = s.co
  BY DEF LineInv, Inside
<1>2. PICK g, a : g = Depth(s) /\ a = Under(s)
  OBVIOUS
<1>3. g \in Nat /\ a \in {0, 1} /\ 2 * g - a <= x /\ 2 * g - a <= w + 1 - x
  <2>1. w \in Nat /\ x \in 0..(w + 1) /\ Rest(s.marker, g, a, x, w)
    BY <1>1, <1>2 DEF LineInv
  <2> QED BY <2>1, RestRoom
<1>4. PICK n : n = Len(s.psstack)
  OBVIOUS
<1>5. /\ n \in Nat
      /\ IF s.ps = "COMPLETE" THEN 2 * co <= n + 1 ELSE 2 * co <= n
      /\ co = 0 => n = 0 /\ s.ps = "COMPLETE" /\ s.cs # "OBJECT"
      /\ co # 0 /\ s.cs # "OBJECT" => s.ps # "COMPLETE"
  BY <1>1, <1>4, FramedCount DEF LineInv, Inside
<1>6. n = g + co /\ (a = 1 => s.ps = "OBJECT") /\ (a = 0 => s.ps # "OBJECT")
  <2>1. g = n - co /\ n \in Nat /\ co \in Int
    BY <1>1, <1>2, <1>4, <1>5 DEF Depth
  <2>2. n = g + co
    BY ONLY <2>1
  <2>3. a = IF s.ps = "OBJECT" THEN 1 ELSE 0
    BY <1>2 DEF Under
  <2> QED BY <2>2, <2>3
<1>7. s.ps = "OBJECT" => s.ps # "COMPLETE"
  OBVIOUS
<1>8. 2 * co <= n + 1
  BY <1>5
<1>9. s.cs # "OBJECT" /\ s.ps # "OBJECT" => co < w
  <2> SUFFICES ASSUME s.cs # "OBJECT", s.ps # "OBJECT", co # 0 PROVE co < w
    OBVIOUS
  <2>1. 2 * co <= n /\ a = 0
    BY <1>3, <1>5, <1>6
  <2> QED BY <1>3, <1>6, <2>1
<1>10. n <= w + 1
  BY <1>3, <1>6, <1>8
<1>11. x = 0 => co = 0 /\ n = 0
  <2> SUFFICES ASSUME x = 0, co # 0 PROVE FALSE
    BY <1>5
  <2>1. g = 0
    BY <1>3
  <2>2. co = 1 /\ n = 1 /\ s.ps = "COMPLETE"
    BY <1>5, <1>6, <1>8, <2>1
  <2>3. s.cs # "OBJECT"
    BY <1>1, StartsOut DEF LineInv, Known
  <2> QED BY <1>5, <2>2, <2>3
<1>12. n = 0 => s.psstack = <<>>
  <2>1. IsStack(s.psstack)
    BY DEF LineInv, Inside
  <2> QED BY <1>4, <2>1, NoneStacked
<1> QED BY <1>1, <1>4, <1>9, <1>10, <1>11, <1>12

(* A step that only works on lists of cells. *)
LEMMA SameKeeps ==
  ASSUME NEW w, NEW s, Inside(s, w), NEW t, Same(s, t)
  PROVE  /\ Inside(t, w) /\ t.x = s.x /\ t.co = s.co /\ t.ps = s.ps /\ t.cs = s.cs
         /\ t.marker = s.marker /\ Depth(t) = Depth(s) /\ Under(t) = Under(s)
         /\ \A X : Known(s, X) => Known(t, X)
<1>1. Inside(t, w)
  BY DEF Same, Becomes, Inside, HasLine
<1>2. /\ t.x = s.x /\ t.co = s.co /\ t.ps = s.ps /\ t.cs = s.cs /\ t.psstack = s.psstack
      /\ t.marker = s.marker /\ t.start = s.start /\ t.end = s.end
  BY DEF Same, Becomes
<1> QED BY <1>1, <1>2 DEF Depth, Under, Known

(* The visited column's marker is taken. *)
Cleared(s) == [s EXCEPT !.marker[s.x] = "none", !.ready = Blank, !.object = <<>>]

LEMMA ClearedKeeps ==
  ASSUME NEW w \in Nat, NEW s, Inside(s, w), Known(s, s.x), NEW c, c = Cleared(s)
  PROVE  /\ Inside(c, w) /\ Known(c, s.x) /\ c.marker[s.x] = "none"
         /\ c.x = s.x /\ c.co = s.co /\ c.ps = s.ps /\ c.cs = s.cs
         /\ Depth(c) = Depth(s) /\ Under(c) = Under(s)
         /\ \A i \in (s.x + 1)..w : c.marker[i] = s.marker[i]
<1>1. PICK x \in 0..w, co \in 0..w : x = s.x /\ co = s.co /\ x \in Nat /\ co \in Nat
  BY DEF Inside
<1>2. PICK m2 : m2 = [s.marker EXCEPT ![x] = "none"]
  OBVIOUS
<1>3. LineFields \subseteq DOMAIN s /\ DOMAIN s.marker = 0..w
  BY DEF Inside, HasLine
<1>4. Becomes(s, c, m2, s.start, s.end, s.psstack, s.co, s.ps, s.cs)
  BY <1>1, <1>2, <1>3 DEF Cleared, Becomes, LineFields
<1>5. DOMAIN m2 = 0..w /\ m2[x] = "none" /\ \A i \in 0..w : i # x => m2[i] = s.marker[i]
  BY <1>2, <1>3, ChangedAt
<1>6. /\ \A i \in 0..(x - 1) : m2[i] = s.marker[i]
      /\ \A i \in (x + 1)..w : m2[i] = s.marker[i]
  BY <1>5
<1>7. Past(m2, s.start, s.end, s.cs, co, x)
  BY <1>1, <1>6, PastSame DEF Known
<1>8. Inside(c, w) /\ Known(c, x)
  BY <1>1, <1>4, <1>5, <1>7 DEF Becomes, Inside, HasLine, Known
<1> QED BY <1>1, <1>4, <1>5, <1>6, <1>8 DEF Becomes, Depth, Under

(* Markers of the columns before x do not matter. *)
LEMMA RestSame ==
  ASSUME NEW m, NEW g, NEW a, NEW x, NEW w, Rest(m, g, a, x, w), NEW m2, \A c \in x..w : m2[c] = m[c]
  PROVE  Rest(m2, g, a, x, w)
BY DEF Rest

(* The states of a scan during the visit of one column: the marker taken, a  *)
(* cell taken, the segment started, the marker followed.                     *)
VisitSteps(s, lit, truncated, minarea, x, X, c, k, t, u) ==
  /\ x = s.x /\ X = (IF lit THEN x + 1 ELSE x)
  /\ c = Cleared(s) /\ k = TakeCell(c, truncated)
  /\ t = (IF lit THEN StartSegment(k) ELSE c)
  /\ u = NewMarker(t, s.marker[x], minarea)

VisitHolds(s, w, lit, x, X, c, k, t, u) ==
  /\ x \in 0..w /\ X \in 0..(w + 1)
  /\ Inside(c, w) /\ c.x = x /\ Same(c, k)
  /\ Inside(k, w) /\ k.x = x /\ k.marker[x] = "none" /\ (k.cs # "OBJECT" /\ k.ps # "OBJECT" => k.co < w)
  /\ Inside(t, w) /\ Known(t, X) /\ t.x = x /\ (t.cs # "OBJECT" /\ t.ps # "OBJECT" => t.co < w)
  /\ lit => t.cs = "OBJECT"
  /\ Inside(u, w) /\ Known(u, X) /\ u.x = x /\ u.cs = t.cs
  /\ ~lit => u.marker[x] = "none"
  /\ \A i \in (x + 1)..w : u.marker[i] = s.marker[i]
  /\ \E g2, a2 : /\ Turn(s.marker[x], Depth(t), Under(t), g2, a2)
                 /\ Depth(u) = g2 /\ Under(u) = a2 /\ Rest(s.marker, g2, a2, x + 1, w)

LEMMA WorkedSteps ==
  ASSUME NEW w \in Nat \ {0}, NEW s, LineInv(s, w), NEW lit, NEW truncated, NEW minarea,
         NEW x, NEW X, NEW c, NEW k, NEW t, NEW u, VisitSteps(s, lit, truncated, minarea, x, X, c, k, t, u)
  PROVE  VisitHolds(s, w, lit, x, X, c, k, t, u)
<1> USE DEF VisitSteps
<1>1. x \in 0..w /\ x \in Nat /\ x + 1 \in 0..(w + 1) /\ x + 1 \in Nat
  BY DEF LineInv, Inside
<1>2. PICK mark, g, a : mark = s.marker[x] /\ g = Depth(s) /\ a = Under(s)
  OBVIOUS
<1>4. /\ Inside(c, w) /\ Known(c, x) /\ c.marker[x] = "none"
      /\ c.x = x /\ c.co = s.co /\ c.ps = s.ps /\ c.cs = s.cs
      /\ Depth(c) = g /\ Under(c) = a
      /\ \A i \in (x + 1)..w : c.marker[i] = s.marker[i]
  <2>1. w \in Nat /\ Inside(s, w) /\ Known(s, s.x) /\ c = Cleared(s)
    BY DEF LineInv
  <2>2. /\ Inside(c, w) /\ Known(c, s.x) /\ c.marker[s.x] = "none"
        /\ c.x = s.x /\ c.co = s.co /\ c.ps = s.ps /\ c.cs = s.cs
        /\ Depth(c) = Depth(s) /\ Under(c) = Under(s)
        /\ \A i \in (s.x + 1)..w : c.marker[i] = s.marker[i]
    BY ONLY <2>1, ClearedKeeps
  <2> QED BY <1>1, <1>2, <2>2
<1>5. c.cs # "OBJECT" /\ c.ps # "OBJECT" => c.co < w
  BY <1>4, LineRoom
<1>6. Same(c, k)
  BY <1>4, TakeCellSame DEF Inside, HasLine
<1>7. /\ Inside(k, w) /\ Known(k, x) /\ k.marker[x] = "none"
      /\ k.x = x /\ k.co = c.co /\ k.ps = c.ps /\ k.cs = c.cs
      /\ Depth(k) = g /\ Under(k) = a /\ k.marker = c.marker
  BY <1>4, <1>6, SameKeeps
<1>8. /\ Inside(t, w) /\ Known(t, X) /\ t.x = x /\ Depth(t) = g /\ Under(t) = a
      /\ t.cs # "OBJECT" /\ t.ps # "OBJECT" => t.co < w
      /\ lit => t.cs = "OBJECT"
      /\ ~lit => t.marker[x] = "none"
      /\ \A i \in (x + 1)..w : t.marker[i] = s.marker[i]
  <2>1. CASE ~lit
    BY <1>4, <1>5, <2>1
  <2>2. CASE lit
    <3>4. w \in Nat /\ t = StartSegment(k)
      BY <2>2
    <3>5. /\ Inside(k, w) /\ Known(k, k.x) /\ k.marker[k.x] = "none"
          /\ (k.cs # "OBJECT" /\ k.ps # "OBJECT" => k.co < w)
      BY <1>5, <1>7
    <3>6. /\ Inside(t, w) /\ Known(t, k.x + 1) /\ t.x = k.x /\ t.cs = "OBJECT"
          /\ Depth(t) = Depth(k) /\ Under(t) = Under(k)
          /\ \A i \in (k.x + 1)..w : t.marker[i] = k.marker[i]
      BY ONLY <3>4, <3>5, StartSegmentKeeps, SMTT(60)
    <3> QED BY <1>4, <1>7, <2>2, <3>6
  <2> QED BY <2>1, <2>2
<1>9. PICK g2, a2 : Turn(mark, g, a, g2, a2) /\ Rest(s.marker, g2, a2, x + 1, w)
  <2>1. w \in Nat /\ x \in 0..w /\ Rest(s.marker, g, a, x, w)
    BY <1>1, <1>2 DEF LineInv
  <2> QED BY <1>2, <2>1, RestStep
<1>10. /\ Inside(u, w) /\ Known(u, X) /\ u.x = x /\ u.cs = t.cs /\ Depth(u) = g2 /\ Under(u) = a2
       /\ \A i \in X..w : u.marker[i] = t.marker[i]
  <2>1. w \in Nat /\ X \in 0..(w + 1) /\ Inside(t, w) /\ Known(t, X) /\ u = NewMarker(t, mark, minarea)
    BY <1>1, <1>2, <1>8
  <2>2. Turn(mark, Depth(t), Under(t), g2, a2)
    BY <1>8, <1>9
  <2>3. Follows(t, u, w, X, g2, a2)
    BY ONLY <1>8, <2>1, <2>2, NewMarkerKeeps
  <2> QED BY <1>8, <2>3 DEF Follows
<1>11. ~lit => u.marker[x] = "none"
  BY <1>1, <1>8, <1>10
<1>12. \A i \in (x + 1)..w : u.marker[i] = s.marker[i]
  <2>1. (x + 1)..w \subseteq X..w
    BY <1>1
  <2> QED BY <1>8, <1>10, <2>1
<1>13. Turn(s.marker[x], Depth(t), Under(t), g2, a2)
  BY <1>2, <1>8, <1>9
<1>14. X \in 0..(w + 1) /\ (k.cs # "OBJECT" /\ k.ps # "OBJECT" => k.co < w)
  BY <1>1, <1>5, <1>7
<1> QED BY <1>1, <1>4, <1>6, <1>7, <1>8, <1>9, <1>10, <1>11, <1>12, <1>13, <1>14 DEF VisitHolds

(* One visit but for the move to the next position. *)
Worked(s, lit, truncated, minarea) ==
  LET mark == s.marker[s.x]
      c == Cleared(s)
      t == IF lit THEN StartSegment(TakeCell(c, truncated)) ELSE c
      u == NewMarker(t, mark, minarea)
  IN  IF lit THEN Update(u, u.co, u.curpix) ELSE EndSegment(u)
LEMMA WorkedKeeps ==
  ASSUME NEW w \in Nat \ {0}, NEW s, LineInv(s, w), NEW lit, NEW truncated, NEW minarea,
         NEW v, v = Worked(s, lit, truncated, minarea)
  PROVE  /\ Inside(v, w) /\ Known(v, s.x + 1) /\ v.x = s.x
         /\ ~lit => v.cs = "NONOBJECT"
         /\ Rest(v.marker, Depth(v), Under(v), s.x + 1, w)
<1>1. PICK x, X, c, k, t, u : VisitSteps(s, lit, truncated, minarea, x, X, c, k, t, u)
  BY DEF VisitSteps
<1>2. VisitHolds(s, w, lit, x, X, c, k, t, u)
  BY ONLY <1>1, w \in Nat \ {0}, LineInv(s, w), WorkedSteps
<1>6. /\ x \in 0..w /\ Inside(u, w) /\ Known(u, X) /\ u.x = x
      /\ ~lit => u.marker[x] = "none"
      /\ \A i \in (x + 1)..w : u.marker[i] = s.marker[i]
      /\ Rest(s.marker, Depth(u), Under(u), x + 1, w)
  BY <1>2 DEF VisitHolds
<1>11. v = IF lit THEN Update(u, u.co, u.curpix) ELSE EndSegment(u)
  BY <1>1 DEF VisitSteps, Worked
<1>12. /\ Inside(v, w) /\ Known(v, x + 1) /\ v.x = x /\ Depth(v) = Depth(u) /\ Under(v) = Under(u)
       /\ ~lit => v.cs = "NONOBJECT"
       /\ \A i \in (x + 1)..w : v.marker[i] = u.marker[i]
  <2>1. CASE lit
    <3>1. Same(u, v)
      BY <1>6, <1>11, <2>1, UpdateSame DEF Inside, HasLine
    <3>2. X = x + 1 /\ x = s.x
      BY <1>1, <2>1 DEF VisitSteps
    <3> QED BY <1>6, <2>1, <3>1, <3>2, SameKeeps
  <2>2. CASE ~lit
    <3>2. w \in Nat /\ Inside(u, w) /\ Known(u, u.x) /\ u.marker[u.x] = "none" /\ v = EndSegment(u)
      BY <1>1, <1>6, <1>11, <2>2 DEF VisitSteps
    <3>3. /\ Inside(v, w) /\ Known(v, u.x + 1) /\ v.x = u.x /\ v.cs = "NONOBJECT"
          /\ Depth(v) = Depth(u) /\ Under(v) = Under(u)
          /\ \A i \in (u.x + 1)..w : v.marker[i] = u.marker[i]
      BY ONLY <3>2, EndSegmentKeeps
    <3> QED BY <1>6, <3>3
  <2> QED BY <2>1, <2>2
<1>13. \A i \in (x + 1)..w : v.marker[i] = s.marker[i]
  BY <1>6, <1>12
<1>14. Rest(v.marker, Depth(v), Under(v), x + 1, w)
  BY <1>6, <1>12, <1>13, RestSame
<1> QED BY <1>1, <1>12, <1>14 DEF VisitSteps

(* A line that is done has left no region open. *)
LEMMA LineDone ==
  ASSUME NEW w \in Nat \ {0}, NEW v, Inside(v, w), Known(v, w + 1), v.cs = "NONOBJECT",
         Rest(v.marker, Depth(v), Under(v), w + 1, w)
  PROVE  /\ v.co = 0 /\ v.ps = "COMPLETE" /\ Len(v.psstack) = 0
         /\ Rest(v.marker, 0, 0, 0, w)
<1>1. PICK co, g, a, n : /\ co = v.co /\ g = Depth(v) /\ a = Under(v) /\ n = Len(v.psstack)
                       /\ co \in 0..w
  BY DEF Inside
<1>2. g = 0
  <2>1. w \in Nat /\ w + 1 \in 0..(w + 1) /\ Rest(v.marker, g, a, w + 1, w)
    BY <1>1
  <2> QED BY <2>1, RestRoom
<1>3. /\ n \in Nat
      /\ co = 0 => n = 0 /\ v.ps = "COMPLETE"
      /\ co # 0 => v.ps # "COMPLETE"
      /\ v.ps # "COMPLETE" => 2 * co <= n
  BY <1>1, FramedCount DEF Inside
<1>4. n = co
  <2>1. 0 = n - co /\ n \in Nat /\ co \in Int
    BY <1>1, <1>2, <1>3 DEF Depth
  <2> QED BY ONLY <2>1
<1>5. co = 0
  BY <1>3, <1>4
<1>6. Past(v.marker, v.start, v.end, "NONOBJECT", 0, w + 1)
  BY <1>1, <1>5 DEF Known
<1>7. Rest(v.marker, 0, 0, 0, w)
  BY <1>6, RestNew
<1> QED BY <1>1, <1>3, <1>5, <1>7

(* The next column; or the next line, of which nothing is known. *)
LEMMA AdvanceKeeps ==
  ASSUME NEW w \in Nat \ {0}, NEW v, Inside(v, w), Known(v, v.x + 1),
         Rest(v.marker, Depth(v), Under(v), v.x + 1, w), v.x = w => v.cs = "NONOBJECT",
         NEW next, next = Advance(v, w)
  PROVE  LineInv(next, w)
<1>1. /\ v.x \in 0..w /\ w \in Nat /\ LineFields \subseteq DOMAIN v
  BY DEF Inside, HasLine
<1>2. CASE v.x < w
  <2>1. next = [v EXCEPT !.x = v.x + 1]
    BY <1>2 DEF Advance
  <2>2. /\ DOMAIN next = DOMAIN v /\ next.x = v.x + 1 /\ next.wild = v.wild
        /\ next.marker = v.marker /\ next.start = v.start /\ next.end = v.end
        /\ next.psstack = v.psstack /\ next.co = v.co /\ next.ps = v.ps /\ next.cs = v.cs
    BY <1>1, <2>1 DEF LineFields
  <2>3. next.x \in 0..w
    BY <1>1, <1>2, <2>2
  <2>4. Inside(next, w)
    BY <2>2, <2>3 DEF Inside, HasLine
  <2>5. Known(next, next.x) /\ Depth(next) = Depth(v) /\ Under(next) = Under(v)
    BY <2>2 DEF Known, Depth, Under
  <2> QED BY <2>2, <2>4, <2>5 DEF LineInv
<1>3. CASE ~(v.x < w)
  <2>1. v.x = w
    BY <1>1, <1>3
  <2>2. /\ v.co = 0 /\ v.ps = "COMPLETE" /\ Len(v.psstack) = 0 /\ v.cs = "NONOBJECT"
        /\ Rest(v.marker, 0, 0, 0, w)
    BY <2>1, LineDone
  <2>3. next = [v EXCEPT !.x = 0, !.y = v.y + 1, !.ps = "COMPLETE", !.cs = "NONOBJECT"]
    BY <1>3 DEF Advance
  <2>4. /\ DOMAIN next = DOMAIN v /\ next.x = 0 /\ next.wild = v.wild
        /\ next.marker = v.marker /\ next.start = v.start /\ next.end = v.end
        /\ next.psstack = v.psstack /\ next.co = 0 /\ next.ps = v.ps /\ next.cs = v.cs
    BY <1>1, <2>2, <2>3 DEF LineFields
  <2>5. Inside(next, w)
    BY <2>2, <2>4 DEF Inside, HasLine
  <2>6. Known(next, 0)
    BY <2>2, <2>4, PastStart DEF Known
  <2>7. Depth(next) = 0 /\ Under(next) = 0
    BY <2>2, <2>4 DEF Depth, Under
  <2> QED BY <2>2, <2>4, <2>5, <2>6, <2>7 DEF LineInv
<1> QED BY <1>2, <1>3

(* No pixel of the image is visited in the empty column after it. *)
LEMMA VisitedKeeps ==
  ASSUME NEW w \in Nat \ {0}, NEW s, LineInv(s, w), NEW lit, lit => s.x < w, NEW truncated, NEW minarea,
         NEW next, next = Visited(s, lit, truncated, minarea, w)
  PROVE  LineInv(next, w)
<1>1. PICK v : v = Worked(s, lit, truncated, minarea)
  OBVIOUS
<1>2. next = Advance(v, w)
  BY <1>1 DEF Visited, Worked, Cleared
<1>3. /\ Inside(v, w) /\ Known(v, s.x + 1) /\ v.x = s.x
      /\ ~lit => v.cs = "NONOBJECT"
      /\ Rest(v.marker, Depth(v), Under(v), s.x + 1, w)
  BY <1>1, WorkedKeeps
<1>4. v.x = w => v.cs = "NONOBJECT"
  BY <1>3
<1> QED BY <1>2, <1>3, <1>4, AdvanceKeeps

(* A call begins on an empty line, with an empty line above it. *)
LEMMA NewScanKeeps ==
  ASSUME NEW w \in Nat \ {0}, NEW n, NEW s, s = NewScan(w, n)
  PROVE  LineInv(s, w)
<1>1. PICK m : m = [i \in 0..w |-> "none"]
  OBVIOUS
<1>2. /\ LineFields \subseteq DOMAIN s /\ s.x = 0 /\ s.wild = FALSE /\ s.marker = m
      /\ DOMAIN s.marker = 0..w /\ DOMAIN s.start = 0..w /\ DOMAIN s.end = 0..w
      /\ s.psstack = <<>> /\ s.co = 0 /\ s.ps = "COMPLETE" /\ s.cs = "NONOBJECT"
  BY <1>1 DEF NewScan, LineFields
<1>3. IsStack(<<>>) /\ Len(<<>>) = 0
  BY EmptySeq DEF IsStack
<1>4. Framed(<<>>, "COMPLETE", "NONOBJECT", 0)
  <2> DEFINE base == [j \in 0..0 |-> 1]
  <2>1. 0..0 = {0} /\ base[0] = 1 /\ 1..0 = {}
    OBVIOUS
  <2> HIDE DEF base
  <2>2. Bases(0, base)
    BY <2>1 DEF Bases
  <2>3. Word(<<>>, 0, base) /\ Top(<<>>, "COMPLETE", "NONOBJECT", 0, base)
    BY <1>3, <2>1 DEF Word, Top
  <2> QED BY <2>2, <2>3 DEF Framed
<1>5. Rest(m, 0, 0, 0, w)
  <2> DEFINE z == [c \in 0..(w + 1) |-> 0]
  <2>1. /\ \A c \in 0..(w + 1) : z[c] = 0
        /\ \A c \in 0..w : m[c] = "none" /\ z[c] = 0 /\ z[c + 1] = 0
        /\ 0 \in 0..(w + 1) /\ w + 1 \in 0..(w + 1)
    BY <1>1
  <2> HIDE DEF z
  <2>2. z[0] = 0 /\ z[w + 1] = 0
    BY <2>1
  <2>3. \A c \in 0..w : Turn(m[c], z[c], z[c], z[c + 1], z[c + 1])
    BY <2>1 DEF Turn
  <2>4. \A c \in 0..(w + 1) : z[c] \in Nat /\ z[c] \in {0, 1} /\ Room(z[c], z[c], c, w)
    BY <2>1 DEF Room
  <2> QED BY <2>2, <2>3, <2>4 DEF Rest
<1>6. Inside(s, w)
  BY <1>2, <1>3, <1>4 DEF Inside, HasLine, Gap
<1>7. Known(s, s.x)
  BY <1>2, PastStart DEF Known
<1>8. Depth(s) = 0 /\ Under(s) = 0
  BY <1>2, <1>3 DEF Depth, Under
<1> QED BY <1>2, <1>5, <1>6, <1>7, <1>8 DEF LineInv

-----------------------------------------------------------------------------
(* The array bounds *)

ScanInv ==
  /\ PlaceInv /\ LineInv(scan, img.w)
  /\ img \in Images /\ stack \in Stacks

LEMMA ScanInit == Init => ScanInv
<1> SUFFICES ASSUME Init PROVE ScanInv
  OBVIOUS
<1>1. PlaceInv /\ img \in Images /\ stack \in Stacks /\ scan = NewScan(img.w, stack)
  BY PlaceInit DEF Init
<1>2. img.w \in Nat \ {0}
  BY <1>1 DEF PlaceInv
<1>3. LineInv(scan, img.w)
  BY <1>1, <1>2, NewScanKeeps
<1> QED BY <1>1, <1>3 DEF ScanInv

LEMMA ScanNext == ScanInv /\ [Next]_vars => ScanInv'
<1> SUFFICES ASSUME ScanInv, [Next]_vars PROVE ScanInv'
  OBVIOUS
<1>1. PlaceInv'
  BY PlaceStep DEF ScanInv
<1>2. img' = img /\ stack' = stack
  BY DEF Next, vars, StackFull, Visit, Sortit, DeblendOverflow, Finish, Retry, GiveUp, Stopped
<1>3. PICK w \in Nat \ {0} : w = img.w
  BY DEF ScanInv, PlaceInv
<1>4. LineInv(scan, w)
  BY <1>3 DEF ScanInv
<1>5. CASE UNCHANGED scan
  BY <1>1, <1>2, <1>3, <1>4, <1>5 DEF ScanInv
<1>6. CASE StackFull
  <2> DEFINE truncated == Truncated
  <2>1. scan' = TakeCell(scan, truncated)
    BY <1>6 DEF StackFull
  <2> HIDE DEF truncated
  <2>2. Inside(scan, w) /\ LineFields \subseteq DOMAIN scan
    BY <1>4 DEF LineInv, Inside, HasLine
  <2>3. Same(scan, scan')
    BY <2>1, <2>2, TakeCellSame
  <2>4. LineInv(scan', w)
    BY <1>4, <2>2, <2>3, SameKeeps DEF LineInv
  <2> QED BY <1>1, <1>2, <1>3, <2>4 DEF ScanInv
<1>7. CASE Visit \/ Sortit
  <2> DEFINE lit == Lit
             truncated == Truncated
  <2>1. scan' = Visited(scan, lit, truncated, MinArea, w)
    BY <1>3, <1>7 DEF Visit, Sortit, NextScan
  <2>2. lit => scan.x < w
    <3>1. lit => <<scan.x, scan.y>> \in Pixels(w, img.h)
      BY <1>3 DEF Lit, Bright, Grid
    <3>2. scan.x \in 0..w
      BY <1>3 DEF ScanInv, PlaceInv
    <3> QED BY <3>1, <3>2 DEF Pixels
  <2> HIDE DEF lit, truncated
  <2>3. LineInv(scan', w)
    BY <1>4, <2>1, <2>2, VisitedKeeps
  <2> QED BY <1>1, <1>2, <1>3, <2>3 DEF ScanInv
<1>8. CASE Retry
  <2>1. scan' = NewScan(w, stack)
    BY <1>3, <1>8 DEF Retry
  <2>2. LineInv(scan', w)
    BY <2>1, NewScanKeeps
  <2> QED BY <1>1, <1>2, <1>3, <2>2 DEF ScanInv
<1> QED BY <1>5, <1>6, <1>7, <1>8 DEF Next, vars, DeblendOverflow, Finish, GiveUp, Stopped

LEMMA ScanTypes == ScanInv => TypeOK
<1> SUFFICES ASSUME ScanInv PROVE TypeOK
  OBVIOUS
<1>1. /\ img.w \in Nat \ {0} /\ img.h \in Nat \ {0} /\ img.val \in [Grid -> Nat]
  BY ExtractionAssumption DEF ScanInv, Grid
<1>2. PICK w \in Nat \ {0} : w = img.w
  BY <1>1
<1>3. LineInv(scan, w)
  BY <1>2 DEF ScanInv
<1>4. /\ Len(scan.psstack) <= w + 1
      /\ scan.x = 0 => scan.co = 0 /\ scan.psstack = <<>>
  BY <1>3, LineRoom
<1>5. scan.wild = FALSE /\ scan.co \in 0..w
  BY <1>3 DEF LineInv, Inside
<1> QED BY <1>1, <1>2, <1>4, <1>5 DEF TypeOK, ScanInv, PlaceInv, Statuses

(* No visit of any image reads or writes outside the w + 1 entries of the    *)
(* arrays of sep_extract(), whose indices come from earlier visits (start,   *)
(* end, co, the top of psstack), and every line ends with co and pstop 0,    *)
(* which only a call's beginning sets.                                       *)
THEOREM ScanStaysInBounds == Spec => []TypeOK
BY ScanInit, ScanNext, ScanTypes, PTL DEF Spec
-----------------------------------------------------------------------------
(* Chains of cells *)

(* mem[c] are the cells of the list that begins with c: no list runs into    *)
(* itself.                                                                   *)
Chains(next, mem) ==
  /\ IsFiniteSet(DOMAIN next) /\ None \notin DOMAIN next /\ DOMAIN next \subseteq Int
  /\ mem[None] = {}
  /\ \A c \in DOMAIN next : /\ next[c] \in DOMAIN next \union {None}
                            /\ mem[c] \in SUBSET DOMAIN next
                            /\ mem[c] = {c} \union mem[next[c]] /\ c \notin mem[next[c]]

LEMMA ChainShorter ==
  ASSUME NEW next, NEW mem, Chains(next, mem), NEW c \in DOMAIN next
  PROVE  /\ c \in mem[c] /\ IsFiniteSet(mem[c]) /\ IsFiniteSet(mem[next[c]])
         /\ Cardinality(mem[c]) = Cardinality(mem[next[c]]) + 1
         /\ Cardinality(mem[next[c]]) \in Nat /\ mem[next[c]] \in SUBSET DOMAIN next
<1>1. mem[c] = {c} \union mem[next[c]] /\ c \notin mem[next[c]] /\ mem[c] \in SUBSET DOMAIN next
  BY DEF Chains
<1>2. IsFiniteSet(mem[c])
  BY <1>1, FS_Subset DEF Chains
<1>3. IsFiniteSet(mem[next[c]])
  BY <1>1, <1>2, FS_Subset
<1>4. /\ Cardinality(mem[next[c]] \union {c}) = Cardinality(mem[next[c]]) + 1
      /\ Cardinality(mem[next[c]]) \in Nat
  BY <1>1, <1>3, FS_AddElement, FS_CardinalityType
<1>5. mem[c] = mem[next[c]] \union {c}
  BY <1>1
<1> QED BY <1>1, <1>2, <1>3, <1>4, <1>5

(* Induction along the lists, of sets. *)
LEMMA ChainInduction ==
  ASSUME NEW next, NEW mem, Chains(next, mem), NEW T, None \in T,
         \A c \in DOMAIN next : next[c] \in T => c \in T
  PROVE  DOMAIN next \subseteq T
<1> DEFINE S == {n \in Nat : \A c \in DOMAIN next : Cardinality(mem[c]) <= n => c \in T}
<1>1. 0 \in S
  <2>1. \A c \in DOMAIN next : Cardinality(mem[c]) # 0 /\ Cardinality(mem[c]) \in Nat /\ Cardinality(mem[c]) >= 1
    BY ChainShorter
  <2> QED BY <2>1
<1>2. ASSUME NEW n \in Nat, n \in S PROVE n + 1 \in S
  <2> SUFFICES ASSUME NEW c \in DOMAIN next, Cardinality(mem[c]) <= n + 1 PROVE c \in T
    OBVIOUS
  <2>1. PICK d : d = next[c]
    OBVIOUS
  <2>2. Cardinality(mem[c]) = Cardinality(mem[d]) + 1 /\ Cardinality(mem[d]) \in Nat
    BY <2>1, ChainShorter
  <2>3. d \in DOMAIN next \union {None}
    BY <2>1 DEF Chains
  <2>4. Cardinality(mem[d]) <= n
    BY <2>2
  <2>5. d \in T
    BY <1>2, <2>3, <2>4
  <2> QED BY <2>1, <2>5
<1>3. Nat \subseteq S
  <2> HIDE DEF S
  <2> QED BY <1>1, <1>2, NatSetInduction
<1>4. ASSUME NEW c \in DOMAIN next PROVE c \in T
  <2>1. Cardinality(mem[c]) \in Nat
    BY ChainShorter, FS_CardinalityType
  <2> QED BY <1>3, <2>1
<1> QED BY <1>4

(* The rest of a list is part of it. *)
LEMMA ChainTail ==
  ASSUME NEW next, NEW mem, Chains(next, mem), NEW d \in DOMAIN next \union {None}, NEW c \in mem[d]
  PROVE  c \in DOMAIN next /\ mem[c] \subseteq mem[d]
<1> DEFINE T == {e \in DOMAIN next \union {None} : \A a \in mem[e] : a \in DOMAIN next /\ mem[a] \subseteq mem[e]}
<1>1. None \in T
  BY DEF Chains
<1>2. ASSUME NEW e \in DOMAIN next, next[e] \in T PROVE e \in T
  <2>1. mem[e] = {e} \union mem[next[e]]
    BY DEF Chains
  <2> QED BY <1>2, <2>1
<1>3. DOMAIN next \subseteq T
  <2> HIDE DEF T
  <2> QED BY <1>1, <1>2, ChainInduction
<1>4. d \in T
  BY <1>1, <1>3
<1> QED BY <1>4

(* The cells of the lists once that of b is linked on to the cell a. *)
Gathers(mem2, next, mem, a, b) ==
  \A c \in DOMAIN next \union {None} : mem2[c] = IF a \in mem[c] THEN mem[c] \union mem[b] ELSE mem[c]

LEMMA ChainJoin ==
  ASSUME NEW next, NEW mem, Chains(next, mem), NEW a \in DOMAIN next, next[a] = None,
         NEW b \in DOMAIN next, a \notin mem[b],
         NEW next2, next2 = [next EXCEPT ![a] = b],
         NEW mem2, Gathers(mem2, next, mem, a, b)
  PROVE  Chains(next2, mem2)
<1>1. DOMAIN next2 = DOMAIN next /\ next2[a] = b /\ \A c \in DOMAIN next : c # a => next2[c] = next[c]
  OBVIOUS
<1>2. mem2[None] = {} /\ mem2[b] = mem[b]
  BY DEF Chains, Gathers
<1>3. mem[b] \in SUBSET DOMAIN next /\ mem[a] = {a}
  BY DEF Chains
<1>4. mem2[a] = {a} \union mem2[b] /\ a \notin mem2[b]
  BY <1>2, <1>3 DEF Gathers
<1>5. ASSUME NEW c \in DOMAIN next, c # a
      PROVE  mem2[c] = {c} \union mem2[next[c]] /\ c \notin mem2[next[c]]
  <2>1. mem[c] = {c} \union mem[next[c]] /\ c \notin mem[next[c]] /\ next[c] \in DOMAIN next \union {None}
    BY DEF Chains
  <2>2. a \in mem[c] <=> a \in mem[next[c]]
    BY <1>5, <2>1
  <2>3. a \in mem[c] => c \notin mem[b]
    BY ChainTail
  <2> QED BY <2>1, <2>2, <2>3 DEF Gathers
<1>6. ASSUME NEW c \in DOMAIN next PROVE mem2[c] \in SUBSET DOMAIN next
  <2>1. mem[c] \in SUBSET DOMAIN next /\ mem2[c] = IF a \in mem[c] THEN mem[c] \union mem[b] ELSE mem[c]
    BY DEF Chains, Gathers
  <2> QED BY <1>3, <2>1
<1> QED BY <1>1, <1>2, <1>4, <1>5, <1>6 DEF Chains

(* The cells of the lists once those after the cell a are cut off. *)
CutsOff(mem2, next, mem, a) ==
  \A c \in DOMAIN next \union {None} : mem2[c] = IF a \in mem[c] THEN mem[c] \ mem[next[a]] ELSE mem[c]

LEMMA ChainCut ==
  ASSUME NEW next, NEW mem, Chains(next, mem), NEW a \in DOMAIN next,
         NEW next2, next2 = [next EXCEPT ![a] = None],
         NEW mem2, CutsOff(mem2, next, mem, a)
  PROVE  Chains(next2, mem2)
<1>1. DOMAIN next2 = DOMAIN next /\ next2[a] = None /\ \A c \in DOMAIN next : c # a => next2[c] = next[c]
  OBVIOUS
<1>2. mem2[None] = {}
  BY DEF Chains, CutsOff
<1>3. mem[a] = {a} \union mem[next[a]] /\ a \notin mem[next[a]] /\ next[a] \in DOMAIN next \union {None}
  BY DEF Chains
<1>4. mem2[a] = {a} \union mem2[None] /\ a \notin mem2[None]
  BY <1>2, <1>3 DEF CutsOff
<1>5. ASSUME NEW c \in DOMAIN next, c # a
      PROVE  mem2[c] = {c} \union mem2[next[c]] /\ c \notin mem2[next[c]]
  <2>1. mem[c] = {c} \union mem[next[c]] /\ c \notin mem[next[c]] /\ next[c] \in DOMAIN next \union {None}
    BY DEF Chains
  <2>2. a \in mem[c] <=> a \in mem[next[c]]
    BY <1>5, <2>1
  <2>3. a \in mem[c] => c \notin mem[next[a]]
    BY <1>3, ChainTail
  <2> QED BY <2>1, <2>2, <2>3 DEF CutsOff
<1>6. ASSUME NEW c \in DOMAIN next PROVE mem2[c] \in SUBSET DOMAIN next
  <2>1. mem[c] \in SUBSET DOMAIN next /\ mem2[c] = IF a \in mem[c] THEN mem[c] \ mem[next[a]] ELSE mem[c]
    BY DEF Chains, CutsOff
  <2> QED BY <2>1
<1> QED BY <1>1, <1>2, <1>4, <1>5, <1>6 DEF Chains

-----------------------------------------------------------------------------
(* What CellsFrom returns *)

Follow(f, next, c) == f[c] = IF c = None THEN <<>> ELSE <<c>> \o f[next[c]]

LEMMA FollowingExists ==
  ASSUME NEW next, NEW mem, Chains(next, mem)
  PROVE  \E f : f = [c \in {None} \union DOMAIN next |-> IF c = None THEN <<>> ELSE <<c>> \o f[next[c]]]
<1> DEFINE C == {None} \union DOMAIN next
           Good(f, n) == /\ f = [c \in C |-> f[c]]
                         /\ \A c \in C : Cardinality(mem[c]) <= n => Follow(f, next, c)
           N == {n \in Nat : \E f : Good(f, n)}
<1>1. 0 \in N
  <2> DEFINE f == [c \in C |-> <<>>]
  <2>1. ASSUME NEW c \in C, Cardinality(mem[c]) <= 0 PROVE Follow(f, next, c)
    <3>1. c = None
      <4>1. c \in DOMAIN next => Cardinality(mem[c]) >= 1 /\ Cardinality(mem[c]) \in Nat
        BY ChainShorter
      <4> QED BY <2>1, <4>1
    <3> QED BY <3>1 DEF Follow
  <2>2. f = [c \in C |-> f[c]]
    OBVIOUS
  <2> HIDE DEF f, C
  <2>3. Good(f, 0)
    BY <2>1, <2>2
  <2> HIDE DEF Good
  <2> QED BY <2>3
<1>2. ASSUME NEW n \in Nat, n \in N PROVE n + 1 \in N
  <2>1. PICK f : Good(f, n)
    BY <1>2
  <2> DEFINE g == [c \in C |-> IF c = None THEN <<>> ELSE <<c>> \o f[next[c]]]
  <2>2. ASSUME NEW c \in C, Cardinality(mem[c]) <= n + 1 PROVE Follow(g, next, c)
    <3>1. CASE c = None
      BY <3>1 DEF Follow
    <3>2. CASE c # None
      <4>1. PICK d : d = next[c]
        OBVIOUS
      <4>2. c \in DOMAIN next /\ d \in C
        BY <3>2, <4>1 DEF Chains
      <4>3. Cardinality(mem[c]) = Cardinality(mem[d]) + 1 /\ Cardinality(mem[d]) \in Nat
        BY <4>1, <4>2, ChainShorter
      <4>4. Cardinality(mem[d]) <= n
        BY <2>2, <4>3
      <4>5. Follow(f, next, d)
        BY <2>1, <4>2, <4>4
      <4>6. g[c] = <<c>> \o f[d] /\ g[d] = IF d = None THEN <<>> ELSE <<d>> \o f[next[d]]
        BY <3>2, <4>1, <4>2
      <4> HIDE DEF g
      <4> QED BY <3>2, <4>1, <4>5, <4>6 DEF Follow
    <3> QED BY <3>1, <3>2
  <2>3. g = [c \in C |-> g[c]]
    OBVIOUS
  <2> HIDE DEF g, C
  <2>4. Good(g, n + 1)
    BY <2>2, <2>3
  <2> HIDE DEF Good
  <2> QED BY <2>4
<1>3. PICK n \in Nat : n = Cardinality(DOMAIN next)
  BY FS_CardinalityType DEF Chains
<1>4. n \in N
  <2> HIDE DEF N
  <2>1. Nat \subseteq N
    BY <1>1, <1>2, NatSetInduction
  <2> QED BY <2>1
<1>5. PICK f : Good(f, n)
  BY <1>4
<1>6. ASSUME NEW c \in C PROVE Follow(f, next, c)
  <2>1. mem[c] \in SUBSET DOMAIN next /\ IsFiniteSet(DOMAIN next)
    BY DEF Chains
  <2>2. Cardinality(mem[c]) <= n
    BY <1>3, <2>1, FS_Subset
  <2> QED BY <1>5, <2>2
<1>7. f = [c \in C |-> f[c]]
  BY <1>5
<1>8. f = [c \in C |-> IF c = None THEN <<>> ELSE <<c>> \o f[next[c]]]
  BY <1>6, <1>7, Zenon DEF Follow
<1> QED BY <1>8

(* The cells of a list, in order: each once, and the one without a successor *)
(* last.                                                                     *)
Runs(q, next, mem, c) ==
  /\ q \in Seq(DOMAIN next) /\ Len(q) = Cardinality(mem[c])
  /\ {q[k] : k \in 1..Len(q)} = mem[c]
  /\ \A e \in mem[c] : next[e] = None => q[Len(q)] = e

LEMMA RunsOn ==
  ASSUME NEW next, NEW mem, Chains(next, mem), NEW c \in DOMAIN next,
         NEW t, Runs(t, next, mem, next[c]), NEW q, q = <<c>> \o t
  PROVE  Runs(q, next, mem, c)
<1>1. PICK D, n : D = DOMAIN next /\ n = Len(t)
  OBVIOUS
<1>2. t \in Seq(D) /\ n \in Nat /\ <<c>> \in Seq(D) /\ Len(<<c>>) = 1 /\ <<c>>[1] = c
  BY <1>1 DEF Runs
<1>3. /\ q \in Seq(D) /\ Len(q) = 1 + n
      /\ \A i \in 1..(1 + n) : q[i] = IF i <= 1 THEN <<c>>[i] ELSE t[i - 1]
  BY <1>1, <1>2, ConcatProperties
<1>4. q[1] = c /\ \A i \in 1..n : q[i + 1] = t[i]
  <2>1. \A i \in 1..n : i + 1 \in 1..(1 + n) /\ ~(i + 1 <= 1) /\ (i + 1) - 1 = i
    BY <1>2
  <2>2. 1 \in 1..(1 + n) /\ 1 <= 1
    BY <1>2
  <2> QED BY <1>2, <1>3, <2>1, <2>2
<1>5. mem[c] = {c} \union mem[next[c]] /\ c \notin mem[next[c]] /\ next[c] \in D \union {None} /\ mem[None] = {}
  BY <1>1 DEF Chains
<1>6. Len(q) = Cardinality(mem[c])
  <2>1. Cardinality(mem[c]) = Cardinality(mem[next[c]]) + 1 /\ Cardinality(mem[next[c]]) \in Nat
    BY ChainShorter
  <2> QED BY <1>1, <1>2, <1>3, <2>1 DEF Runs
<1>7. {q[k] : k \in 1..Len(q)} = mem[c]
  <2>1. {t[k] : k \in 1..n} = mem[next[c]]
    BY <1>1 DEF Runs
  <2>2. ASSUME NEW k \in 1..(1 + n) PROVE q[k] \in mem[c]
    <3>1. CASE k = 1
      BY <1>4, <1>5, <3>1
    <3>2. CASE k # 1
      <4>1. PICK i \in 1..n : k = i + 1
        <5>1. k - 1 \in 1..n /\ k = (k - 1) + 1
          BY <1>2, <3>2
        <5> QED BY <5>1
      <4>2. q[k] = t[i]
        BY <1>4, <4>1
      <4> QED BY <1>5, <2>1, <4>2
    <3> QED BY <3>1, <3>2
  <2>3. ASSUME NEW e \in mem[c] PROVE \E k \in 1..(1 + n) : q[k] = e
    <3>1. CASE e = c
      <4>1. 1 \in 1..(1 + n)
        BY <1>2
      <4> QED BY <1>4, <3>1, <4>1
    <3>2. CASE e # c
      <4>1. PICK i \in 1..n : t[i] = e
        BY <1>5, <2>1, <3>2
      <4>2. i + 1 \in 1..(1 + n)
        BY <1>2
      <4> QED BY <1>4, <4>1, <4>2
    <3> QED BY <3>1, <3>2
  <2>4. {q[k] : k \in 1..(1 + n)} = mem[c]
    BY ONLY <2>2, <2>3, Zenon
  <2> QED BY <1>3, <2>4
<1>8. ASSUME NEW e \in mem[c], next[e] = None PROVE q[Len(q)] = e
  <2>1. CASE e = c
    <3>1. n = 0
      BY <1>1, <1>5, <1>8, <2>1, FS_EmptySet DEF Runs
    <3> QED BY <1>3, <1>4, <2>1, <3>1
  <2>2. CASE e # c
    <3>1. e \in mem[next[c]] /\ t[n] = e
      BY <1>1, <1>5, <1>8, <2>2 DEF Runs
    <3>2. n # 0
      <4>1. mem[next[c]] # {} /\ IsFiniteSet(mem[next[c]])
        BY <3>1, ChainShorter
      <4> QED BY <1>1, <4>1, FS_EmptySet DEF Runs
    <3>3. n \in 1..n /\ 1 + n = n + 1
      BY <1>2, <3>2
    <3> QED BY <1>3, <1>4, <3>1, <3>3
  <2> QED BY <2>1, <2>2
<1> QED BY <1>1, <1>3, <1>6, <1>7, <1>8 DEF Runs

LEMMA CellsFromRuns ==
  ASSUME NEW s, NEW mem, Chains(s.nextpix, mem), NEW c \in {None} \union DOMAIN s.nextpix
  PROVE  Runs(CellsFrom(s, c), s.nextpix, mem, c)
<1> DEFINE next == s.nextpix
           f == CHOOSE f : f = [d \in {None} \union DOMAIN next |-> IF d = None THEN <<>> ELSE <<d>> \o f[next[d]]]
<1>1. CellsFrom(s, c) = f[c]
  BY DEF CellsFrom
<1>2. f = [d \in {None} \union DOMAIN next |-> IF d = None THEN <<>> ELSE <<d>> \o f[next[d]]]
  BY FollowingExists
<1> HIDE DEF f
<1>3. \A d \in {None} \union DOMAIN next : f[d] = IF d = None THEN <<>> ELSE <<d>> \o f[next[d]]
  BY <1>2, Zenon
<1> DEFINE T == {d \in {None} \union DOMAIN next : Runs(f[d], next, mem, d)}
<1>4. None \in T
  <2>1. f[None] = <<>> /\ mem[None] = {}
    BY <1>3 DEF Chains
  <2>2. <<>> \in Seq(DOMAIN next) /\ Len(<<>>) = 0 /\ Cardinality({}) = 0
    BY EmptySeq, FS_EmptySet
  <2>3. Runs(<<>>, next, mem, None)
    BY <2>1, <2>2 DEF Runs
  <2> QED BY <2>1, <2>3
<1>5. ASSUME NEW d \in DOMAIN next, next[d] \in T PROVE d \in T
  <2>1. d # None
    BY DEF Chains
  <2>2. f[d] = <<d>> \o f[next[d]]
    BY <1>3, <2>1
  <2> HIDE DEF next
  <2>3. Runs(f[d], next, mem, d)
    BY <1>5, <2>2, RunsOn DEF next
  <2> QED BY <2>3
<1>6. DOMAIN next \subseteq T
  <2> HIDE DEF T
  <2> QED BY <1>4, <1>5, ChainInduction
<1>7. c \in T
  BY <1>4, <1>6
<1> QED BY <1>1, <1>7
-----------------------------------------------------------------------------
(* Lists of cells *)

IsChain(l, next, mem) ==
  l.first \in DOMAIN next /\ l.last \in mem[l.first] /\ next[l.last] = None

Free == <<"free", 0>>

(* Every cell is in the list of one of the places P, and the records of the  *)
(* lists count their cells.                                                  *)
Sound(next, P, L, mem) ==
  /\ Chains(next, mem)
  /\ \A at \in P : L[at] = Blank \/ IsChain(L[at], next, mem)
  /\ \A at \in P \ {Free} : L[at].pixnb = Cardinality(mem[L[at].first])
  /\ \A a, b \in P : a # b => mem[L[a].first] \intersect mem[L[b].first] = {}
  /\ \A c \in DOMAIN next : \E at \in P : c \in mem[L[at].first]

LEMMA BlankFields == Blank.first = None /\ Blank.last = None /\ Blank.pixnb = 0 /\ Blank.flag = FALSE
BY DEF Blank

LEMMA ListFields ==
  ASSUME NEW next, NEW P, NEW L, NEW mem, Sound(next, P, L, mem), NEW a \in P
  PROVE  /\ L[a].first \in DOMAIN next \union {None} /\ L[a].last \in DOMAIN next \union {None}
         /\ mem[L[a].first] \in SUBSET DOMAIN next /\ IsFiniteSet(mem[L[a].first])
         /\ L[a].first = None <=> L[a] = Blank
         /\ L[a].last = None <=> L[a] = Blank
         /\ L[a].first # None => IsChain(L[a], next, mem) /\ L[a].first \in mem[L[a].first]
         /\ L[a].first = None => mem[L[a].first] = {}
<1>1. None \notin DOMAIN next /\ mem[None] = {} /\ Chains(next, mem)
  BY DEF Sound, Chains
<1>2. CASE L[a] = Blank
  BY <1>1, <1>2, BlankFields, FS_EmptySet
<1>3. CASE L[a] # Blank
  <2>1. IsChain(L[a], next, mem)
    BY <1>3 DEF Sound
  <2>2. L[a].first \in DOMAIN next /\ L[a].last \in mem[L[a].first]
    BY <2>1 DEF IsChain
  <2>3. mem[L[a].first] \in SUBSET DOMAIN next /\ IsFiniteSet(mem[L[a].first]) /\ L[a].first \in mem[L[a].first]
    BY <1>1, <2>2, ChainShorter DEF Chains
  <2> QED BY <1>1, <1>3, <2>1, <2>2, <2>3
<1> QED BY <1>2, <1>3

(* A list is named by another place. *)
LEMMA ListsMoved ==
  ASSUME NEW next, NEW P, NEW L, NEW mem, Sound(next, P, L, mem),
         NEW a \in P, NEW b, b \notin P, a # Free, NEW P2, P2 = (P \ {a}) \union {b},
         NEW L2, L2[b] = L[a], \A at \in P \ {a} : L2[at] = L[at]
  PROVE  Sound(next, P2, L2, mem)
<1>1. \A at \in P2 : L2[at] = Blank \/ IsChain(L2[at], next, mem)
  BY DEF Sound
<1>2. \A at \in P2 \ {Free} : L2[at].pixnb = Cardinality(mem[L2[at].first])
  BY DEF Sound
<1>3. ASSUME NEW c \in P2, NEW d \in P2, c # d PROVE mem[L2[c].first] \intersect mem[L2[d].first] = {}
  <2>1. CASE c = b
    <3>1. d \in P /\ d # a /\ L2[d] = L[d] /\ L2[c] = L[a]
      BY <1>3, <2>1
    <3> QED BY <3>1 DEF Sound
  <2>2. CASE c # b
    <3>1. c \in P /\ c # a /\ L2[c] = L[c]
      BY <2>2
    <3>2. CASE d = b
      BY <3>1, <3>2 DEF Sound
    <3>3. CASE d # b
      BY <1>3, <3>1, <3>3 DEF Sound
    <3> QED BY <3>2, <3>3
  <2> QED BY <2>1, <2>2
<1>4. ASSUME NEW c \in DOMAIN next PROVE \E at \in P2 : c \in mem[L2[at].first]
  <2>1. PICK at \in P : c \in mem[L[at].first]
    BY DEF Sound
  <2>2. CASE at = a
    BY <2>1, <2>2
  <2>3. CASE at # a
    BY <2>1, <2>3
  <2> QED BY <2>2, <2>3
<1>5. Chains(next, mem)
  BY DEF Sound
<1> QED BY <1>1, <1>2, <1>3, <1>4, <1>5 DEF Sound

(* A place may name a list without cells. *)
LEMMA BlankAdded ==
  ASSUME NEW next, NEW P, NEW L, NEW mem, Sound(next, P, L, mem),
         NEW b, b \notin P, NEW P2, P2 = P \union {b},
         NEW L2, L2[b] = Blank, \A at \in P : L2[at] = L[at]
  PROVE  Sound(next, P2, L2, mem)
<1>1. \A at \in P2 : L2[at] = Blank \/ IsChain(L2[at], next, mem)
  BY DEF Sound
<1>2. mem[L2[b].first] = {} /\ L2[b].pixnb = Cardinality(mem[L2[b].first])
  BY BlankFields, FS_EmptySet DEF Sound, Chains
<1>3. \A c, d \in P2 : c # d => mem[L2[c].first] \intersect mem[L2[d].first] = {}
  BY <1>2 DEF Sound
<1>4. \A c \in DOMAIN next : \E at \in P2 : c \in mem[L2[at].first]
  BY DEF Sound
<1>5. \A at \in P2 \ {Free} : L2[at].pixnb = Cardinality(mem[L2[at].first])
  BY <1>2 DEF Sound
<1>6. Chains(next, mem)
  BY DEF Sound
<1> QED BY <1>1, <1>3, <1>4, <1>5, <1>6 DEF Sound

LEMMA BlankDropped ==
  ASSUME NEW next, NEW P, NEW L, NEW mem, Sound(next, P, L, mem),
         NEW b \in P, L[b] = Blank, NEW P2, P2 = P \ {b},
         NEW L2, \A at \in P2 : L2[at] = L[at]
  PROVE  Sound(next, P2, L2, mem)
<1>1. mem[L[b].first] = {}
  BY BlankFields DEF Sound, Chains
<1>2. \A c \in DOMAIN next : \E at \in P2 : c \in mem[L2[at].first]
  BY <1>1 DEF Sound
<1> QED BY <1>2 DEF Sound

Linked(next2, next, a, b) == next2 = [next EXCEPT ![a.last] = b.first]

(* One list is linked on to another; the place r of one of them names both. *)
LEMMA ListsLinked ==
  ASSUME NEW next, NEW P, NEW L, NEW mem, Sound(next, P, L, mem),
         NEW a \in P, NEW b \in P, a # b, L[a].first # None, L[b].first # None,
         NEW next2, Linked(next2, next, L[a], L[b]),
         NEW r \in {a, b}, NEW P2, P2 = (P \ {a, b}) \union {r},
         NEW L2, L2[r].first = L[a].first, L2[r].last = L[b].last, \A at \in P \ {a, b} : L2[at] = L[at],
         r = Free \/ (a # Free /\ b # Free /\ L2[r].pixnb = L[a].pixnb + L[b].pixnb)
  PROVE  \E mem2 : Sound(next2, P2, L2, mem2)
<1>1. PICK e, f, g, l : e = L[a].last /\ f = L[a].first /\ g = L[b].first /\ l = L[b].last
  OBVIOUS
<1>2. /\ f \in DOMAIN next /\ e \in mem[f] /\ next[e] = None /\ e \in DOMAIN next
      /\ g \in DOMAIN next /\ l \in mem[g] /\ next[l] = None
      /\ IsFiniteSet(mem[f]) /\ IsFiniteSet(mem[g])
  BY <1>1, ListFields DEF IsChain
<1>3. mem[f] \intersect mem[g] = {} /\ Chains(next, mem)
  BY <1>1 DEF Sound
<1>4. e \notin mem[g]
  BY <1>2, <1>3
<1>5. PICK mem2 : \A c \in DOMAIN next \union {None} : mem2[c] = IF e \in mem[c] THEN mem[c] \union mem[g] ELSE mem[c]
  <2> WITNESS [c \in DOMAIN next \union {None} |-> IF e \in mem[c] THEN mem[c] \union mem[g] ELSE mem[c]]
  <2> QED OBVIOUS
<1>6. next2 = [next EXCEPT ![e] = g] /\ DOMAIN next2 = DOMAIN next
  BY <1>1 DEF Linked
<1>7. Chains(next2, mem2)
  <2>1. e \in DOMAIN next /\ next[e] = None /\ g \in DOMAIN next
    BY <1>2
  <2>2. Chains(next, mem)
    BY <1>3
  <2>3. next2 = [next EXCEPT ![e] = g]
    BY <1>6
  <2>4. Gathers(mem2, next, mem, e, g)
    BY <1>5 DEF Gathers
  <2> QED BY ONLY <1>4, <2>1, <2>2, <2>3, <2>4, ChainJoin
<1>8. mem2[f] = mem[f] \union mem[g]
  BY <1>2, <1>5
<1>9. ASSUME NEW at \in P \ {a, b}
      PROVE  mem2[L2[at].first] = mem[L[at].first] /\ (L2[at] = Blank \/ IsChain(L2[at], next2, mem2))
  <2>1. L2[at] = L[at] /\ at \in P /\ mem[f] \intersect mem[L[at].first] = {}
    BY <1>1, <1>9 DEF Sound
  <2>2. L[at].first \in DOMAIN next \union {None} /\ mem[L[at].first] \in SUBSET DOMAIN next
    BY <2>1, ListFields
  <2>3. e \notin mem[L[at].first]
    BY <1>2, <2>1
  <2>4. mem2[L2[at].first] = mem[L[at].first]
    BY <1>5, <2>1, <2>2, <2>3
  <2>5. ASSUME L[at] # Blank PROVE IsChain(L2[at], next2, mem2)
    <3>1. IsChain(L[at], next, mem)
      BY <2>1, <2>5 DEF Sound
    <3>2. L[at].last # e /\ L[at].last \in DOMAIN next
      BY <2>2, <2>3, <3>1 DEF IsChain
    <3>3. next2[L[at].last] = next[L[at].last]
      BY <1>6, <3>2
    <3> QED BY <1>6, <2>1, <2>4, <3>1, <3>3 DEF IsChain
  <2> QED BY <2>1, <2>4, <2>5
<1>10. IsChain(L2[r], next2, mem2) /\ mem2[L2[r].first] = mem[f] \union mem[g]
  <2>1. l # e /\ l \in DOMAIN next
    BY <1>2, <1>3 DEF Chains
  <2>2. next2[l] = None
    BY <1>2, <1>6, <2>1
  <2> QED BY <1>1, <1>2, <1>6, <1>8, <2>2 DEF IsChain
<1>11. ASSUME NEW c \in P2, NEW d \in P2, c # d PROVE mem2[L2[c].first] \intersect mem2[L2[d].first] = {}
  <2>1. ASSUME NEW at \in P \ {a, b} PROVE mem2[L2[r].first] \intersect mem2[L2[at].first] = {}
    <3>1. mem[f] \intersect mem[L[at].first] = {} /\ mem[g] \intersect mem[L[at].first] = {}
      BY <1>1 DEF Sound
    <3> QED BY <1>9, <1>10, <3>1
  <2>2. CASE c = r
    BY <1>11, <2>1, <2>2
  <2>3. CASE d = r
    BY <1>11, <2>1, <2>3
  <2>4. CASE c # r /\ d # r
    BY <1>9, <1>11, <2>4 DEF Sound
  <2> QED BY <2>2, <2>3, <2>4
<1>12. ASSUME NEW c \in DOMAIN next2 PROVE \E at \in P2 : c \in mem2[L2[at].first]
  <2>1. PICK at \in P : c \in mem[L[at].first]
    BY <1>6 DEF Sound
  <2>2. CASE at \in {a, b}
    BY <1>1, <1>10, <2>1, <2>2
  <2>3. CASE at \notin {a, b}
    BY <1>9, <2>1, <2>3
  <2> QED BY <2>2, <2>3
<1>13. ASSUME NEW at \in P2 \ {Free} PROVE L2[at].pixnb = Cardinality(mem2[L2[at].first])
  <2>1. CASE at = r
    <3>1. L[a].pixnb = Cardinality(mem[f]) /\ L[b].pixnb = Cardinality(mem[g]) /\ L2[r].pixnb = L[a].pixnb + L[b].pixnb
      BY <1>1, <1>13, <2>1 DEF Sound
    <3>2. Cardinality(mem[f] \union mem[g]) = Cardinality(mem[f]) + Cardinality(mem[g])
      <4>1. Cardinality(mem[f]) \in Nat /\ Cardinality(mem[g]) \in Nat /\ Cardinality(mem[f] \intersect mem[g]) = 0
        BY <1>2, <1>3, FS_CardinalityType, FS_EmptySet
      <4>2. Cardinality(mem[f] \union mem[g]) = Cardinality(mem[f]) + Cardinality(mem[g]) - Cardinality(mem[f] \intersect mem[g])
        BY <1>2, FS_Union
      <4> QED BY ONLY <4>1, <4>2
    <3> QED BY <1>10, <2>1, <3>1, <3>2
  <2>2. CASE at # r
    BY <1>9, <1>13, <2>2 DEF Sound
  <2> QED BY <2>1, <2>2
<1>14. \A at \in P2 : L2[at] = Blank \/ IsChain(L2[at], next2, mem2)
  BY <1>9, <1>10
<1> QED BY <1>7, <1>11, <1>12, <1>13, <1>14 DEF Sound

Cur == <<"cur", 0>>

LEMMA PlainPlaces == Cur # Free /\ \A i : <<"info", i>> \notin {Free, Cur} /\ <<"store", i>> \notin {Free, Cur}
BY DEF Cur, Free

LEMMA JoinedFields ==
  ASSUME NEW a, NEW b, NEW j, j = Joined(a, b)
  PROVE  /\ j.pixnb = a.pixnb + b.pixnb /\ j.flag = (a.flag \/ b.flag)
         /\ j.first = (IF a.first = None THEN b.first ELSE a.first)
         /\ j.last = (IF a.first = None \/ b.last # None THEN b.last ELSE a.last)
BY DEF Joined

(* update(): one list is joined to another, either may have no cell. *)
LEMMA ListsJoined ==
  ASSUME NEW next, NEW P, NEW L, NEW mem, Sound(next, P, L, mem),
         NEW a \in P \ {Free}, NEW b \in P \ {Free}, a # b,
         NEW next2, L[a].first # None /\ L[b].last # None => Linked(next2, next, L[a], L[b]),
                    ~(L[a].first # None /\ L[b].last # None) => next2 = next,
         NEW P2, P2 = P \ {b},
         NEW L2, L2[a] = Joined(L[a], L[b]), \A at \in P \ {a, b} : L2[at] = L[at]
  PROVE  /\ \E mem2 : Sound(next2, P2, L2, mem2)
         /\ L[a] # Blank \/ L[b] # Blank => L2[a] # Blank
<1>1. /\ (L[a].first = None <=> L[a] = Blank) /\ (L[b].first = None <=> L[b] = Blank)
      /\ (L[a].last = None <=> L[a] = Blank) /\ (L[b].last = None <=> L[b] = Blank)
  BY ListFields
<1>2. /\ L2[a].pixnb = L[a].pixnb + L[b].pixnb
      /\ L2[a].first = (IF L[a].first = None THEN L[b].first ELSE L[a].first)
      /\ L2[a].last = (IF L[a].first = None \/ L[b].last # None THEN L[b].last ELSE L[a].last)
  BY JoinedFields
<1>3. L[a] # Blank \/ L[b] # Blank => L2[a] # Blank
  BY <1>1, <1>2, BlankFields
<1>4. Chains(next, mem) /\ mem[None] = {}
  BY DEF Sound, Chains
<1>5. L[a].pixnb = Cardinality(mem[L[a].first]) /\ L[b].pixnb = Cardinality(mem[L[b].first])
  BY DEF Sound
<1>6. IsFiniteSet(mem[L[a].first]) /\ IsFiniteSet(mem[L[b].first])
  BY ListFields
<1>7. L[a].pixnb \in Nat /\ L[b].pixnb \in Nat
  BY <1>5, <1>6, FS_CardinalityType
<1>8. CASE L[a] # Blank /\ L[b] # Blank
  <2>1. Linked(next2, next, L[a], L[b]) /\ L[a].first # None /\ L[b].first # None
    BY <1>1, <1>8
  <2>2. L2[a].first = L[a].first /\ L2[a].last = L[b].last
    BY <1>1, <1>2, <1>8
  <2>3. /\ a \in P /\ b \in P /\ a # b /\ a \in {a, b} /\ a # Free /\ b # Free
        /\ P2 = (P \ {a, b}) \union {a} /\ \A at \in P \ {a, b} : L2[at] = L[at]
    OBVIOUS
  <2>4. Sound(next, P, L, mem) /\ (a = Free \/ (a # Free /\ b # Free /\ L2[a].pixnb = L[a].pixnb + L[b].pixnb))
    BY <1>2
  <2>5. \E mem2 : Sound(next2, P2, L2, mem2)
    BY ONLY <2>1, <2>2, <2>3, <2>4, ListsLinked
  <2> QED BY <1>3, <2>5
<1>9. CASE L[b] = Blank
  <2>1. next2 = next
    BY <1>1, <1>9
  <2>2. L2[a].pixnb = L[a].pixnb /\ L2[a].first = L[a].first /\ L2[a].last = L[a].last
    BY <1>1, <1>2, <1>7, <1>9, BlankFields
  <2>3. L[a] = Blank => L2[a] = Blank
    <3>1. Blank.pixnb + Blank.pixnb = 0 /\ (Blank.flag \/ Blank.flag) = FALSE
      BY BlankFields
    <3>2. Joined(Blank, Blank) = [pixnb |-> 0, flag |-> FALSE, first |-> None, last |-> None]
      BY <3>1, BlankFields, Zenon DEF Joined
    <3> QED BY <1>9, <3>2 DEF Blank
  <2>4. Sound(next, P2, L2, mem)
    <3>1. \A at \in P2 : L2[at] = Blank \/ IsChain(L2[at], next, mem)
      BY <2>2, <2>3 DEF Sound, IsChain
    <3>2. \A at \in P2 : L2[at].first = L[at].first /\ L2[at].pixnb = L[at].pixnb
      BY <2>2
    <3>3. mem[L[b].first] = {}
      BY <1>4, <1>9, BlankFields
    <3>4. \A c \in DOMAIN next : \E at \in P2 : c \in mem[L2[at].first]
      BY <3>2, <3>3 DEF Sound
    <3>5. \A at \in P2 \ {Free} : L2[at].pixnb = Cardinality(mem[L2[at].first])
      BY <3>2 DEF Sound
    <3>6. \A c, d \in P2 : c # d => mem[L2[c].first] \intersect mem[L2[d].first] = {}
      BY <3>2 DEF Sound
    <3> QED BY <1>4, <3>1, <3>4, <3>5, <3>6 DEF Sound
  <2> QED BY <1>3, <2>1, <2>4
<1>10. CASE L[a] = Blank /\ L[b] # Blank
  <2>1. next2 = next
    BY <1>1, <1>10
  <2>2. L2[a].pixnb = L[b].pixnb /\ L2[a].first = L[b].first /\ L2[a].last = L[b].last
    BY <1>1, <1>2, <1>7, <1>10, BlankFields
  <2>3. Sound(next, P2, L2, mem)
    <3>1. IsChain(L[b], next, mem) /\ mem[L[a].first] = {}
      BY <1>4, <1>10, BlankFields DEF Sound
    <3>2. \A at \in P2 : L2[at] = Blank \/ IsChain(L2[at], next, mem)
      BY <2>2, <3>1 DEF Sound, IsChain
    <3>3. ASSUME NEW c \in DOMAIN next PROVE \E at \in P2 : c \in mem[L2[at].first]
      <4>1. PICK at \in P : c \in mem[L[at].first]
        BY DEF Sound
      <4>2. CASE at = b
        BY <2>2, <4>1, <4>2
      <4>3. CASE at # b
        BY <3>1, <4>1, <4>3
      <4> QED BY <4>2, <4>3
    <3>4. \A at \in P2 \ {Free} : L2[at].pixnb = Cardinality(mem[L2[at].first])
      BY <2>2 DEF Sound
    <3>5. ASSUME NEW c \in P2, NEW d \in P2, c # d PROVE mem[L2[c].first] \intersect mem[L2[d].first] = {}
      <4>1. \A at \in P \ {a, b} : L2[at] = L[at] /\ mem[L[b].first] \intersect mem[L[at].first] = {}
        BY DEF Sound
      <4>2. CASE c = a
        BY <2>2, <3>5, <4>1, <4>2
      <4>3. CASE d = a
        BY <2>2, <3>5, <4>1, <4>3
      <4>4. CASE c # a /\ d # a
        BY <3>5, <4>4 DEF Sound
      <4> QED BY <4>2, <4>3, <4>4
    <3> QED BY <1>4, <3>2, <3>3, <3>4, <3>5 DEF Sound
  <2> QED BY <1>3, <2>1, <2>3
<1> QED BY <1>8, <1>9, <1>10

(* "Free the chain-list": a list is put before the free cells. *)
PutsBefore(L, L2, P, a) ==
  /\ L2[Free].first = L[a].first /\ L2[Free].last = L[Free].last
  /\ \A at \in P \ {a, Free} : L2[at] = L[at]

LEMMA ListFreed ==
  ASSUME NEW next, NEW P, NEW L, NEW mem, Sound(next, P, L, mem),
         Free \in P, L[Free].first # None, NEW a \in P \ {Free}, L[a] # Blank,
         NEW next2, Linked(next2, next, L[a], L[Free]),
         NEW P2, P2 = P \ {a},
         NEW L2, PutsBefore(L, L2, P, a)
  PROVE  (\E mem2 : Sound(next2, P2, L2, mem2)) /\ L2[Free].first # L2[Free].last
<1>1. L[a].first # None
  BY ListFields
<1>2. P2 = (P \ {a, Free}) \union {Free}
  OBVIOUS
<1>3. PICK b \in P : b = Free
  OBVIOUS
<1>4. \E mem2 : Sound(next2, P2, L2, mem2)
  <2>1. /\ a \in P /\ b \in P /\ a # b /\ L[a].first # None /\ L[b].first # None
        /\ Linked(next2, next, L[a], L[b])
        /\ b \in {a, b} /\ b = Free /\ Sound(next, P, L, mem)
        /\ P2 = (P \ {a, b}) \union {b} /\ L2[b].first = L[a].first /\ L2[b].last = L[b].last
        /\ \A at \in P \ {a, b} : L2[at] = L[at]
    BY <1>1, <1>2, <1>3 DEF PutsBefore
  <2>2. b = Free \/ (a # Free /\ b # Free /\ L2[b].pixnb = L[a].pixnb + L[b].pixnb)
    BY <2>1
  <2> QED BY ONLY <2>1, <2>2, ListsLinked
<1>5. L[a].first \in mem[L[a].first] /\ L[Free].last \in mem[L[Free].first]
  BY <1>1, ListFields DEF IsChain
<1>6. mem[L[a].first] \intersect mem[L[Free].first] = {}
  BY DEF Sound
<1> QED BY <1>4, <1>5, <1>6 DEF PutsBefore

Unlinked(next2, next, c) == next2 = [next EXCEPT ![c] = None]

(* The first free cell becomes a list of its own. *)
TakesFirst(L, L2, P, next, cn) ==
  /\ cn = L[Free].first /\ cn # None /\ cn # L[Free].last
  /\ L2[Free].first = next[cn] /\ L2[Free].last = L[Free].last
  /\ L2[Cur].pixnb = 1 /\ L2[Cur].first = cn /\ L2[Cur].last = cn
  /\ \A at \in P \ {Free} : L2[at] = L[at]

LEMMA CellTaken ==
  ASSUME NEW next, NEW P, NEW L, NEW mem, Sound(next, P, L, mem), Free \in P, Cur \notin P,
         NEW cn, NEW L2, TakesFirst(L, L2, P, next, cn),
         NEW next2, Unlinked(next2, next, cn), NEW P2, P2 = P \union {Cur}
  PROVE  (\E mem2 : Sound(next2, P2, L2, mem2)) /\ L2[Cur] # Blank /\ next[cn] # None
<1>0. /\ cn = L[Free].first /\ cn # None /\ cn # L[Free].last
      /\ L2[Free].first = next[cn] /\ L2[Free].last = L[Free].last
      /\ L2[Cur].pixnb = 1 /\ L2[Cur].first = cn /\ L2[Cur].last = cn
      /\ \A at \in P \ {Free} : L2[at] = L[at]
  BY DEF TakesFirst
<1>1. Chains(next, mem) /\ mem[None] = {} /\ None \notin DOMAIN next
  BY DEF Sound, Chains
<1>2. IsChain(L[Free], next, mem) /\ cn \in DOMAIN next /\ mem[cn] \in SUBSET DOMAIN next
  BY <1>0, ListFields DEF IsChain
<1>3. PICK last \in mem[cn] : last = L[Free].last /\ next[last] = None /\ last # cn /\ last \in DOMAIN next
  BY <1>0, <1>2 DEF IsChain
<1>4. mem[cn] = {cn} \union mem[next[cn]] /\ cn \notin mem[next[cn]]
  BY <1>1, <1>2 DEF Chains
<1>5. last \in mem[next[cn]] /\ next[cn] # None /\ next[cn] \in DOMAIN next
  BY <1>1, <1>2, <1>3, <1>4 DEF Chains
<1>6. PICK mem2 : \A c \in DOMAIN next \union {None} : mem2[c] = IF cn \in mem[c] THEN mem[c] \ mem[next[cn]] ELSE mem[c]
  <2> WITNESS [c \in DOMAIN next \union {None} |-> IF cn \in mem[c] THEN mem[c] \ mem[next[cn]] ELSE mem[c]]
  <2> QED OBVIOUS
<1>7. Chains(next2, mem2)
  <2>1. CutsOff(mem2, next, mem, cn)
    BY <1>6 DEF CutsOff
  <2>2. cn \in DOMAIN next
    BY <1>2
  <2>3. Chains(next, mem)
    BY <1>1
  <2>4. next2 = [next EXCEPT ![cn] = None]
    BY DEF Unlinked
  <2> QED BY ONLY <2>1, <2>2, <2>3, <2>4, ChainCut
<1>8. /\ DOMAIN next2 = DOMAIN next /\ next2[cn] = None
      /\ \A c \in DOMAIN next : c # cn => next2[c] = next[c]
  BY <1>2 DEF Unlinked
<1>9. mem2[cn] = {cn} /\ mem2[next[cn]] = mem[next[cn]]
  BY <1>2, <1>4, <1>5, <1>6
<1>10. ASSUME NEW at \in P \ {Free}
       PROVE  mem2[L2[at].first] = mem[L[at].first] /\ (L2[at] = Blank \/ IsChain(L2[at], next2, mem2))
  <2>1. L2[at] = L[at] /\ at \in P /\ mem[cn] \intersect mem[L[at].first] = {}
    BY <1>0 DEF Sound
  <2>2. L[at].first \in DOMAIN next \union {None} /\ mem[L[at].first] \in SUBSET DOMAIN next
    BY <2>1, ListFields
  <2>3. cn \notin mem[L[at].first]
    BY <1>4, <2>1
  <2>4. mem2[L2[at].first] = mem[L[at].first]
    BY <1>6, <2>1, <2>2, <2>3
  <2>5. ASSUME L[at] # Blank PROVE IsChain(L2[at], next2, mem2)
    <3>1. IsChain(L[at], next, mem)
      BY <2>1, <2>5 DEF Sound
    <3>2. L[at].last # cn /\ L[at].last \in DOMAIN next
      BY <2>2, <2>3, <3>1 DEF IsChain
    <3>3. next2[L[at].last] = next[L[at].last]
      BY <1>8, <3>2
    <3> QED BY <1>8, <2>1, <2>4, <3>1, <3>3 DEF IsChain
  <2> QED BY <2>1, <2>4, <2>5
<1>11. IsChain(L2[Cur], next2, mem2) /\ mem2[L2[Cur].first] = {cn}
  BY <1>0, <1>2, <1>8, <1>9 DEF IsChain
<1>12. IsChain(L2[Free], next2, mem2) /\ mem2[L2[Free].first] = mem[next[cn]]
  BY <1>0, <1>3, <1>5, <1>8, <1>9 DEF IsChain
<1>13. \A at \in P2 : L2[at] = Blank \/ IsChain(L2[at], next2, mem2)
  BY <1>10, <1>11, <1>12
<1>14. \A at \in P2 \ {Free} : L2[at].pixnb = Cardinality(mem2[L2[at].first])
  <2>1. Cardinality({cn}) = 1
    BY FS_Singleton
  <2>2. ASSUME NEW at \in P \ {Free} PROVE L2[at].pixnb = Cardinality(mem2[L2[at].first])
    BY <1>0, <1>10 DEF Sound
  <2> QED BY <1>0, <1>11, <2>1, <2>2
<1>15. ASSUME NEW c \in P2, NEW d \in P2, c # d PROVE mem2[L2[c].first] \intersect mem2[L2[d].first] = {}
  <2>1. ASSUME NEW at \in P \ {Free}
        PROVE  mem2[L2[Free].first] \intersect mem2[L2[at].first] = {} /\ mem2[L2[Cur].first] \intersect mem2[L2[at].first] = {}
    <3>1. mem[cn] \intersect mem[L[at].first] = {}
      BY <1>0 DEF Sound
    <3> QED BY <1>4, <1>10, <1>11, <1>12, <3>1
  <2>2. mem2[L2[Free].first] \intersect mem2[L2[Cur].first] = {}
    BY <1>4, <1>11, <1>12
  <2>3. CASE c = Cur
    BY <1>15, <2>1, <2>2, <2>3
  <2>4. CASE d = Cur
    BY <1>15, <2>1, <2>2, <2>4
  <2>5. CASE c = Free /\ d # Cur
    BY <1>15, <2>1, <2>5
  <2>6. CASE d = Free /\ c # Cur
    BY <1>15, <2>1, <2>6
  <2>7. CASE c \notin {Free, Cur} /\ d \notin {Free, Cur}
    BY <1>10, <1>15, <2>7 DEF Sound
  <2> QED BY <2>3, <2>4, <2>5, <2>6, <2>7
<1>16. ASSUME NEW c \in DOMAIN next2 PROVE \E at \in P2 : c \in mem2[L2[at].first]
  <2>1. PICK at \in P : c \in mem[L[at].first]
    BY <1>8 DEF Sound
  <2>2. CASE at = Free
    <3>1. c \in {cn} \/ c \in mem[next[cn]]
      BY <1>0, <1>4, <2>1, <2>2
    <3> QED BY <1>11, <1>12, <3>1
  <2>3. CASE at # Free
    BY <1>10, <2>1, <2>3
  <2> QED BY <2>2, <2>3
<1>17. L2[Cur] # Blank
  BY <1>0, <1>1, <1>2, BlankFields
<1> QED BY <1>5, <1>7, <1>13, <1>14, <1>15, <1>16, <1>17 DEF Sound
-----------------------------------------------------------------------------
(* The lists of a scan *)

CellFields == {"info", "store", "nextpix", "free", "curpix"}

Holds(s, t, info, store, next, free, cur) ==
  /\ DOMAIN t = DOMAIN s
  /\ t.info = info /\ t.store = store /\ t.nextpix = next /\ t.free = free /\ t.curpix = cur

SameCells(s, t) == Holds(s, t, s.info, s.store, s.nextpix, s.free, s.curpix)

Names(w) == {<<"info", i>> : i \in 0..w} \union {<<"store", i>> : i \in 0..w} \union {Free, Cur}

(* The last free cell is the last of the stack. *)
FreeList(s, n) == [pixnb |-> 0, flag |-> FALSE, first |-> s.free, last |-> n - 1]

ListIn(s, n, at) == IF at = Free THEN FreeList(s, n) ELSE IF at = Cur THEN s.curpix ELSE ListAt(s, at)

IsLists(L, s, w, n) == \A at \in Names(w) : L[at] = ListIn(s, n, at)

(* Every cell is in the list of one of the places P, and only those of B may *)
(* have none.                                                                *)
Accounts(s, w, n, P, B) ==
  /\ CellFields \subseteq DOMAIN s /\ DOMAIN s.info = 0..w /\ DOMAIN s.store = 0..w
  /\ DOMAIN s.nextpix = 0..n-1 /\ s.free # n - 1
  /\ P \subseteq Names(w) /\ Free \in P
  /\ \A at \in P \ B : ListIn(s, n, at) # Blank
  /\ \E L, mem : IsLists(L, s, w, n) /\ Sound(s.nextpix, P, L, mem)

LEMMA ListsExist == \A s, w, n : \E L : IsLists(L, s, w, n)
<1> TAKE s, w, n
<1> WITNESS [at \in Names(w) |-> ListIn(s, n, at)]
<1> QED BY DEF IsLists

LEMMA PlacesIn ==
  ASSUME NEW s, NEW w, NEW n, NEW L, IsLists(L, s, w, n)
  PROVE  /\ L[Free] = FreeList(s, n) /\ L[Cur] = s.curpix
         /\ \A i \in 0..w : L[<<"info", i>>] = s.info[i] /\ L[<<"store", i>>] = s.store[i]
<1>1. \A i \in 0..w : ListAt(s, <<"info", i>>) = s.info[i] /\ ListAt(s, <<"store", i>>) = s.store[i]
  BY DEF ListAt
<1> QED BY <1>1, PlainPlaces DEF IsLists, ListIn, Names

LEMMA FreeFields ==
  ASSUME NEW s, NEW n \in Nat \ {0}
  PROVE  /\ FreeList(s, n).first = s.free /\ FreeList(s, n).last = n - 1
         /\ FreeList(s, n) # Blank /\ ListIn(s, n, Free) = FreeList(s, n)
BY BlankFields DEF FreeList, None, ListIn

(* What is known of the places of a scan that are not written to. *)
LEMMA OtherPlaces ==
  ASSUME NEW s, NEW t, NEW w, NEW n, NEW L, IsLists(L, s, w, n), NEW L2, IsLists(L2, t, w, n),
         NEW at \in Names(w),
         at = Free => t.free = s.free, at = Cur => t.curpix = s.curpix,
         \A i \in 0..w : /\ at = <<"info", i>> => t.info[i] = s.info[i]
                         /\ at = <<"store", i>> => t.store[i] = s.store[i]
  PROVE  L2[at] = L[at] /\ ListIn(t, n, at) = ListIn(s, n, at)
<1>1. ListIn(t, n, at) = ListIn(s, n, at)
  <2>1. CASE at = Free
    BY <2>1 DEF ListIn, FreeList
  <2>2. CASE at = Cur
    BY <2>2, PlainPlaces DEF ListIn
  <2>3. ASSUME NEW i \in 0..w, at = <<"info", i>> \/ at = <<"store", i>> PROVE ListIn(t, n, at) = ListIn(s, n, at)
    BY <2>3, PlainPlaces DEF ListIn, ListAt
  <2> QED BY <2>1, <2>2, <2>3 DEF Names
<1> QED BY <1>1 DEF IsLists

LEMMA AccountsSame ==
  ASSUME NEW s, NEW w, NEW n, NEW P, NEW B, Accounts(s, w, n, P, B), NEW t, SameCells(s, t)
  PROVE  Accounts(t, w, n, P, B)
<1>1. \A at : ListIn(t, n, at) = ListIn(s, n, at)
  BY DEF SameCells, Holds, ListIn, ListAt, FreeList
<1>2. \A L : IsLists(L, s, w, n) => IsLists(L, t, w, n)
  BY <1>1 DEF IsLists
<1> QED BY <1>1, <1>2 DEF Accounts, SameCells, Holds

(* A pixel takes the first free cell. *)
LEMMA AccountsTake ==
  ASSUME NEW s, NEW w \in Nat, NEW n \in Nat \ {0}, NEW P, NEW B, Accounts(s, w, n, P, B), Cur \notin P,
         s.nextpix[s.free] # n - 1,
         NEW next, next = [s.nextpix EXCEPT ![s.free] = None],
         NEW cur, cur.pixnb = 1, cur.first = s.free, cur.last = s.free,
         NEW t, Holds(s, t, s.info, s.store, next, s.nextpix[s.free], cur)
  PROVE  Accounts(t, w, n, P \union {Cur}, B)
<1>1. PICK L, mem : IsLists(L, s, w, n) /\ Sound(s.nextpix, P, L, mem)
  BY DEF Accounts
<1>2. PICK L2 : IsLists(L2, t, w, n)
  BY ListsExist
<1>3. /\ t.free = s.nextpix[s.free] /\ t.curpix = cur /\ t.info = s.info /\ t.store = s.store /\ t.nextpix = next
      /\ DOMAIN t = DOMAIN s
  BY DEF Holds
<1>4. PICK cn : cn = s.free
  OBVIOUS
<1>5. /\ L[Free].first = cn /\ L[Free].last = n - 1 /\ L2[Free].first = s.nextpix[cn] /\ L2[Free].last = n - 1
      /\ L2[Cur] = cur
  BY <1>1, <1>2, <1>3, <1>4, PlacesIn, FreeFields
<1>6. \A at \in P \ {Free} : L2[at] = L[at] /\ ListIn(t, n, at) = ListIn(s, n, at)
  <2>1. ASSUME NEW at \in P \ {Free} PROVE L2[at] = L[at] /\ ListIn(t, n, at) = ListIn(s, n, at)
    <3>1. at \in Names(w) /\ at # Cur /\ at # Free
      BY DEF Accounts
    <3> QED BY <1>1, <1>2, <1>3, <3>1, OtherPlaces
  <2> QED BY <2>1
<1>7. DOMAIN s.nextpix = 0..n-1
  BY DEF Accounts
<1>8. cn # None
  <2>1. Free \in P /\ L[Free] # Blank
    BY <1>1, FreeFields, PlacesIn DEF Accounts
  <2>2. None \notin DOMAIN s.nextpix /\ IsChain(L[Free], s.nextpix, mem)
    BY <1>1, <2>1 DEF Sound, Chains
  <2> QED BY <1>5, <2>2 DEF IsChain
<1>9. Free \in P /\ cn # L[Free].last
  BY <1>4, <1>5 DEF Accounts
<1>10. Unlinked(next, s.nextpix, cn) /\ cur.pixnb = 1 /\ cur.first = cn /\ cur.last = cn
  BY <1>4 DEF Unlinked
<1>11. PICK P2 : P2 = P \union {Cur}
  OBVIOUS
<1>12. (\E mem2 : Sound(next, P2, L2, mem2)) /\ L2[Cur] # Blank
  <2>1. PICK next0 : next0 = s.nextpix
    OBVIOUS
  <2>2. Sound(next0, P, L, mem) /\ Free \in P /\ Cur \notin P /\ Unlinked(next, next0, cn)
    BY <1>1, <1>9, <1>10, <2>1
  <2>3. TakesFirst(L, L2, P, next0, cn)
    BY <1>5, <1>6, <1>8, <1>9, <1>10, <2>1 DEF TakesFirst
  <2> QED BY ONLY <1>11, <2>2, <2>3, CellTaken
<1>13. t.free # n - 1 /\ DOMAIN next = 0..n-1 /\ P2 \subseteq Names(w) /\ Free \in P2
  BY <1>3, <1>7, <1>9, <1>10, <1>11 DEF Names, Accounts, Unlinked
<1>14. \A at \in P2 \ B : ListIn(t, n, at) # Blank
  <2>1. ListIn(t, n, Cur) # Blank
    BY <1>2, <1>12 DEF IsLists, Names
  <2>2. ListIn(t, n, Free) # Blank
    BY FreeFields
  <2> QED BY <1>6, <1>11, <2>1, <2>2 DEF Accounts
<1> QED BY <1>2, <1>3, <1>11, <1>12, <1>13, <1>14 DEF Accounts

LEMMA AccountsGiven ==
  ASSUME NEW t, NEW w \in Nat, NEW n \in Nat \ {0}, NEW P, NEW B,
         CellFields \subseteq DOMAIN t, DOMAIN t.info = 0..w, DOMAIN t.store = 0..w,
         DOMAIN t.nextpix = 0..n-1, t.free # n - 1, P \subseteq Names(w), Free \in P,
         NEW L, IsLists(L, t, w, n), \A at \in P \ B : L[at] # Blank,
         \E mem : Sound(t.nextpix, P, L, mem)
  PROVE  Accounts(t, w, n, P, B)
<1>1. \A at \in P \ B : ListIn(t, n, at) # Blank
  BY DEF IsLists
<1> QED BY <1>1 DEF Accounts

HasArrays(s, w) == DOMAIN s.info = 0..w /\ DOMAIN s.store = 0..w

Rewritten(L, L2, s, t, w, n, a, value) ==
  /\ L2[a] = value /\ a \in Names(w) \ {Free, Cur}
  /\ \A at \in Names(w) \ {a, Free} : L2[at] = L[at]
  /\ L2[Free].first = t.free /\ L2[Free].last = n - 1 /\ L2[Free] # Blank
  /\ t.free = s.free => L2[Free] = L[Free]

(* One of the arrays is written to; the place at names what was there. *)
Writes(s, t, w, at, value) ==
  /\ DOMAIN t = DOMAIN s /\ t.curpix = s.curpix
  /\ \E i \in 0..w : \/ at = <<"info", i>> /\ t.info = [s.info EXCEPT ![i] = value] /\ t.store = s.store
                     \/ at = <<"store", i>> /\ t.store = [s.store EXCEPT ![i] = value] /\ t.info = s.info

LEMMA WrittenPlaces ==
  ASSUME NEW s, NEW w \in Nat, NEW n \in Nat \ {0}, NEW L, IsLists(L, s, w, n), HasArrays(s, w),
         NEW t, NEW a, NEW value, Writes(s, t, w, a, value), NEW L2, IsLists(L2, t, w, n)
  PROVE  Rewritten(L, L2, s, t, w, n, a, value) /\ HasArrays(t, w)
<1>1. DOMAIN s.info = 0..w /\ DOMAIN s.store = 0..w
  BY DEF HasArrays
<1>2. PICK i \in 0..w : \/ a = <<"info", i>> /\ t.info = [s.info EXCEPT ![i] = value] /\ t.store = s.store
                        \/ a = <<"store", i>> /\ t.store = [s.store EXCEPT ![i] = value] /\ t.info = s.info
  BY DEF Writes
<1>3. t.curpix = s.curpix
  BY DEF Writes
<1>4. a \in Names(w) \ {Free, Cur}
  BY <1>2, PlainPlaces DEF Names
<1>5. /\ L[Cur] = L2[Cur] /\ L2[Free] = FreeList(t, n) /\ L[Free] = FreeList(s, n)
      /\ \A j \in 0..w : L[<<"info", j>>] = s.info[j] /\ L[<<"store", j>>] = s.store[j]
      /\ \A j \in 0..w : L2[<<"info", j>>] = t.info[j] /\ L2[<<"store", j>>] = t.store[j]
  <2>1. /\ L[Free] = FreeList(s, n) /\ L[Cur] = s.curpix
        /\ \A j \in 0..w : L[<<"info", j>>] = s.info[j] /\ L[<<"store", j>>] = s.store[j]
    BY PlacesIn
  <2>2. /\ L2[Free] = FreeList(t, n) /\ L2[Cur] = t.curpix
        /\ \A j \in 0..w : L2[<<"info", j>>] = t.info[j] /\ L2[<<"store", j>>] = t.store[j]
    BY PlacesIn
  <2> QED BY <1>3, <2>1, <2>2
<1>6. /\ L2[Free].first = t.free /\ L2[Free].last = n - 1 /\ L2[Free] # Blank
      /\ t.free = s.free => L2[Free] = L[Free]
  <2>1. t.free = s.free => FreeList(t, n) = FreeList(s, n)
    BY DEF FreeList
  <2>2. FreeList(t, n).first = t.free /\ FreeList(t, n).last = n - 1 /\ FreeList(t, n) # Blank
    BY FreeFields
  <2> QED BY <1>5, <2>1, <2>2
<1>7. CASE a = <<"info", i>> /\ t.info = [s.info EXCEPT ![i] = value] /\ t.store = s.store
  <2>1. DOMAIN t.info = 0..w /\ t.info[i] = value /\ \A j \in 0..w : j # i => t.info[j] = s.info[j]
    BY <1>1, <1>7, ChangedAt
  <2>2. ASSUME NEW at \in Names(w) \ {a, Free} PROVE L2[at] = L[at]
    <3>1. ASSUME NEW j \in 0..w, at = <<"info", j>> \/ at = <<"store", j>> PROVE L2[at] = L[at]
      <4>1. CASE at = <<"info", j>>
        <5>1. j # i
          BY <1>7, <4>1
        <5> QED BY <1>5, <2>1, <4>1, <5>1
      <4>2. CASE at = <<"store", j>>
        <5>1. t.store[j] = s.store[j]
          BY <1>7
        <5>2. L[<<"store", j>>] = s.store[j] /\ L2[<<"store", j>>] = t.store[j]
          BY <1>5
        <5> QED BY <4>2, <5>1, <5>2
      <4> QED BY <3>1, <4>1, <4>2
    <3> QED BY <1>5, <3>1 DEF Names
  <2> QED BY <1>1, <1>4, <1>5, <1>6, <1>7, <2>1, <2>2 DEF Rewritten, HasArrays
<1>8. CASE a = <<"store", i>> /\ t.store = [s.store EXCEPT ![i] = value] /\ t.info = s.info
  <2>1. DOMAIN t.store = 0..w /\ t.store[i] = value /\ \A j \in 0..w : j # i => t.store[j] = s.store[j]
    BY <1>1, <1>8, ChangedAt
  <2>2. ASSUME NEW at \in Names(w) \ {a, Free} PROVE L2[at] = L[at]
    <3>1. ASSUME NEW j \in 0..w, at = <<"info", j>> \/ at = <<"store", j>> PROVE L2[at] = L[at]
      <4>1. CASE at = <<"store", j>>
        <5>1. j # i
          BY <1>8, <4>1
        <5> QED BY <1>5, <2>1, <4>1, <5>1
      <4>2. CASE at = <<"info", j>>
        <5>1. t.info[j] = s.info[j]
          BY <1>8
        <5>2. L[<<"info", j>>] = s.info[j] /\ L2[<<"info", j>>] = t.info[j]
          BY <1>5
        <5> QED BY <4>2, <5>1, <5>2
      <4> QED BY <3>1, <4>1, <4>2
    <3> QED BY <1>5, <3>1 DEF Names
  <2> QED BY <1>1, <1>4, <1>5, <1>6, <1>8, <2>1, <2>2 DEF Rewritten, HasArrays
<1> QED BY <1>2, <1>7, <1>8

(* A new region has no pixel yet. *)
LEMMA AccountsBlank ==
  ASSUME NEW s, NEW w \in Nat, NEW n \in Nat \ {0}, NEW P, NEW B, Accounts(s, w, n, P, B),
         NEW a, a \notin P, NEW t, Writes(s, t, w, a, Blank), t.nextpix = s.nextpix, t.free = s.free
  PROVE  Accounts(t, w, n, P \union {a}, B \union {a})
<1>1. PICK L, mem : IsLists(L, s, w, n) /\ Sound(s.nextpix, P, L, mem)
  BY DEF Accounts
<1>2. PICK L2 : IsLists(L2, t, w, n)
  BY ListsExist
<1>3. DOMAIN s.info = 0..w /\ DOMAIN s.store = 0..w /\ P \subseteq Names(w)
  BY DEF Accounts
<1>4. /\ L2[a] = Blank /\ a \in Names(w) \ {Free, Cur}
      /\ \A at \in Names(w) \ {a} : L2[at] = L[at]
      /\ DOMAIN t.info = 0..w /\ DOMAIN t.store = 0..w
  <2>1. Rewritten(L, L2, s, t, w, n, a, Blank) /\ HasArrays(t, w)
    BY <1>1, <1>2, <1>3, WrittenPlaces DEF HasArrays
  <2> QED BY <2>1 DEF Rewritten, HasArrays
<1>5. PICK P2, B2 : P2 = P \union {a} /\ B2 = B \union {a}
  OBVIOUS
<1>6. Sound(s.nextpix, P2, L2, mem)
  <2>1. \A at \in P : L2[at] = L[at]
    BY <1>3, <1>4
  <2> QED BY ONLY <1>1, <1>4, <1>5, <2>1, a \notin P, BlankAdded
<1>7. \A at \in P2 \ B2 : L2[at] # Blank
  BY <1>1, <1>3, <1>4, <1>5 DEF Accounts, IsLists
<1>8. /\ CellFields \subseteq DOMAIN t /\ DOMAIN t.nextpix = 0..n-1 /\ t.free # n - 1
      /\ P2 \subseteq Names(w) /\ Free \in P2
  BY <1>3, <1>4, <1>5 DEF Accounts, Writes
<1>9. Accounts(t, w, n, P2, B2)
  BY <1>2, <1>4, <1>6, <1>7, <1>8, AccountsGiven
<1> QED BY <1>5, <1>9

(* A region of the line above is opened, or an open one left to the next line. *)
LEMMA AccountsMove ==
  ASSUME NEW s, NEW w \in Nat, NEW n \in Nat \ {0}, NEW P, NEW B, Accounts(s, w, n, P, B),
         NEW a \in P \ {Free}, a \notin B, NEW b, b \notin P, NEW value, value = ListIn(s, n, a),
         NEW t, Writes(s, t, w, b, value), t.nextpix = s.nextpix, t.free = s.free
  PROVE  Accounts(t, w, n, (P \ {a}) \union {b}, B)
<1>1. PICK L, mem : IsLists(L, s, w, n) /\ Sound(s.nextpix, P, L, mem)
  BY DEF Accounts
<1>2. PICK L2 : IsLists(L2, t, w, n)
  BY ListsExist
<1>3. DOMAIN s.info = 0..w /\ DOMAIN s.store = 0..w /\ P \subseteq Names(w)
  BY DEF Accounts
<1>4. /\ L2[b] = value /\ b \in Names(w) \ {Free, Cur}
      /\ \A at \in Names(w) \ {b} : L2[at] = L[at]
      /\ DOMAIN t.info = 0..w /\ DOMAIN t.store = 0..w
  <2>1. Rewritten(L, L2, s, t, w, n, b, value) /\ HasArrays(t, w)
    BY <1>1, <1>2, <1>3, WrittenPlaces DEF HasArrays
  <2> QED BY <2>1 DEF Rewritten, HasArrays
<1>5. PICK P2 : P2 = (P \ {a}) \union {b}
  OBVIOUS
<1>6. Sound(s.nextpix, P2, L2, mem)
  <2>1. L2[b] = L[a] /\ (\A at \in P \ {a} : L2[at] = L[at]) /\ a \in P /\ a # Free /\ b \notin P
    BY <1>1, <1>3, <1>4 DEF IsLists
  <2> QED BY ONLY <1>1, <1>5, <2>1, ListsMoved
<1>7. \A at \in P2 \ B : L2[at] # Blank
  BY <1>1, <1>3, <1>4, <1>5 DEF Accounts, IsLists
<1>8. /\ CellFields \subseteq DOMAIN t /\ DOMAIN t.nextpix = 0..n-1 /\ t.free # n - 1
      /\ P2 \subseteq Names(w) /\ Free \in P2
  BY <1>3, <1>4, <1>5 DEF Accounts, Writes
<1>9. Accounts(t, w, n, P2, B)
  BY <1>2, <1>4, <1>6, <1>7, <1>8, AccountsGiven
<1> QED BY <1>5, <1>9

(* update() *)
LEMMA AccountsJoin ==
  ASSUME NEW s, NEW w \in Nat, NEW n \in Nat \ {0}, NEW P, NEW B, Accounts(s, w, n, P, B),
         NEW a \in P \ {Free}, NEW b \in P \ {Free}, a # b, a \notin B \/ b \notin B,
         NEW la, la = ListIn(s, n, a), NEW lb, lb = ListIn(s, n, b),
         NEW value, value = Joined(la, lb),
         NEW t, Writes(s, t, w, a, value), t.free = s.free,
         la.first # None /\ lb.last # None => Linked(t.nextpix, s.nextpix, la, lb),
         ~(la.first # None /\ lb.last # None) => t.nextpix = s.nextpix
  PROVE  Accounts(t, w, n, P \ {b}, B \ {a, b})
<1>1. PICK L, mem : IsLists(L, s, w, n) /\ Sound(s.nextpix, P, L, mem)
  BY DEF Accounts
<1>2. PICK L2 : IsLists(L2, t, w, n)
  BY ListsExist
<1>3. DOMAIN s.info = 0..w /\ DOMAIN s.store = 0..w /\ P \subseteq Names(w)
  BY DEF Accounts
<1>4. /\ L2[a] = value /\ a \in Names(w) \ {Free, Cur}
      /\ \A at \in Names(w) \ {a} : L2[at] = L[at]
      /\ DOMAIN t.info = 0..w /\ DOMAIN t.store = 0..w
  <2>1. Rewritten(L, L2, s, t, w, n, a, value) /\ HasArrays(t, w)
    BY <1>1, <1>2, <1>3, WrittenPlaces DEF HasArrays
  <2> QED BY <2>1 DEF Rewritten, HasArrays
<1>5. PICK P2, B2, next, next2 : P2 = P \ {b} /\ B2 = B \ {a, b} /\ next = s.nextpix /\ next2 = t.nextpix
  OBVIOUS
<1>6. la = L[a] /\ lb = L[b]
  BY <1>1, <1>3 DEF IsLists
<1>7. (\E mem2 : Sound(next2, P2, L2, mem2)) /\ (L[a] # Blank \/ L[b] # Blank => L2[a] # Blank)
  <2>1. Sound(next, P, L, mem) /\ a \in P \ {Free} /\ b \in P \ {Free} /\ a # b
    BY <1>1, <1>5
  <2>2. /\ L[a].first # None /\ L[b].last # None => Linked(next2, next, L[a], L[b])
        /\ ~(L[a].first # None /\ L[b].last # None) => next2 = next
    BY <1>5, <1>6
  <2>3. L2[a] = Joined(L[a], L[b]) /\ (\A at \in P \ {a, b} : L2[at] = L[at]) /\ P2 = P \ {b}
    BY <1>3, <1>4, <1>5, <1>6
  <2> QED BY ONLY <2>1, <2>2, <2>3, ListsJoined
<1>8. \A at \in P2 \ B2 : L2[at] # Blank
  <2>1. \A at \in P \ B : L[at] # Blank
    BY <1>1, <1>3 DEF Accounts, IsLists
  <2> QED BY <1>3, <1>4, <1>5, <1>7, <2>1
<1>9. DOMAIN next2 = DOMAIN next
  BY <1>5 DEF Linked
<1>10. /\ CellFields \subseteq DOMAIN t /\ DOMAIN t.nextpix = 0..n-1 /\ t.free # n - 1
       /\ P2 \subseteq Names(w) /\ Free \in P2
  BY <1>3, <1>4, <1>5, <1>9 DEF Accounts, Writes
<1>11. Accounts(t, w, n, P2, B2)
  BY <1>2, <1>4, <1>5, <1>7, <1>8, <1>10, AccountsGiven
<1> QED BY <1>5, <1>11

(* "Free the chain-list" *)
LEMMA AccountsFree ==
  ASSUME NEW s, NEW w \in Nat, NEW n \in Nat \ {0}, NEW P, NEW B, Accounts(s, w, n, P, B),
         NEW a \in P \ {Free}, a \notin B, NEW la, la = ListIn(s, n, a),
         NEW next, next = [s.nextpix EXCEPT ![la.last] = s.free],
         NEW t, Holds(s, t, s.info, s.store, next, la.first, s.curpix)
  PROVE  Accounts(t, w, n, P \ {a}, B)
<1>1. PICK L, mem : IsLists(L, s, w, n) /\ Sound(s.nextpix, P, L, mem)
  BY DEF Accounts
<1>2. PICK L2 : IsLists(L2, t, w, n)
  BY ListsExist
<1>3. DOMAIN s.info = 0..w /\ DOMAIN s.store = 0..w /\ P \subseteq Names(w) /\ Free \in P
  BY DEF Accounts
<1>4. DOMAIN t = DOMAIN s /\ t.info = s.info /\ t.store = s.store /\ t.nextpix = next /\ t.free = la.first /\ t.curpix = s.curpix
  BY DEF Holds
<1>5. \A at \in P \ {a, Free} : L2[at] = L[at]
  <2>1. \A at : at # Free => ListIn(t, n, at) = ListIn(s, n, at)
    BY <1>4 DEF ListIn, ListAt
  <2> QED BY <1>1, <1>2, <1>3, <2>1 DEF IsLists
<1>6. /\ L[Free].first = s.free /\ L[Free].last = n - 1 /\ L2[Free].first = la.first /\ L2[Free].last = n - 1
      /\ L[Free] # Blank /\ L2[Free] # Blank /\ la = L[a]
  BY <1>1, <1>2, <1>3, <1>4, PlacesIn, FreeFields DEF IsLists
<1>7. L[a] # Blank /\ L[Free].first # None
  <2>1. L[a] # Blank
    BY <1>6 DEF Accounts
  <2>2. L[Free].first = None <=> L[Free] = Blank
    BY <1>1, <1>3, ListFields
  <2> QED BY <1>6, <2>1, <2>2
<1>8. PICK P2, next0 : P2 = P \ {a} /\ next0 = s.nextpix
  OBVIOUS
<1>9. (\E mem2 : Sound(next, P2, L2, mem2)) /\ L2[Free].first # L2[Free].last
  <2>1. Linked(next, next0, L[a], L[Free])
    BY <1>6, <1>8 DEF Linked
  <2>2. PutsBefore(L, L2, P, a)
    BY <1>5, <1>6 DEF PutsBefore
  <2>3. Sound(next0, P, L, mem) /\ a \in P \ {Free} /\ Free \in P /\ P2 = P \ {a}
    BY <1>1, <1>3, <1>8
  <2> QED BY ONLY <1>7, <2>1, <2>2, <2>3, ListFreed
<1>10. \A at \in P2 \ B : L2[at] # Blank
  BY <1>1, <1>3, <1>5, <1>6, <1>8 DEF Accounts, IsLists
<1>11. /\ CellFields \subseteq DOMAIN t /\ DOMAIN t.nextpix = 0..n-1 /\ t.free # n - 1
       /\ P2 \subseteq Names(w) /\ Free \in P2
  BY <1>3, <1>4, <1>6, <1>8, <1>9 DEF Accounts
<1>12. \E mem2 : Sound(t.nextpix, P2, L2, mem2)
  BY <1>4, <1>9
<1>13. Accounts(t, w, n, P2, B)
  BY <1>2, <1>3, <1>4, <1>12, <1>10, <1>11, AccountsGiven
<1> QED BY <1>8, <1>13
-----------------------------------------------------------------------------
(* The places of the lists that may grow *)

Waits(c, m, start, co) == m[c] = "S" /\ \A i \in 1..co : start[i] # c

GrowingAt(w, m, start, co) ==
  {<<"info", i>> : i \in 1..co} \union {<<"store", c>> : c \in {d \in 0..w : Waits(d, m, start, co)}}

LEMMA GrowingIs ==
  ASSUME NEW s, NEW w, DOMAIN s.marker = 0..w
  PROVE  Growing(s) = GrowingAt(w, s.marker, s.start, s.co)
BY DEF Growing, Opened, Waiting, GrowingAt, Waits

LEMMA GrowingPlaces ==
  ASSUME NEW w, NEW m, NEW start, NEW co
  PROVE  /\ Free \notin GrowingAt(w, m, start, co) /\ Cur \notin GrowingAt(w, m, start, co)
         /\ \A i : <<"info", i>> \in GrowingAt(w, m, start, co) <=> i \in 1..co
         /\ \A c : <<"store", c>> \in GrowingAt(w, m, start, co) <=> c \in 0..w /\ Waits(c, m, start, co)
BY DEF GrowingAt, Free, Cur

SameWaiting(w, m2, start2, co2, m, start, co) ==
  \A c \in 0..w : Waits(c, m2, start2, co2) <=> Waits(c, m, start, co)

(* A region more or less is open; those that wait are the same. *)
LEMMA OneMoreOpen ==
  ASSUME NEW w \in Nat, NEW m, NEW start, NEW co \in Nat, NEW m2, NEW start2,
         SameWaiting(w, m2, start2, co + 1, m, start, co)
  PROVE  /\ GrowingAt(w, m2, start2, co + 1) = GrowingAt(w, m, start, co) \union {<<"info", co + 1>>}
         /\ <<"info", co + 1>> \notin GrowingAt(w, m, start, co)
<1>1. 1..(co + 1) = 1..co \union {co + 1} /\ co + 1 \notin 1..co
  OBVIOUS
<1>2. {<<"info", i>> : i \in 1..(co + 1)} = {<<"info", i>> : i \in 1..co} \union {<<"info", co + 1>>}
  BY <1>1
<1>3. {d \in 0..w : Waits(d, m2, start2, co + 1)} = {d \in 0..w : Waits(d, m, start, co)}
  BY DEF SameWaiting
<1>4. <<"info", co + 1>> \notin GrowingAt(w, m, start, co)
  BY <1>1, GrowingPlaces
<1> QED BY <1>2, <1>3, <1>4 DEF GrowingAt

LEMMA OneFewerOpen ==
  ASSUME NEW w \in Nat, NEW m, NEW start, NEW co \in Nat \ {0}, NEW m2, NEW start2,
         SameWaiting(w, m2, start2, co - 1, m, start, co)
  PROVE  GrowingAt(w, m2, start2, co - 1) = GrowingAt(w, m, start, co) \ {<<"info", co>>}
<1>1. PICK k \in Nat : k = co - 1 /\ co = k + 1
  OBVIOUS
<1>2. SameWaiting(w, m, start, k + 1, m2, start2, k)
  BY <1>1 DEF SameWaiting
<1>3. /\ GrowingAt(w, m, start, k + 1) = GrowingAt(w, m2, start2, k) \union {<<"info", k + 1>>}
      /\ <<"info", k + 1>> \notin GrowingAt(w, m2, start2, k)
  BY ONLY <1>2, w \in Nat, k \in Nat, OneMoreOpen
<1> QED BY <1>1, <1>3

LEMMA SameOpen ==
  ASSUME NEW w \in Nat, NEW m, NEW start, NEW co, NEW m2, NEW start2,
         SameWaiting(w, m2, start2, co, m, start, co)
  PROVE  GrowingAt(w, m2, start2, co) = GrowingAt(w, m, start, co)
<1>1. {d \in 0..w : Waits(d, m2, start2, co)} = {d \in 0..w : Waits(d, m, start, co)}
  BY DEF SameWaiting
<1> QED BY <1>1 DEF GrowingAt

Put(new, old, i, v) == new = [old EXCEPT ![i] = v]

(* The markers and starts that the parts of the loop body write. *)
LEMMA GrowOpen ==
  ASSUME NEW w \in Nat, NEW m, DOMAIN m = 0..w, NEW start, DOMAIN start = 0..w, NEW co \in Nat, co + 1 \in 0..w,
         NEW x \in 0..w, m[x] = "none",
         NEW m2, Put(m2, m, x, "S"), NEW start2, Put(start2, start, co + 1, x)
  PROVE  /\ GrowingAt(w, m2, start2, co + 1) = GrowingAt(w, m, start, co) \union {<<"info", co + 1>>}
         /\ <<"info", co + 1>> \notin GrowingAt(w, m, start, co)
<1>1. m2[x] = "S" /\ \A c \in 0..w : c # x => m2[c] = m[c]
  BY DEF Put
<1>2. start2[co + 1] = x /\ \A i \in 1..co : start2[i] = start[i]
  BY DEF Put
<1>3. \A i : i \in 1..(co + 1) <=> i \in 1..co \/ i = co + 1
  OBVIOUS
<1>4. ASSUME NEW c \in 0..w PROVE Waits(c, m2, start2, co + 1) <=> Waits(c, m, start, co)
  BY <1>1, <1>2, <1>3 DEF Waits
<1>5. SameWaiting(w, m2, start2, co + 1, m, start, co)
  BY <1>4 DEF SameWaiting
<1> QED BY ONLY <1>5, w \in Nat, co \in Nat, OneMoreOpen, Zenon

LEMMA GrowFirst ==
  ASSUME NEW w \in Nat, NEW m, DOMAIN m = 0..w, NEW start, DOMAIN start = 0..w, NEW co \in 1..w,
         start[co] = UNKNOWN, NEW x \in 0..w, m[x] = "none",
         NEW m2, Put(m2, m, x, "S"), NEW start2, Put(start2, start, co, x)
  PROVE  GrowingAt(w, m2, start2, co) = GrowingAt(w, m, start, co)
<1>1. m2[x] = "S" /\ \A c \in 0..w : c # x => m2[c] = m[c]
  BY DEF Put
<1>2. start2[co] = x /\ co \in 1..co /\ \A i \in 1..co : i # co => start2[i] = start[i]
  BY DEF Put
<1>3. ASSUME NEW c \in 0..w PROVE Waits(c, m2, start2, co) <=> Waits(c, m, start, co)
  <2>1. CASE c = x
    BY <1>2, <2>1 DEF Waits
  <2>2. CASE c # x
    <3>1. UNKNOWN # c
      BY DEF UNKNOWN
    <3>2. (\A i \in 1..co : start2[i] # c) <=> (\A i \in 1..co : start[i] # c)
      BY <1>2, <2>2, <3>1
    <3> QED BY <1>1, <2>2, <3>2 DEF Waits
  <2> QED BY <2>1, <2>2
<1>4. SameWaiting(w, m2, start2, co, m, start, co)
  BY <1>3 DEF SameWaiting
<1> QED BY <1>4, SameOpen

(* A marker that ends a segment, or begins one that is no region's first. *)
LEMMA GrowMark ==
  ASSUME NEW w \in Nat, NEW m, DOMAIN m = 0..w, NEW start, NEW co,
         NEW x \in 0..w, m[x] # "S", NEW v, v # "S", NEW m2, Put(m2, m, x, v)
  PROVE  GrowingAt(w, m2, start, co) = GrowingAt(w, m, start, co)
<1>1. m2[x] = v /\ \A c \in 0..w : c # x => m2[c] = m[c]
  BY DEF Put
<1>2. ASSUME NEW c \in 0..w PROVE Waits(c, m2, start, co) <=> Waits(c, m, start, co)
  BY <1>1 DEF Waits
<1>3. SameWaiting(w, m2, start, co, m, start, co)
  BY <1>2 DEF SameWaiting
<1> QED BY <1>3, SameOpen

(* The visited column's marker is taken. *)
LEMMA GrowClear ==
  ASSUME NEW w \in Nat, NEW m, DOMAIN m = 0..w, NEW start, NEW co,
         NEW x \in 0..w, \A i \in 1..co : start[i] # x, NEW m2, Put(m2, m, x, "none")
  PROVE  /\ m[x] # "S" => GrowingAt(w, m2, start, co) = GrowingAt(w, m, start, co)
         /\ m[x] = "S" => /\ GrowingAt(w, m, start, co) = GrowingAt(w, m2, start, co) \union {<<"store", x>>}
                          /\ <<"store", x>> \notin GrowingAt(w, m2, start, co)
<1>1. m2[x] = "none" /\ \A c \in 0..w : c # x => m2[c] = m[c]
  BY DEF Put
<1>2. ASSUME m[x] = "S"
      PROVE  /\ GrowingAt(w, m, start, co) = GrowingAt(w, m2, start, co) \union {<<"store", x>>}
             /\ <<"store", x>> \notin GrowingAt(w, m2, start, co)
  <2>1. \A c \in 0..w : Waits(c, m, start, co) <=> Waits(c, m2, start, co) \/ c = x
    BY <1>1, <1>2 DEF Waits
  <2>2. {d \in 0..w : Waits(d, m, start, co)} = {d \in 0..w : Waits(d, m2, start, co)} \union {x}
    BY <2>1
  <2>3. ~Waits(x, m2, start, co)
    BY <1>1 DEF Waits
  <2>4. <<"store", x>> \notin GrowingAt(w, m2, start, co)
    BY <2>3, GrowingPlaces
  <2>5. GrowingAt(w, m, start, co) = GrowingAt(w, m2, start, co) \union {<<"store", x>>}
    BY <2>2 DEF GrowingAt
  <2> QED BY <2>4, <2>5
<1>3. ASSUME m[x] # "S" PROVE GrowingAt(w, m2, start, co) = GrowingAt(w, m, start, co)
  <2>1. SameWaiting(w, m2, start, co, m, start, co)
    BY <1>1, <1>3 DEF SameWaiting, Waits
  <2> QED BY <2>1, SameOpen
<1> QED BY <1>2, <1>3

LEMMA GrowPush ==
  ASSUME NEW w \in Nat, NEW m, NEW start, DOMAIN start = 0..w, NEW co \in Nat, co + 1 \in 0..w,
         NEW start2, Put(start2, start, co + 1, UNKNOWN)
  PROVE  /\ GrowingAt(w, m, start2, co + 1) = GrowingAt(w, m, start, co) \union {<<"info", co + 1>>}
         /\ <<"info", co + 1>> \notin GrowingAt(w, m, start, co)
<1>1. start2[co + 1] = UNKNOWN /\ \A i \in 1..co : start2[i] = start[i]
  BY DEF Put
<1>2. \A i : i \in 1..(co + 1) <=> i \in 1..co \/ i = co + 1
  OBVIOUS
<1>3. ASSUME NEW c \in 0..w PROVE Waits(c, m, start2, co + 1) <=> Waits(c, m, start, co)
  <2>1. UNKNOWN # c
    BY DEF UNKNOWN
  <2> QED BY <1>1, <1>2, <2>1 DEF Waits
<1>4. SameWaiting(w, m, start2, co + 1, m, start, co)
  BY <1>3 DEF SameWaiting
<1> QED BY ONLY <1>4, w \in Nat, co \in Nat, OneMoreOpen, Zenon

LEMMA GrowUnite ==
  ASSUME NEW w \in Nat, NEW m, NEW start, DOMAIN start = 0..w, NEW co \in 2..w, start[co - 1] = UNKNOWN,
         NEW start2, Put(start2, start, co - 1, start[co])
  PROVE  GrowingAt(w, m, start2, co - 1) = GrowingAt(w, m, start, co) \ {<<"info", co>>}
<1>1. start2[co - 1] = start[co] /\ \A i \in 1..co : i # co - 1 => start2[i] = start[i]
  BY DEF Put
<1>2. /\ \A i : i \in 1..(co - 1) <=> i \in 1..co /\ i # co
      /\ co - 1 \in 1..co /\ co - 1 # co /\ co \in 1..co /\ co \in Nat \ {0}
  OBVIOUS
<1>3. ASSUME NEW c \in 0..w PROVE Waits(c, m, start2, co - 1) <=> Waits(c, m, start, co)
  <2>1. UNKNOWN # c
    BY DEF UNKNOWN
  <2>2. (\A i \in 1..(co - 1) : start2[i] # c) <=> (\A i \in 1..co : start[i] # c)
    BY <1>1, <1>2, <2>1
  <2> QED BY <2>2 DEF Waits
<1>4. SameWaiting(w, m, start2, co - 1, m, start, co)
  BY <1>3 DEF SameWaiting
<1> QED BY <1>2, <1>4, OneFewerOpen

LEMMA GrowJoin ==
  ASSUME NEW w \in Nat, NEW m, DOMAIN m = 0..w, NEW start, NEW co \in 1..w, start[co] \in 0..w,
         NEW start2, \A i \in 0..w : start2[i] = start[i], NEW m2, Put(m2, m, start[co], "s")
  PROVE  GrowingAt(w, m2, start2, co - 1) = GrowingAt(w, m, start, co) \ {<<"info", co>>}
<1>1. m2[start[co]] = "s" /\ \A c \in 0..w : c # start[co] => m2[c] = m[c]
  BY DEF Put
<1>2. /\ \A i : i \in 1..(co - 1) <=> i \in 1..co /\ i # co
      /\ co \in 1..co /\ co \in Nat \ {0} /\ \A i \in 1..co : i \in 0..w
  OBVIOUS
<1>3. ASSUME NEW c \in 0..w PROVE Waits(c, m2, start2, co - 1) <=> Waits(c, m, start, co)
  <2>1. CASE c = start[co]
    BY <1>1, <1>2, <2>1 DEF Waits
  <2>2. CASE c # start[co]
    BY <1>1, <1>2, <2>2 DEF Waits
  <2> QED BY <2>1, <2>2
<1>4. SameWaiting(w, m2, start2, co - 1, m, start, co)
  BY <1>3 DEF SameWaiting
<1> QED BY <1>2, <1>4, OneFewerOpen

LEMMA GrowDrop ==
  ASSUME NEW w \in Nat, NEW m, NEW start, NEW co \in 1..w, start[co] = UNKNOWN
  PROVE  GrowingAt(w, m, start, co - 1) = GrowingAt(w, m, start, co) \ {<<"info", co>>}
<1>1. /\ \A i : i \in 1..(co - 1) <=> i \in 1..co /\ i # co
      /\ co \in 1..co /\ co \in Nat \ {0}
  OBVIOUS
<1>2. ASSUME NEW c \in 0..w PROVE Waits(c, m, start, co - 1) <=> Waits(c, m, start, co)
  <2>1. UNKNOWN # c
    BY DEF UNKNOWN
  <2> QED BY <1>1, <2>1 DEF Waits
<1>3. SameWaiting(w, m, start, co - 1, m, start, co)
  BY <1>2 DEF SameWaiting
<1> QED BY <1>1, <1>3, OneFewerOpen

(* A region goes on with the next line: its start marks the column it waits at. *)
LEMMA GrowSuspend ==
  ASSUME NEW w \in Nat, NEW m, DOMAIN m = 0..w, NEW start, NEW co \in 1..w,
         start[co] \in 0..w, m[start[co]] = "S", \A i \in 1..(co - 1) : start[i] # start[co],
         NEW e \in 0..w, m[e] # "S", NEW m2, Put(m2, m, e, "F")
  PROVE  /\ GrowingAt(w, m2, start, co - 1) =
              (GrowingAt(w, m, start, co) \ {<<"info", co>>}) \union {<<"store", start[co]>>}
         /\ <<"store", start[co]>> \notin GrowingAt(w, m, start, co)
<1>1. PICK b \in 0..w : b = start[co]
  OBVIOUS
<1>2. m2[e] = "F" /\ \A c \in 0..w : c # e => m2[c] = m[c]
  BY DEF Put
<1>3. /\ \A i : i \in 1..co <=> i \in 1..(co - 1) \/ i = co
      /\ co \in 1..co /\ co \notin 1..(co - 1) /\ b # e
  BY <1>1
<1>4. ASSUME NEW c \in 0..w PROVE Waits(c, m2, start, co - 1) <=> Waits(c, m, start, co) \/ c = b
  <2>1. CASE c = b
    BY <1>1, <1>2, <1>3, <2>1 DEF Waits
  <2>2. CASE c # b
    BY <1>1, <1>2, <1>3, <2>2 DEF Waits
  <2> QED BY <2>1, <2>2
<1>5. {d \in 0..w : Waits(d, m2, start, co - 1)} = {d \in 0..w : Waits(d, m, start, co)} \union {b}
  BY <1>4
<1>6. {<<"store", c>> : c \in {d \in 0..w : Waits(d, m2, start, co - 1)}} =
        {<<"store", c>> : c \in {d \in 0..w : Waits(d, m, start, co)}} \union {<<"store", b>>}
  BY <1>5
<1>7. {<<"info", i>> : i \in 1..(co - 1)} = {<<"info", i>> : i \in 1..co} \ {<<"info", co>>}
  BY <1>3
<1>8. <<"info", co>> \notin {<<"store", c>> : c \in {d \in 0..w : Waits(d, m, start, co)}} \union {<<"store", b>>}
  OBVIOUS
<1>9. GrowingAt(w, m2, start, co - 1) = (GrowingAt(w, m, start, co) \ {<<"info", co>>}) \union {<<"store", b>>}
  BY <1>6, <1>7, <1>8 DEF GrowingAt
<1>10. ~Waits(b, m, start, co)
  BY <1>1, <1>3 DEF Waits
<1>11. <<"store", b>> \notin GrowingAt(w, m, start, co)
  BY <1>10, GrowingPlaces
<1> QED BY <1>1, <1>9, <1>11
-----------------------------------------------------------------------------
(* What is known of a line says which lists wait *)

LEMMA PastWaits ==
  ASSUME NEW m, NEW start, NEW end, NEW cs, NEW co \in Nat, NEW X \in Nat, Past(m, start, end, cs, co, X)
  PROVE  /\ \A i \in 1..co : start[i] # X
         /\ co # 0 /\ start[co] # UNKNOWN => /\ m[start[co]] = "S"
                                             /\ \A i \in 1..(co - 1) : start[i] # start[co]
         /\ co # 0 /\ start[co] # UNKNOWN /\ cs # "OBJECT" => m[end[co]] # "S"
<1>1. PICK h, n, lev : /\ Line(m, X, h, n) /\ Levels(start, co, lev)
                       /\ Regions(m, start, end, cs, co, X, h, n, lev)
  BY DEF Past
<1>2. \A i \in 1..co : start[i] # X
  <2>1. ASSUME NEW i \in 1..co PROVE start[i] = UNKNOWN \/ start[i] \in 0..(X - 1)
    BY <1>1 DEF Regions, Begun
  <2>2. X # UNKNOWN /\ X \notin 0..(X - 1)
    BY DEF UNKNOWN
  <2> QED BY <2>1, <2>2
<1>3. ASSUME co # 0, start[co] # UNKNOWN
      PROVE  /\ m[start[co]] = "S" /\ \A i \in 1..(co - 1) : start[i] # start[co]
             /\ cs # "OBJECT" => m[end[co]] # "S"
  <2>1. co \in 1..co
    BY <1>3
  <2>2. Begun(co, m, start, X, h, lev) /\ (cs # "OBJECT" => Paused(co, m, start, end, X, h, lev))
    BY <1>1, <1>3, <2>1 DEF Regions
  <2>3. ASSUME NEW i \in 1..(co - 1), start[i] = start[co] PROVE FALSE
    <3>1. i \in 1..co /\ i # co /\ start[i] # UNKNOWN
      BY <1>3, <2>3
    <3>2. Begun(i, m, start, X, h, lev)
      BY <1>1, <3>1 DEF Regions
    <3>3. lev[i] = lev[co]
      BY <2>2, <2>3, <3>2 DEF Begun
    <3>4. lev[i] < lev[co] /\ lev[i] \in Nat
      BY <1>1, <1>3, <3>1, LevelsBelow
    <3>5. lev[co] \in Nat
      BY <1>1, <1>3, LevelsBelow
    <3> QED BY <3>3, <3>4, <3>5
  <2> QED BY <2>2, <2>3 DEF Begun, Paused
<1> QED BY <1>2, <1>3

-----------------------------------------------------------------------------
(* What the parts of the loop body do to the lists *)

AllFields == LineFields \union CellFields

LinkedOn(next, a, b) == IF a.first # None /\ b.last # None THEN [next EXCEPT ![a.last] = b.first] ELSE next

LEMMA SameCellsSame ==
  ASSUME NEW r, NEW s, NEW t, SameCells(r, s), SameCells(s, t)
  PROVE  SameCells(r, t)
BY DEF SameCells, Holds

LEMMA ClearedCells ==
  ASSUME NEW s, AllFields \subseteq DOMAIN s, "ready" \in DOMAIN s, "object" \in DOMAIN s, NEW t, t = Cleared(s)
  PROVE  SameCells(s, t)
BY DEF Cleared, AllFields, LineFields, CellFields, SameCells, Holds

LEMMA PushCells ==
  ASSUME NEW s, AllFields \subseteq DOMAIN s, NEW status0
  PROVE  SameCells(s, Push(s, status0))
BY DEF Push, AllFields, LineFields, CellFields, SameCells, Holds

LEMMA PoppedCells ==
  ASSUME NEW s, AllFields \subseteq DOMAIN s
  PROVE  SameCells(s, Popped(s))
BY DEF Popped, AllFields, LineFields, CellFields, SameCells, Holds

LEMMA PopCells ==
  ASSUME NEW s, AllFields \subseteq DOMAIN s
  PROVE  SameCells(s, Pop(s))
<1>1. PICK p, top : p = Popped(s) /\ top = s.psstack[Len(s.psstack)]
  OBVIOUS
<1>2. Pop(s) = [p EXCEPT !.ps = top]
  BY <1>1 DEF Pop
<1>3. SameCells(s, p)
  BY <1>1, PoppedCells
<1> QED BY <1>2, <1>3 DEF AllFields, LineFields, CellFields, SameCells, Holds

LEMMA CheckedCells ==
  ASSUME NEW s, AllFields \subseteq DOMAIN s, NEW i
  PROVE  SameCells(s, Checked(s, i))
BY DEF Checked, AllFields, LineFields, CellFields, SameCells, Holds

LEMMA TakeCellCells ==
  ASSUME NEW s, AllFields \subseteq DOMAIN s, "pix" \in DOMAIN s, NEW truncated, NEW t, t = TakeCell(s, truncated)
  PROVE  Holds(s, t, s.info, s.store, [s.nextpix EXCEPT ![s.free] = None], s.nextpix[s.free],
               [pixnb |-> 1, flag |-> truncated, first |-> s.free, last |-> s.free])
BY DEF TakeCell, AllFields, LineFields, CellFields, Holds

LEMMA UpdateCells ==
  ASSUME NEW s, AllFields \subseteq DOMAIN s, NEW i, NEW b, NEW t, t = Update(s, i, b)
  PROVE  Holds(s, t, [s.info EXCEPT ![i] = Joined(s.info[i], b)], s.store,
               LinkedOn(s.nextpix, s.info[i], b), s.free, s.curpix)
<1>1. PICK j, a : a = s.info[i] /\ j = Joined(a, b)
  OBVIOUS
<1>2. t = [s EXCEPT !.info[i] = j, !.nextpix = LinkedOn(s.nextpix, a, b)]
  BY <1>1 DEF Update, LinkedOn, AllFields, LineFields, CellFields
<1> QED BY <1>1, <1>2 DEF AllFields, LineFields, CellFields, Holds

LEMMA CompleteCells ==
  ASSUME NEW s, AllFields \subseteq DOMAIN s, "ready" \in DOMAIN s, "object" \in DOMAIN s, NEW minarea,
         NEW t, t = Complete(s, minarea)
  PROVE  Holds(s, t, s.info, s.store, [s.nextpix EXCEPT ![s.info[s.co].last] = s.free],
               s.info[s.co].first, s.curpix)
BY DEF Complete, AllFields, LineFields, CellFields, Holds

LEMMA SuspendCells ==
  ASSUME NEW s, AllFields \subseteq DOMAIN s, NEW t, t = Suspend(s)
  PROVE  Holds(s, t, s.info, [s.store EXCEPT ![s.start[s.co]] = s.info[s.co]], s.nextpix, s.free, s.curpix)
<1>1. PICK p : p = Checked(s, s.end[s.co])
  OBVIOUS
<1>2. PICK q : q = Checked(p, s.start[s.co])
  OBVIOUS
<1>3. SameCells(s, p)
  BY <1>1, CheckedCells
<1>4. SameCells(p, q)
  BY <1>2, <1>3, CheckedCells DEF SameCells, Holds
<1>5. SameCells(s, q)
  BY <1>3, <1>4, SameCellsSame
<1>6. t = [q EXCEPT !.marker[s.end[s.co]] = "F", !.store[s.start[s.co]] = s.info[s.co]]
  BY <1>1, <1>2 DEF Suspend
<1> QED BY <1>5, <1>6 DEF AllFields, LineFields, CellFields, SameCells, Holds

LEMMA StartSegmentCells ==
  ASSUME NEW s, AllFields \subseteq DOMAIN s, NEW t, t = StartSegment(s)
  PROVE  /\ s.cs # "OBJECT" /\ s.ps # "OBJECT" =>
              Holds(s, t, [s.info EXCEPT ![s.co + 1] = Blank], s.store, s.nextpix, s.free, s.curpix)
         /\ ~(s.cs # "OBJECT" /\ s.ps # "OBJECT") => SameCells(s, t)
<1>1. PICK r : r = [s EXCEPT !.cs = "OBJECT"]
  OBVIOUS
<1>2. PICK p : p = Push(r, s.ps)
  OBVIOUS
<1>3. SameCells(s, r)
  BY <1>1 DEF AllFields, LineFields, CellFields, SameCells, Holds
<1>4. SameCells(s, p)
  <2>1. SameCells(r, p)
    BY <1>2, <1>3, PushCells DEF SameCells, Holds
  <2> QED BY <1>3, <2>1, SameCellsSame
<1>5. t = IF s.cs = "OBJECT" THEN s
          ELSE IF s.ps # "OBJECT"
          THEN [p EXCEPT !.marker[s.x] = "S", !.co = s.co + 1, !.start[s.co + 1] = s.x,
                         !.ps = "COMPLETE", !.info[s.co + 1] = Blank]
          ELSE IF s.start[s.co] = UNKNOWN
          THEN [r EXCEPT !.marker[s.x] = "S", !.start[s.co] = s.x]
          ELSE [r EXCEPT !.marker[s.x] = "s"]
  BY <1>1, <1>2 DEF StartSegment
<1>6. ASSUME s.cs # "OBJECT", s.ps # "OBJECT"
      PROVE  Holds(s, t, [s.info EXCEPT ![s.co + 1] = Blank], s.store, s.nextpix, s.free, s.curpix)
  <2>1. t = [p EXCEPT !.marker[s.x] = "S", !.co = s.co + 1, !.start[s.co + 1] = s.x,
                         !.ps = "COMPLETE", !.info[s.co + 1] = Blank]
    BY <1>5, <1>6
  <2> QED BY <1>4, <2>1 DEF AllFields, LineFields, CellFields, SameCells, Holds
<1>7. ASSUME ~(s.cs # "OBJECT" /\ s.ps # "OBJECT") PROVE SameCells(s, t)
  <2>1. \/ t = s \/ t = [r EXCEPT !.marker[s.x] = "S", !.start[s.co] = s.x] \/ t = [r EXCEPT !.marker[s.x] = "s"]
    BY <1>5, <1>7
  <2> QED BY <1>3, <2>1 DEF AllFields, LineFields, CellFields, SameCells, Holds
<1> QED BY <1>6, <1>7

LEMMA MarkerSCells ==
  ASSUME NEW s, AllFields \subseteq DOMAIN s, NEW t, t = MarkerS(s)
  PROVE  /\ s.cs = "NONOBJECT" =>
              Holds(s, t, [s.info EXCEPT ![s.co + 1] = s.store[s.x]], s.store, s.nextpix, s.free, s.curpix)
         /\ s.cs # "NONOBJECT" =>
              Holds(s, t, [s.info EXCEPT ![s.co] = Joined(s.info[s.co], s.store[s.x])], s.store,
                    LinkedOn(s.nextpix, s.info[s.co], s.store[s.x]), s.free, s.curpix)
<1>1. PICK p : p = Push(s, s.ps)
  OBVIOUS
<1>2. PICK q : q = Push(p, "COMPLETE")
  OBVIOUS
<1>3. PICK u : u = Update(p, s.co, s.store[s.x])
  OBVIOUS
<1>4. t = IF s.cs = "NONOBJECT"
          THEN [q EXCEPT !.co = s.co + 1, !.info[s.co + 1] = s.store[s.x],
                         !.start[s.co + 1] = UNKNOWN, !.ps = "OBJECT"]
          ELSE [u EXCEPT !.ps = "OBJECT"]
  BY <1>1, <1>2, <1>3 DEF MarkerS
<1>5. SameCells(s, p)
  BY <1>1, PushCells
<1>6. AllFields \subseteq DOMAIN p /\ DOMAIN p = DOMAIN s
  BY <1>5 DEF SameCells, Holds
<1>7. SameCells(s, q)
  BY <1>2, <1>5, <1>6, PushCells, SameCellsSame
<1>8. ASSUME s.cs = "NONOBJECT"
      PROVE  Holds(s, t, [s.info EXCEPT ![s.co + 1] = s.store[s.x]], s.store, s.nextpix, s.free, s.curpix)
  <2>1. t = [q EXCEPT !.co = s.co + 1, !.info[s.co + 1] = s.store[s.x],
                         !.start[s.co + 1] = UNKNOWN, !.ps = "OBJECT"]
    BY <1>4, <1>8
  <2> QED BY <1>7, <2>1 DEF AllFields, LineFields, CellFields, SameCells, Holds
<1>9. ASSUME s.cs # "NONOBJECT"
      PROVE  Holds(s, t, [s.info EXCEPT ![s.co] = Joined(s.info[s.co], s.store[s.x])], s.store,
                    LinkedOn(s.nextpix, s.info[s.co], s.store[s.x]), s.free, s.curpix)
  <2>1. PICK i, b : i = s.co /\ b = s.store[s.x]
    OBVIOUS
  <2>2. Holds(p, u, [p.info EXCEPT ![i] = Joined(p.info[i], b)], p.store,
               LinkedOn(p.nextpix, p.info[i], b), p.free, p.curpix)
    BY <1>3, <1>6, <2>1, UpdateCells
  <2>3. Holds(s, u, [s.info EXCEPT ![i] = Joined(s.info[i], b)], s.store,
               LinkedOn(s.nextpix, s.info[i], b), s.free, s.curpix)
    BY <1>5, <2>2 DEF SameCells, Holds
  <2>4. PICK info2, next2 : info2 = [s.info EXCEPT ![i] = Joined(s.info[i], b)] /\ next2 = LinkedOn(s.nextpix, s.info[i], b)
    OBVIOUS
  <2>5. Holds(s, u, info2, s.store, next2, s.free, s.curpix)
    BY <2>3, <2>4
  <2>6. Holds(s, t, info2, s.store, next2, s.free, s.curpix)
    BY <1>4, <1>6, <1>9, <2>5 DEF AllFields, LineFields, CellFields, Holds
  <2> QED BY <2>1, <2>4, <2>6
<1> QED BY <1>8, <1>9

LEMMA MarkerInnerCells ==
  ASSUME NEW s, AllFields \subseteq DOMAIN s, NEW t, t = MarkerInner(s)
  PROVE  /\ s.cs = "OBJECT" /\ s.ps = "COMPLETE" =>
              Holds(s, t, [s.info EXCEPT ![s.co - 1] = Joined(s.info[s.co - 1], s.info[s.co])], s.store,
                    LinkedOn(s.nextpix, s.info[s.co - 1], s.info[s.co]), s.free, s.curpix)
         /\ ~(s.cs = "OBJECT" /\ s.ps = "COMPLETE") => SameCells(s, t)
<1>1. PICK p : p = Popped(s)
  OBVIOUS
<1>2. PICK i, b : i = s.co - 1 /\ b = s.info[s.co]
  OBVIOUS
<1>3. PICK q : q = Update(p, i, b)
  OBVIOUS
<1>4. PICK u : u = Checked(q, s.start[s.co])
  OBVIOUS
<1>5. PICK outer : outer = s.start[s.co - 1]
  OBVIOUS
<1>6. t = IF s.cs = "OBJECT" /\ s.ps = "COMPLETE"
          THEN [u EXCEPT !.co = s.co - 1, !.ps = "OBJECT",
                  !.start[s.co - 1] = IF outer = UNKNOWN THEN s.start[s.co] ELSE @,
                  !.marker = IF outer = UNKNOWN THEN @ ELSE [@ EXCEPT ![s.start[s.co]] = "s"]]
          ELSE [s EXCEPT !.ps = "OBJECT"]
  BY <1>1, <1>2, <1>3, <1>4, <1>5 DEF MarkerInner
<1>7. ASSUME ~(s.cs = "OBJECT" /\ s.ps = "COMPLETE") PROVE SameCells(s, t)
  <2>1. t = [s EXCEPT !.ps = "OBJECT"]
    BY <1>6, <1>7
  <2> QED BY <2>1 DEF AllFields, LineFields, CellFields, SameCells, Holds
<1>8. SameCells(s, p)
  BY <1>1, PoppedCells
<1>9. PICK info2, next2 : /\ info2 = [s.info EXCEPT ![i] = Joined(s.info[i], b)]
                          /\ next2 = LinkedOn(s.nextpix, s.info[i], b)
  OBVIOUS
<1>10. Holds(s, q, info2, s.store, next2, s.free, s.curpix)
  <2>1. AllFields \subseteq DOMAIN p /\ p.info = s.info /\ p.nextpix = s.nextpix
    BY <1>8 DEF SameCells, Holds
  <2>2. Holds(p, q, [p.info EXCEPT ![i] = Joined(p.info[i], b)], p.store,
               LinkedOn(p.nextpix, p.info[i], b), p.free, p.curpix)
    BY <1>3, <2>1, UpdateCells
  <2>3. Holds(p, q, info2, p.store, next2, p.free, p.curpix)
    BY <1>9, <2>1, <2>2
  <2> QED BY <1>8, <2>3 DEF SameCells, Holds
<1>11. Holds(s, u, info2, s.store, next2, s.free, s.curpix)
  <2>1. AllFields \subseteq DOMAIN q
    BY <1>10 DEF Holds
  <2>2. SameCells(q, u)
    BY <1>4, <2>1, CheckedCells
  <2> QED BY <1>10, <2>2 DEF SameCells, Holds
<1>12. ASSUME s.cs = "OBJECT" /\ s.ps = "COMPLETE" PROVE Holds(s, t, info2, s.store, next2, s.free, s.curpix)
  <2>1. t = [u EXCEPT !.co = s.co - 1, !.ps = "OBJECT",
                  !.start[s.co - 1] = IF outer = UNKNOWN THEN s.start[s.co] ELSE @,
                  !.marker = IF outer = UNKNOWN THEN @ ELSE [@ EXCEPT ![s.start[s.co]] = "s"]]
    BY <1>6, <1>12
  <2>2. /\ DOMAIN t = DOMAIN u /\ t.info = u.info /\ t.store = u.store /\ t.nextpix = u.nextpix
        /\ t.free = u.free /\ t.curpix = u.curpix
    BY <1>11, <2>1 DEF AllFields, LineFields, CellFields, Holds
  <2> QED BY <1>11, <2>2 DEF Holds
<1> QED BY <1>2, <1>7, <1>9, <1>12

LEMMA MarkerFCells ==
  ASSUME NEW s, AllFields \subseteq DOMAIN s, "ready" \in DOMAIN s, "object" \in DOMAIN s,
         NEW minarea, NEW t, t = MarkerF(s, minarea),
         NEW top, top = s.psstack[Len(s.psstack)]
  PROVE  /\ ~(s.cs = "NONOBJECT" /\ top = "COMPLETE") => SameCells(s, t)
         /\ s.cs = "NONOBJECT" /\ top = "COMPLETE" /\ s.start[s.co] = UNKNOWN =>
              Holds(s, t, s.info, s.store, [s.nextpix EXCEPT ![s.info[s.co].last] = s.free],
                    s.info[s.co].first, s.curpix)
         /\ s.cs = "NONOBJECT" /\ top = "COMPLETE" /\ s.start[s.co] # UNKNOWN =>
              Holds(s, t, s.info, [s.store EXCEPT ![s.start[s.co]] = s.info[s.co]], s.nextpix, s.free, s.curpix)
<1>1. PICK p : p = Pop(s)
  OBVIOUS
<1>2. PICK q : q = IF s.start[s.co] = UNKNOWN THEN Complete(p, minarea) ELSE Suspend(p)
  OBVIOUS
<1>3. PICK r : r = [q EXCEPT !.co = s.co - 1]
  OBVIOUS
<1>4. SameCells(s, p) /\ AllFields \subseteq DOMAIN p /\ DOMAIN p = DOMAIN s
  BY <1>1, PopCells DEF SameCells, Holds
<1>5. t = IF s.cs = "NONOBJECT" /\ p.ps = "COMPLETE" THEN Pop(r) ELSE p
  BY <1>1, <1>2, <1>3 DEF MarkerF
<1>6. p.ps = top /\ p.start = s.start /\ p.co = s.co
  <2>1. LineFields \subseteq DOMAIN s
    BY DEF AllFields
  <2> QED BY <1>1, <2>1, PopDoes DEF Becomes
<1>7. ASSUME NEW info, NEW store, NEW next, NEW free, Holds(s, q, info, store, next, free, s.curpix),
             s.cs = "NONOBJECT" /\ top = "COMPLETE"
      PROVE  Holds(s, t, info, store, next, free, s.curpix)
  <2>1. t = Pop(r)
    BY <1>5, <1>6, <1>7
  <2>2. Holds(s, r, info, store, next, free, s.curpix)
    BY <1>3, <1>7 DEF AllFields, LineFields, CellFields, Holds
  <2>3. SameCells(r, t)
    BY <2>1, <2>2, PopCells DEF Holds
  <2> QED BY <2>2, <2>3 DEF SameCells, Holds
<1>8. ASSUME s.start[s.co] = UNKNOWN
      PROVE  Holds(s, q, s.info, s.store, [s.nextpix EXCEPT ![s.info[s.co].last] = s.free],
                    s.info[s.co].first, s.curpix)
  <2>1. q = Complete(p, minarea)
    BY <1>2, <1>8
  <2>2. Holds(p, q, p.info, p.store, [p.nextpix EXCEPT ![p.info[p.co].last] = p.free],
               p.info[p.co].first, p.curpix)
    BY <1>4, <2>1, CompleteCells
  <2> QED BY <1>4, <1>6, <2>2 DEF SameCells, Holds
<1>9. ASSUME s.start[s.co] # UNKNOWN
      PROVE  Holds(s, q, s.info, [s.store EXCEPT ![s.start[s.co]] = s.info[s.co]], s.nextpix, s.free, s.curpix)
  <2>1. q = Suspend(p)
    BY <1>2, <1>9
  <2>2. Holds(p, q, p.info, [p.store EXCEPT ![p.start[p.co]] = p.info[p.co]], p.nextpix, p.free, p.curpix)
    BY <1>4, <2>1, SuspendCells
  <2> QED BY <1>4, <1>6, <2>2 DEF SameCells, Holds
<1>10. ~(s.cs = "NONOBJECT" /\ top = "COMPLETE") => SameCells(s, t)
  BY <1>4, <1>5, <1>6
<1> QED BY <1>7, <1>8, <1>9, <1>10

LEMMA EndSegmentCells ==
  ASSUME NEW s, AllFields \subseteq DOMAIN s, NEW t, t = EndSegment(s)
  PROVE  /\ ~(s.cs = "OBJECT" /\ s.ps = "COMPLETE") => SameCells(s, t)
         /\ s.cs = "OBJECT" /\ s.ps = "COMPLETE" =>
              Holds(s, t, s.info, [s.store EXCEPT ![s.start[s.co]] = s.info[s.co]], s.nextpix, s.free, s.curpix)
<1>1. PICK r : r = [s EXCEPT !.cs = "NONOBJECT"]
  OBVIOUS
<1>2. PICK q : q = Pop(r)
  OBVIOUS
<1>3. PICK p : p = Checked(q, s.start[s.co])
  OBVIOUS
<1>4. t = IF s.cs # "OBJECT" THEN s
          ELSE IF s.ps # "COMPLETE"
          THEN [r EXCEPT !.marker[s.x] = "f", !.end[s.co] = s.x]
          ELSE [p EXCEPT !.marker[s.x] = "F", !.store[s.start[s.co]] = s.info[s.co],
                         !.co = s.co - 1]
  BY <1>1, <1>2, <1>3 DEF EndSegment
<1>5. SameCells(s, r)
  BY <1>1 DEF AllFields, LineFields, CellFields, SameCells, Holds
<1>6. SameCells(r, q)
  BY <1>2, <1>5, PopCells DEF SameCells, Holds
<1>7. SameCells(s, q)
  BY <1>5, <1>6, SameCellsSame
<1>8. SameCells(q, p)
  BY <1>3, <1>7, CheckedCells DEF SameCells, Holds
<1>9. SameCells(s, p)
  BY <1>7, <1>8, SameCellsSame
<1>10. ASSUME s.cs = "OBJECT" /\ s.ps = "COMPLETE"
       PROVE  Holds(s, t, s.info, [s.store EXCEPT ![s.start[s.co]] = s.info[s.co]], s.nextpix, s.free, s.curpix)
  <2>1. t = [p EXCEPT !.marker[s.x] = "F", !.store[s.start[s.co]] = s.info[s.co], !.co = s.co - 1]
    BY <1>4, <1>10
  <2> QED BY <1>9, <2>1 DEF AllFields, LineFields, CellFields, SameCells, Holds
<1>11. ASSUME ~(s.cs = "OBJECT" /\ s.ps = "COMPLETE") PROVE SameCells(s, t)
  <2>1. t = s \/ t = [r EXCEPT !.marker[s.x] = "f", !.end[s.co] = s.x]
    BY <1>4, <1>11
  <2> QED BY <1>5, <2>1 DEF AllFields, LineFields, CellFields, SameCells, Holds
<1> QED BY <1>10, <1>11

LEMMA AdvanceCells ==
  ASSUME NEW s, AllFields \subseteq DOMAIN s, "y" \in DOMAIN s, NEW w, NEW t, t = Advance(s, w)
  PROVE  /\ SameCells(s, t) /\ t.marker = s.marker /\ t.start = s.start /\ t.co = s.co
<1>1. t = [s EXCEPT !.x = s.x + 1] \/ t = [s EXCEPT !.x = 0, !.y = s.y + 1, !.ps = "COMPLETE", !.cs = "NONOBJECT"]
  BY DEF Advance
<1> QED BY <1>1 DEF AllFields, LineFields, CellFields, SameCells, Holds

-----------------------------------------------------------------------------
(* The lists of the places that may grow *)

(* One of the open regions' lists is joined by another list. *)
LEMMA AccountsUpdate ==
  ASSUME NEW s, NEW w \in Nat, NEW n \in Nat \ {0}, NEW P, NEW B, Accounts(s, w, n, P, B),
         NEW i, <<"info", i>> \in P, NEW b \in P \ {Free}, b # <<"info", i>>, <<"info", i>> \notin B \/ b \notin B,
         NEW lb, lb = ListIn(s, n, b),
         NEW t, Holds(s, t, [s.info EXCEPT ![i] = Joined(s.info[i], lb)], s.store,
                      LinkedOn(s.nextpix, s.info[i], lb), s.free, s.curpix)
  PROVE  Accounts(t, w, n, P \ {b}, B \ {<<"info", i>>, b})
<1>1. PICK a, la, value : a = <<"info", i>> /\ la = s.info[i] /\ value = Joined(la, lb)
  OBVIOUS
<1>2. a \in P \ {Free} /\ a # b /\ (a \notin B \/ b \notin B) /\ b \in P \ {Free}
  BY <1>1, PlainPlaces
<1>3. la = ListIn(s, n, a)
  BY <1>1, PlainPlaces DEF ListIn, ListAt
<1>4. Writes(s, t, w, a, value) /\ t.free = s.free
  <2>1. i \in 0..w
    <3>1. a \in Names(w)
      BY <1>2 DEF Accounts
    <3> QED BY <1>1, <3>1, PlainPlaces DEF Names
  <2> QED BY <1>1, <2>1 DEF Writes, Holds
<1>5. /\ la.first # None /\ lb.last # None => Linked(t.nextpix, s.nextpix, la, lb)
      /\ ~(la.first # None /\ lb.last # None) => t.nextpix = s.nextpix
  BY <1>1 DEF Holds, LinkedOn, Linked
<1>6. Accounts(t, w, n, P \ {b}, B \ {a, b})
  BY ONLY <1>1, <1>2, <1>3, <1>4, <1>5, Accounts(s, w, n, P, B), w \in Nat, n \in Nat \ {0}, lb = ListIn(s, n, b),
     AccountsJoin
<1> QED BY <1>1, <1>6

Fields == AllFields \union {"ready", "object", "pix", "y"}

GrowingIn(w, s) == GrowingAt(w, s.marker, s.start, s.co)

(* Every cell is free or in the list of a region that may grow; during a     *)
(* visit also in the lists E: the region taken from the visited column, and  *)
(* the new pixel.  Only a region of B may have no cell.                      *)
Cellular(s, w, n, E, B) ==
  /\ Fields \subseteq DOMAIN s
  /\ E \subseteq {<<"store", s.x>>, Cur} /\ E \intersect GrowingIn(w, s) = {}
  /\ B \subseteq {<<"info", s.co>>}
  /\ Accounts(s, w, n, GrowingIn(w, s) \union E \union {Free}, B)

LEMMA CellularSame ==
  ASSUME NEW w, NEW n, NEW s, NEW E, NEW B, Cellular(s, w, n, E, B), NEW t, SameCells(s, t),
         t.x = s.x, GrowingIn(w, t) = GrowingIn(w, s), B \subseteq {<<"info", t.co>>}
  PROVE  Cellular(t, w, n, E, B)
<1>1. Accounts(t, w, n, GrowingIn(w, s) \union E \union {Free}, B)
  BY AccountsSame DEF Cellular
<1>2. DOMAIN t = DOMAIN s
  BY DEF SameCells, Holds
<1> QED BY <1>1, <1>2 DEF Cellular

(* What the lists not among those that may grow are named. *)
LEMMA ExtraPlaces ==
  ASSUME NEW w, NEW n, NEW s, NEW E, NEW B, Cellular(s, w, n, E, B)
  PROVE  /\ Free \notin E /\ Free \notin GrowingIn(w, s) /\ Cur \notin GrowingIn(w, s)
         /\ Free \notin B /\ Cur \notin B
         /\ \A i : /\ <<"info", i>> \notin E /\ <<"info", i>> \notin {Free, Cur}
                   /\ <<"store", i>> \notin {Free, Cur} /\ <<"store", i>> \notin B
                   /\ <<"store", i>> \in E => i = s.x
BY PlainPlaces, GrowingPlaces DEF Cellular, GrowingIn

(* The marker of the visited column is taken. *)
LEMMA CellsCleared ==
  ASSUME NEW w \in Nat, NEW n, NEW s, Inside(s, w), Known(s, s.x), Cellular(s, w, n, {}, {}),
         NEW t, t = Cleared(s)
  PROVE  Cellular(t, w, n, IF s.marker[s.x] = "S" THEN {<<"store", s.x>>} ELSE {}, {})
<1>1. PICK x, co, m, start :
        /\ x \in 0..w /\ co \in 0..w
        /\ x = s.x /\ co = s.co /\ m = s.marker /\ start = s.start
        /\ DOMAIN m = 0..w
  BY DEF Inside, HasLine
<1>2. x \in 0..w /\ co \in 0..w
  BY <1>1
<1> USE <1>2
<1>3. PICK m2 : m2 = [s.marker EXCEPT ![s.x] = "none"] /\ Put(m2, m, x, "none")
  BY <1>1 DEF Put
<1>4. Fields \subseteq DOMAIN s /\ AllFields \subseteq DOMAIN s /\ "ready" \in DOMAIN s /\ "object" \in DOMAIN s
  BY DEF Cellular, Fields
<1>5. DOMAIN t = DOMAIN s /\ t.x = x /\ t.co = co /\ t.marker = m2 /\ t.start = start
  BY <1>1, <1>3, <1>4 DEF Cleared, AllFields, LineFields
<1>6. SameCells(s, t)
  BY <1>4, ClearedCells
<1>7. \A i \in 1..co : start[i] # x
  <2>1. Past(m, start, s.end, s.cs, co, x) /\ co \in Nat /\ x \in Nat
    BY <1>1 DEF Known
  <2> QED BY <2>1, PastWaits
<1>8. /\ m[x] # "S" => GrowingAt(w, m2, start, co) = GrowingAt(w, m, start, co)
      /\ m[x] = "S" => /\ GrowingAt(w, m, start, co) = GrowingAt(w, m2, start, co) \union {<<"store", x>>}
                       /\ <<"store", x>> \notin GrowingAt(w, m2, start, co)
  <2>1. DOMAIN m = 0..w /\ (\A i \in 1..co : start[i] # x) /\ Put(m2, m, x, "none")
    BY <1>1, <1>3, <1>7
  <2> QED BY ONLY <2>1, w \in Nat, x \in 0..w, GrowClear
<1>9. GrowingIn(w, s) = GrowingAt(w, m, start, co) /\ GrowingIn(w, t) = GrowingAt(w, m2, start, co)
  BY <1>1, <1>5 DEF GrowingIn
<1>10. CASE m[x] # "S"
  BY <1>1, <1>5, <1>6, <1>8, <1>9, <1>10, CellularSame
<1>11. CASE m[x] = "S"
  <2>1. Accounts(t, w, n, GrowingIn(w, s) \union {} \union {Free}, {})
    BY <1>6, AccountsSame DEF Cellular
  <2>2. GrowingIn(w, s) \union {} \union {Free} = GrowingIn(w, t) \union {<<"store", x>>} \union {Free}
    BY <1>8, <1>9, <1>11
  <2>3. Accounts(t, w, n, GrowingIn(w, t) \union {<<"store", x>>} \union {Free}, {})
    BY <2>1, <2>2
  <2> QED BY <1>1, <1>4, <1>5, <1>8, <1>9, <1>11, <2>3 DEF Cellular
<1> QED BY <1>10, <1>11

(* A pixel takes a cell. *)
LEMMA CellsTake ==
  ASSUME NEW w \in Nat, NEW n \in Nat \ {0}, NEW s, NEW E, Cur \notin E, Cellular(s, w, n, E, {}),
         s.nextpix[s.free] # n - 1, NEW truncated, NEW t, t = TakeCell(s, truncated)
  PROVE  Cellular(t, w, n, E \union {Cur}, {})
<1>1. Fields \subseteq DOMAIN s /\ AllFields \subseteq DOMAIN s /\ "pix" \in DOMAIN s /\ LineFields \subseteq DOMAIN s
  BY DEF Cellular, Fields, AllFields
<1>2. PICK next, cur : /\ next = [s.nextpix EXCEPT ![s.free] = None]
                       /\ cur = [pixnb |-> 1, flag |-> truncated, first |-> s.free, last |-> s.free]
  OBVIOUS
<1>3. Holds(s, t, s.info, s.store, next, s.nextpix[s.free], cur)
  BY <1>1, <1>2, TakeCellCells
<1>4. PICK P, G : P = GrowingIn(w, s) \union E \union {Free} /\ G = GrowingIn(w, s)
  OBVIOUS
<1>5. Accounts(s, w, n, P, {}) /\ Cur \notin P
  BY <1>4, ExtraPlaces, PlainPlaces DEF Cellular
<1>6. cur.pixnb = 1 /\ cur.first = s.free /\ cur.last = s.free
  BY <1>2
<1>7. Accounts(t, w, n, P \union {Cur}, {})
  BY <1>2, <1>3, <1>5, <1>6, AccountsTake
<1>8. GrowingIn(w, t) = G /\ t.x = s.x /\ DOMAIN t = DOMAIN s
  BY <1>1, <1>4, TakeCellSame DEF Same, Becomes, GrowingIn
<1>9. P \union {Cur} = GrowingIn(w, t) \union (E \union {Cur}) \union {Free}
  BY <1>4, <1>8
<1>10. (E \union {Cur}) \intersect G = {}
  BY <1>4, ExtraPlaces DEF Cellular
<1>11. Accounts(t, w, n, GrowingIn(w, t) \union (E \union {Cur}) \union {Free}, {})
  BY <1>7, <1>9
<1> QED BY <1>1, <1>8, <1>10, <1>11 DEF Cellular

(* "Start segment": a region that begins has no cell yet. *)
LEMMA CellsStart ==
  ASSUME NEW w \in Nat, NEW n \in Nat \ {0}, NEW s, Inside(s, w), s.marker[s.x] = "none",
         s.cs # "OBJECT" /\ s.ps # "OBJECT" => s.co < w,
         NEW E, Cellular(s, w, n, E, {}), NEW t, t = StartSegment(s)
  PROVE  \E B : Cellular(t, w, n, E, B)
<1>1. PICK x, co, m, start :
        /\ x \in 0..w /\ co \in 0..w
        /\ x = s.x /\ co = s.co /\ m = s.marker /\ start = s.start
        /\ DOMAIN m = 0..w /\ DOMAIN start = 0..w /\ co \in Nat /\ m[x] = "none"
  BY DEF Inside, HasLine
<1>2. x \in 0..w /\ co \in 0..w
  BY <1>1
<1> USE <1>2
<1>3. Fields \subseteq DOMAIN s /\ AllFields \subseteq DOMAIN s /\ LineFields \subseteq DOMAIN s
  BY DEF Cellular, Fields, AllFields
<1>4. PICK G : G = GrowingAt(w, m, start, co) /\ G = GrowingIn(w, s)
  BY <1>1 DEF GrowingIn
<1>5. CASE s.cs = "OBJECT"
  <2>1. t = s
    BY <1>5 DEF StartSegment
  <2> QED BY <2>1
<1>6. CASE s.cs # "OBJECT" /\ s.ps # "OBJECT"
  <2>1. PICK m2, start2, a :
             /\ m2 = [s.marker EXCEPT ![s.x] = "S"] /\ start2 = [s.start EXCEPT ![s.co + 1] = s.x]
             /\ a = <<"info", co + 1>>
             /\ Put(m2, m, x, "S") /\ Put(start2, start, co + 1, x)
    BY <1>1 DEF Put
  <2>2. t.marker = m2 /\ t.start = start2 /\ t.co = co + 1 /\ t.x = x /\ DOMAIN t = DOMAIN s
    <3>1. Becomes(s, t, m2, start2, s.end, Append(s.psstack, s.ps), s.co + 1, "COMPLETE", "OBJECT")
      BY <1>1, <1>3, <1>6, <2>1, StartSegmentDoes
    <3> QED BY <1>1, <3>1 DEF Becomes
  <2>3. co + 1 \in 0..w
    BY <1>1, <1>6
  <2>4. GrowingAt(w, m2, start2, co + 1) = G \union {a} /\ a \notin G
    <3>1. /\ DOMAIN m = 0..w /\ DOMAIN start = 0..w /\ m[x] = "none" /\ co \in Nat
          /\ Put(m2, m, x, "S") /\ Put(start2, start, co + 1, x)
          /\ G = GrowingAt(w, m, start, co) /\ a = <<"info", co + 1>>
      BY <1>1, <1>4, <2>1
    <3>2. /\ GrowingAt(w, m2, start2, co + 1) = GrowingAt(w, m, start, co) \union {<<"info", co + 1>>}
          /\ <<"info", co + 1>> \notin GrowingAt(w, m, start, co)
      BY ONLY <2>3, <3>1, w \in Nat, x \in 0..w, GrowOpen, Zenon
    <3> QED BY <3>1, <3>2
  <2>5. GrowingIn(w, t) = G \union {a}
    BY <2>2, <2>4 DEF GrowingIn
  <2>6. PICK P : P = G \union E \union {Free}
    OBVIOUS
  <2>7. a \notin P /\ a \notin E /\ Accounts(s, w, n, P, {})
    BY <1>4, <2>1, <2>4, <2>6, ExtraPlaces DEF Cellular
  <2>8. Writes(s, t, w, a, Blank) /\ t.nextpix = s.nextpix /\ t.free = s.free
    <3>1. Holds(s, t, [s.info EXCEPT ![s.co + 1] = Blank], s.store, s.nextpix, s.free, s.curpix)
      BY <1>3, <1>6, StartSegmentCells
    <3> QED BY <1>1, <2>1, <2>3, <3>1 DEF Holds, Writes
  <2>9. Accounts(t, w, n, P \union {a}, {} \union {a})
    BY <2>7, <2>8, AccountsBlank
  <2>10. P \union {a} = GrowingIn(w, t) \union E \union {Free} /\ {} \union {a} = {a}
    BY <2>5, <2>6
  <2>11. Accounts(t, w, n, GrowingIn(w, t) \union E \union {Free}, {a})
    BY <2>9, <2>10
  <2>12. E \subseteq {<<"store", t.x>>, Cur} /\ E \intersect GrowingIn(w, t) = {}
    BY <1>1, <1>4, <2>2, <2>5, <2>7 DEF Cellular
  <2>13. Cellular(t, w, n, E, {a})
    BY <1>3, <2>1, <2>2, <2>11, <2>12 DEF Cellular
  <2> QED BY <2>13
<1>7. CASE s.cs # "OBJECT" /\ s.ps = "OBJECT"
  <2>1. SameCells(s, t)
    BY <1>3, <1>7, StartSegmentCells
  <2>2. t.x = s.x /\ GrowingIn(w, t) = G
    <3>1. CASE start[co] = UNKNOWN
      <4>1. PICK m2, start2 :
                 /\ m2 = [s.marker EXCEPT ![s.x] = "S"] /\ start2 = [s.start EXCEPT ![s.co] = s.x]
                 /\ Put(m2, m, x, "S") /\ Put(start2, start, co, x)
        BY <1>1 DEF Put
      <4>2. t.marker = m2 /\ t.start = start2 /\ t.co = co /\ t.x = x
        <5>1. Becomes(s, t, m2, start2, s.end, s.psstack, s.co, s.ps, "OBJECT")
          BY <1>1, <1>3, <1>7, <3>1, <4>1, StartSegmentDoes
        <5> QED BY <1>1, <5>1 DEF Becomes
      <4>3. co # 0
        BY <1>1, <1>7, FramedCount DEF Inside
      <4>4. co \in 1..w
        BY <4>3
      <4>5. GrowingAt(w, m2, start2, co) = G
        <5>1. /\ DOMAIN m = 0..w /\ DOMAIN start = 0..w /\ start[co] = UNKNOWN /\ m[x] = "none"
              /\ Put(m2, m, x, "S") /\ Put(start2, start, co, x) /\ G = GrowingAt(w, m, start, co)
          BY <1>1, <1>4, <3>1, <4>1
        <5> QED BY ONLY <4>4, <5>1, w \in Nat, x \in 0..w, GrowFirst
      <4> QED BY <1>1, <4>2, <4>5 DEF GrowingIn
    <3>2. CASE start[co] # UNKNOWN
      <4>1. PICK m2 : m2 = [s.marker EXCEPT ![s.x] = "s"] /\ Put(m2, m, x, "s")
        BY <1>1 DEF Put
      <4>2. t.marker = m2 /\ t.start = start /\ t.co = co /\ t.x = x
        <5>1. Becomes(s, t, m2, s.start, s.end, s.psstack, s.co, s.ps, "OBJECT")
          BY <1>1, <1>3, <1>7, <3>2, <4>1, StartSegmentDoes
        <5> QED BY <1>1, <5>1 DEF Becomes
      <4>3. GrowingAt(w, m2, start, co) = G
          <5>1. DOMAIN m = 0..w /\ m[x] # "S" /\ "s" # "S" /\ Put(m2, m, x, "s") /\ G = GrowingAt(w, m, start, co)
            BY <1>1, <1>4, <4>1
          <5> QED BY ONLY <5>1, w \in Nat, x \in 0..w, GrowMark
      <4> QED BY <1>1, <4>2, <4>3 DEF GrowingIn
    <3> QED BY <3>1, <3>2
  <2>3. Cellular(t, w, n, E, {})
    BY <1>4, <2>1, <2>2, CellularSame
  <2> QED BY <2>3
<1> QED BY <1>5, <1>6, <1>7

(* The region of the line above that begins at the visited column is opened, *)
(* or joined to the open one.                                                *)
LEMMA CellsMarkerS ==
  ASSUME NEW w \in Nat, NEW n \in Nat \ {0}, NEW s, Inside(s, w),
         s.cs # "OBJECT" => s.co < w, s.cs = "OBJECT" => s.co # 0,
         NEW E, <<"store", s.x>> \in E, NEW B, s.cs # "OBJECT" => B = {}, Cellular(s, w, n, E, B),
         NEW t, t = MarkerS(s)
  PROVE  \E B2 : B2 \subseteq B /\ Cellular(t, w, n, E \ {<<"store", s.x>>}, B2)
<1>1. PICK x, co, m, start :
        /\ x \in 0..w /\ co \in 0..w
        /\ x = s.x /\ co = s.co /\ m = s.marker /\ start = s.start
        /\ DOMAIN m = 0..w /\ DOMAIN start = 0..w /\ co \in Nat
  BY DEF Inside, HasLine
<1>2. x \in 0..w /\ co \in 0..w
  BY <1>1
<1> USE <1>2
<1>3. Fields \subseteq DOMAIN s /\ AllFields \subseteq DOMAIN s /\ LineFields \subseteq DOMAIN s
  BY DEF Cellular, Fields, AllFields
<1>4. PICK G, P, b, lb : /\ G = GrowingAt(w, m, start, co) /\ G = GrowingIn(w, s)
                         /\ P = G \union E \union {Free} /\ b = <<"store", x>> /\ lb = s.store[x]
  BY <1>1 DEF GrowingIn
<1>5. /\ Accounts(s, w, n, P, B) /\ b \in P \ {Free} /\ b \notin G /\ b \notin B /\ b \in E
      /\ E \subseteq {b, Cur} /\ E \intersect G = {} /\ B \subseteq {<<"info", co>>}
      /\ Free \notin E /\ Free \notin G /\ \A i : <<"info", i>> \notin E /\ <<"info", i>> # Free /\ <<"info", i>> # b
  <2>1. /\ Free \notin E /\ Free \notin GrowingIn(w, s) /\ b \notin {Free, Cur} /\ b \notin B
        /\ \A i : <<"info", i>> \notin E /\ <<"info", i>> # Free
    BY <1>4, ExtraPlaces
  <2>2. /\ Accounts(s, w, n, P, B) /\ E \subseteq {b, Cur} /\ E \intersect G = {} /\ B \subseteq {<<"info", co>>}
    BY <1>1, <1>4 DEF Cellular
  <2> QED BY <1>1, <1>4, <2>1, <2>2
<1>6. lb = ListIn(s, n, b)
  BY <1>1, <1>4, PlainPlaces DEF ListIn, ListAt
<1>7. s.cs = "NONOBJECT" \/ s.cs = "OBJECT"
  BY DEF Inside
<1>8. CASE s.cs = "NONOBJECT"
  <2>1. PICK a, start2 : /\ a = <<"info", co + 1>> /\ start2 = [s.start EXCEPT ![s.co + 1] = UNKNOWN]
                         /\ Put(start2, start, co + 1, UNKNOWN)
    BY <1>1 DEF Put
  <2>2. t.marker = m /\ t.start = start2 /\ t.co = co + 1 /\ t.x = x /\ DOMAIN t = DOMAIN s
    <3>1. Becomes(s, t, s.marker, start2, s.end,
                      Append(Append(s.psstack, s.ps), "COMPLETE"), s.co + 1, "OBJECT", s.cs)
      BY <1>3, <1>8, <2>1, MarkerSDoes
    <3> QED BY <1>1, <3>1 DEF Becomes
  <2>3. co + 1 \in 0..w /\ B = {}
    BY <1>1, <1>8
  <2>4. GrowingIn(w, t) = G \union {a} /\ a \notin G
    <3>1. /\ GrowingAt(w, m, start2, co + 1) = GrowingAt(w, m, start, co) \union {<<"info", co + 1>>}
          /\ <<"info", co + 1>> \notin GrowingAt(w, m, start, co)
      <4>1. DOMAIN start = 0..w /\ co \in Nat /\ Put(start2, start, co + 1, UNKNOWN)
        BY <1>1, <2>1
      <4> QED BY ONLY <4>1, <2>3, w \in Nat, GrowPush, Zenon
    <3> QED BY <1>4, <2>1, <2>2, <3>1 DEF GrowingIn
  <2>5. Writes(s, t, w, a, lb) /\ t.nextpix = s.nextpix /\ t.free = s.free
    <3>1. Holds(s, t, [s.info EXCEPT ![s.co + 1] = s.store[s.x]], s.store, s.nextpix, s.free, s.curpix)
      BY <1>3, <1>8, MarkerSCells
    <3> QED BY <1>1, <1>4, <2>1, <2>3, <3>1 DEF Holds, Writes
  <2>6. a \notin P /\ a \notin E
    BY <1>4, <1>5, <2>1, <2>4
  <2>7. Accounts(t, w, n, (P \ {b}) \union {a}, B)
    BY ONLY <1>5, <1>6, <2>5, <2>6, w \in Nat, n \in Nat \ {0}, AccountsMove
  <2>8. (P \ {b}) \union {a} = GrowingIn(w, t) \union (E \ {b}) \union {Free}
    BY <1>4, <1>5, <2>4
  <2>9. Accounts(t, w, n, GrowingIn(w, t) \union (E \ {b}) \union {Free}, B)
    BY <2>7, <2>8
  <2>10. (E \ {b}) \subseteq {<<"store", t.x>>, Cur} /\ (E \ {b}) \intersect GrowingIn(w, t) = {}
    BY <1>5, <2>4, <2>6
  <2>11. Cellular(t, w, n, E \ {b}, B)
    BY <1>3, <2>2, <2>3, <2>9, <2>10 DEF Cellular
  <2> QED BY <1>1, <1>4, <2>11
<1>9. CASE s.cs = "OBJECT"
  <2>1. t.marker = m /\ t.start = start /\ t.co = co /\ t.x = x /\ DOMAIN t = DOMAIN s
    <3>1. Becomes(s, t, s.marker, s.start, s.end, Append(s.psstack, s.ps), s.co, "OBJECT", s.cs)
      BY <1>3, <1>9, MarkerSDoes
    <3> QED BY <1>1, <3>1 DEF Becomes
  <2>2. GrowingIn(w, t) = G
    BY <1>4, <2>1 DEF GrowingIn
  <2>3. PICK a, B2 : a = <<"info", co>> /\ B2 = B \ {a, b}
    OBVIOUS
  <2>4. a \in P
    <3>1. co \in 1..co
      BY <1>1, <1>9
    <3> QED BY <1>4, <2>3, <3>1, GrowingPlaces
  <2>5. Holds(s, t, [s.info EXCEPT ![co] = Joined(s.info[co], lb)], s.store,
                      LinkedOn(s.nextpix, s.info[co], lb), s.free, s.curpix)
    BY <1>1, <1>3, <1>4, <1>9, MarkerSCells
  <2>6. Accounts(t, w, n, P \ {b}, B2)
    <3>1. <<"info", co>> \in P /\ b # <<"info", co>> /\ (<<"info", co>> \notin B \/ b \notin B)
      BY <1>5, <2>3, <2>4
    <3>2. Accounts(t, w, n, P \ {b}, B \ {<<"info", co>>, b})
      BY <1>5, <1>6, <2>5, <3>1, AccountsUpdate
    <3> QED BY <2>3, <3>2
  <2>7. P \ {b} = GrowingIn(w, t) \union (E \ {b}) \union {Free}
    BY <1>4, <1>5, <2>2
  <2>8. Accounts(t, w, n, GrowingIn(w, t) \union (E \ {b}) \union {Free}, B2)
    BY <2>6, <2>7
  <2>9. Cellular(t, w, n, E \ {b}, B2)
    BY <1>3, <1>5, <2>1, <2>2, <2>3, <2>8 DEF Cellular
  <2> QED BY <1>1, <1>4, <2>3, <2>9
<1> QED BY <1>7, <1>8, <1>9

(* Two open regions meet: the inner one is joined to the outer one. *)
LEMMA CellsMarkerInner ==
  ASSUME NEW w \in Nat, NEW n \in Nat \ {0}, NEW s, Inside(s, w), NEW X \in 0..(w + 1), Known(s, X),
         s.cs = "OBJECT" /\ s.ps = "COMPLETE" => s.co - 1 # 0,
         NEW E, <<"store", s.x>> \notin E, NEW B, Cellular(s, w, n, E, B), NEW t, t = MarkerInner(s)
  PROVE  \E B2 : B2 \subseteq B /\ Cellular(t, w, n, E, B2)
<1>1. PICK x, co, m, start :
        /\ x \in 0..w /\ co \in 0..w
        /\ x = s.x /\ co = s.co /\ m = s.marker /\ start = s.start
        /\ DOMAIN m = 0..w /\ DOMAIN start = 0..w /\ co \in Nat /\ s.wild = FALSE
  BY DEF Inside, HasLine
<1>2. x \in 0..w /\ co \in 0..w
  BY <1>1
<1> USE <1>2
<1>3. Fields \subseteq DOMAIN s /\ AllFields \subseteq DOMAIN s /\ LineFields \subseteq DOMAIN s
  BY DEF Cellular, Fields, AllFields
<1>4. PICK G, P : /\ G = GrowingAt(w, m, start, co) /\ G = GrowingIn(w, s) /\ P = G \union E \union {Free}
  BY <1>1 DEF GrowingIn
<1>5. s.cs = "OBJECT" => co # 0 /\ start[co] \in 0..w /\ start[co] \in DOMAIN s.marker
  <2>1. Past(m, start, s.end, s.cs, co, X) /\ co \in Nat /\ X \in Nat
    BY <1>1 DEF Known
  <2>2. s.cs = "OBJECT" => co # 0 /\ start[co] \in 0..(X - 1)
    BY <2>1, PastKnown
  <2> QED BY <1>1, <2>2
<1>6. CASE ~(s.cs = "OBJECT" /\ s.ps = "COMPLETE")
  <2>1. Becomes(s, t, s.marker, s.start, s.end, s.psstack, s.co, "OBJECT", s.cs)
    BY <1>1, <1>3, <1>6, MarkerInnerDoes
  <2>2. t.x = s.x /\ GrowingIn(w, t) = GrowingIn(w, s) /\ t.co = s.co
    BY <2>1 DEF Becomes, GrowingIn
  <2>3. SameCells(s, t)
    BY <1>3, <1>6, MarkerInnerCells
  <2>4. Cellular(t, w, n, E, B)
    <3>1. B \subseteq {<<"info", t.co>>}
      BY <2>2 DEF Cellular
    <3> QED BY <2>2, <2>3, <3>1, CellularSame
  <2> QED BY <2>4
<1>7. CASE s.cs = "OBJECT" /\ s.ps = "COMPLETE"
  <2>1. PICK i \in 1..w : i = co - 1 /\ i # co /\ co \in 2..w /\ co \in 1..w /\ i \in 1..co /\ co \in 1..co
    BY <1>1, <1>5, <1>7
  <2>2. PICK a, b, lb : a = <<"info", i>> /\ b = <<"info", co>> /\ lb = s.info[co]
    OBVIOUS
  <2>3. /\ Accounts(s, w, n, P, B) /\ a \in P /\ b \in P \ {Free} /\ b # a /\ a \notin B
        /\ E \subseteq {<<"store", x>>, Cur} /\ E \intersect G = {} /\ B \subseteq {b}
        /\ Free \notin E /\ Free \notin G /\ b \notin E /\ b # Free
    <3>1. a \in G /\ b \in G
      BY <1>4, <2>1, <2>2, GrowingPlaces
    <3>2. a # b
      BY <2>1, <2>2
    <3>3. Free \notin E /\ Free \notin G /\ b \notin E /\ b # Free
      BY <1>4, <2>2, ExtraPlaces
    <3>4. /\ Accounts(s, w, n, P, B) /\ E \subseteq {<<"store", x>>, Cur} /\ E \intersect G = {} /\ B \subseteq {b}
      BY <1>1, <1>4, <2>2 DEF Cellular
    <3> QED BY <1>4, <3>1, <3>2, <3>3, <3>4
  <2>4. lb = ListIn(s, n, b)
    BY <2>2, PlainPlaces DEF ListIn, ListAt
  <2>5. Holds(s, t, [s.info EXCEPT ![i] = Joined(s.info[i], lb)], s.store,
                      LinkedOn(s.nextpix, s.info[i], lb), s.free, s.curpix)
    BY <1>1, <1>3, <1>7, <2>1, <2>2, MarkerInnerCells
  <2>6. Accounts(t, w, n, P \ {b}, {})
    <3>1. <<"info", i>> \in P /\ b # <<"info", i>> /\ (<<"info", i>> \notin B \/ b \notin B)
      BY <2>2, <2>3
    <3>2. Accounts(t, w, n, P \ {b}, B \ {<<"info", i>>, b})
      BY <2>3, <2>4, <2>5, <3>1, AccountsUpdate
    <3>3. B \ {<<"info", i>>, b} = {}
      BY <2>3
    <3> QED BY <3>2, <3>3
  <2>7. GrowingIn(w, t) = G \ {b} /\ t.x = x /\ DOMAIN t = DOMAIN s
    <3>1. CASE start[i] = UNKNOWN
      <4>1. PICK start2 : start2 = [s.start EXCEPT ![s.co - 1] = s.start[s.co]] /\ Put(start2, start, co - 1, start[co])
        BY <1>1 DEF Put
      <4>2. Becomes(s, t, s.marker, start2, s.end,
                      SubSeq(s.psstack, 1, Len(s.psstack) - 1), s.co - 1, "OBJECT", s.cs)
        BY <1>1, <1>3, <1>5, <1>7, <2>1, <3>1, <4>1, MarkerInnerDoes
      <4>3. GrowingAt(w, m, start2, co - 1) = GrowingAt(w, m, start, co) \ {<<"info", co>>}
        <5>1. start[co - 1] = UNKNOWN /\ DOMAIN start = 0..w /\ co \in 2..w /\ Put(start2, start, co - 1, start[co])
          BY <1>1, <2>1, <3>1, <4>1
        <5> QED BY ONLY <5>1, w \in Nat, GrowUnite, SMTT(60)
      <4> QED BY <1>1, <1>4, <2>2, <4>2, <4>3 DEF Becomes, GrowingIn
    <3>2. CASE start[i] # UNKNOWN
      <4>1. PICK m2 : m2 = [s.marker EXCEPT ![s.start[s.co]] = "s"] /\ Put(m2, m, start[co], "s")
        BY <1>1 DEF Put
      <4>2. PICK start2 : /\ start2 = [s.start EXCEPT ![s.co - 1] = @]
                          /\ Becomes(s, t, m2, start2, s.end,
                               SubSeq(s.psstack, 1, Len(s.psstack) - 1), s.co - 1, "OBJECT", s.cs)
        BY <1>1, <1>3, <1>5, <1>7, <2>1, <3>2, <4>1, MarkerInnerDoes
      <4>3. GrowingAt(w, m2, start2, co - 1) = GrowingAt(w, m, start, co) \ {<<"info", co>>}
        <5>1. \A j \in 0..w : start2[j] = start[j]
          BY <1>1, <4>2
        <5>2. DOMAIN m = 0..w /\ start[co] \in 0..w /\ co \in 1..w /\ Put(m2, m, start[co], "s")
          BY <1>1, <1>5, <1>7, <2>1, <4>1
        <5> QED BY ONLY <5>1, <5>2, w \in Nat, GrowJoin
      <4> QED BY <1>1, <1>4, <2>2, <4>2, <4>3 DEF Becomes, GrowingIn
    <3> QED BY <3>1, <3>2
  <2>8. P \ {b} = GrowingIn(w, t) \union E \union {Free}
    BY <1>4, <2>3, <2>7
  <2>9. Accounts(t, w, n, GrowingIn(w, t) \union E \union {Free}, {})
    BY <2>6, <2>8
  <2>10. Cellular(t, w, n, E, {})
    BY <1>3, <2>3, <2>7, <2>9 DEF Cellular
  <2> QED BY <2>10
<1> QED BY <1>6, <1>7

(* An open region is left to the next line: its list is stored at its start. *)
LEMMA CellsSuspend ==
  ASSUME NEW w \in Nat, NEW n \in Nat \ {0}, NEW s, NEW co \in 1..w, NEW m, DOMAIN m = 0..w, NEW start,
         s.co = co, s.marker = m, s.start = start,
         start[co] \in 0..w, m[start[co]] = "S", \A i \in 1..(co - 1) : start[i] # start[co],
         NEW e \in 0..w, m[e] # "S", NEW m2, Put(m2, m, e, "F"),
         NEW E, <<"store", s.x>> \notin E, Cellular(s, w, n, E, {}),
         NEW store, Put(store, s.store, start[co], s.info[co]),
         NEW t, Holds(s, t, s.info, store, s.nextpix, s.free, s.curpix),
         t.x = s.x, t.co = co - 1, t.marker = m2, t.start = start
  PROVE  Cellular(t, w, n, E, {})
<1>1. PICK G, P, a, b, la : /\ G = GrowingIn(w, s) /\ P = G \union E \union {Free}
                            /\ a = <<"info", co>> /\ b = <<"store", start[co]>> /\ la = s.info[co]
  OBVIOUS
<1>2. /\ Free \notin E /\ Free \notin G /\ a \notin E /\ a # Free /\ b \notin {Free, Cur}
  BY <1>1, ExtraPlaces
<1>3. /\ Accounts(s, w, n, P, {}) /\ E \subseteq {<<"store", s.x>>, Cur} /\ E \intersect G = {} /\ Fields \subseteq DOMAIN s
  BY <1>1 DEF Cellular
<1>4. GrowingIn(w, t) = (G \ {a}) \union {b} /\ b \notin G
  <2>1. /\ GrowingAt(w, m2, start, co - 1) =
              (GrowingAt(w, m, start, co) \ {<<"info", co>>}) \union {<<"store", start[co]>>}
        /\ <<"store", start[co]>> \notin GrowingAt(w, m, start, co)
    <3>1. /\ start[co] \in 0..w /\ m[start[co]] = "S" /\ (\A i \in 1..(co - 1) : start[i] # start[co])
          /\ DOMAIN m = 0..w /\ e \in 0..w /\ m[e] # "S" /\ Put(m2, m, e, "F")
      OBVIOUS
    <3> QED BY ONLY <3>1, w \in Nat, co \in 1..w, GrowSuspend
  <2> QED BY <1>1, <2>1 DEF GrowingIn
<1>5. b \notin E /\ b \notin P
  BY <1>1, <1>2, <1>3, <1>4
<1>6. a \in G /\ a # b
  <2>1. co \in 1..co
    OBVIOUS
  <2> QED BY <1>1, <2>1, GrowingPlaces DEF GrowingIn
<1>7. la = ListIn(s, n, a)
  BY <1>1, PlainPlaces DEF ListIn, ListAt
<1>8. Writes(s, t, w, b, la) /\ t.nextpix = s.nextpix /\ t.free = s.free
  BY <1>1 DEF Holds, Writes, Put
<1>9. Accounts(t, w, n, (P \ {a}) \union {b}, {})
  <2>1. a \in P \ {Free} /\ a \notin {}
    BY <1>1, <1>2, <1>6
  <2> QED BY ONLY <1>3, <1>5, <1>7, <1>8, <2>1, w \in Nat, n \in Nat \ {0}, AccountsMove
<1>10. (P \ {a}) \union {b} = GrowingIn(w, t) \union E \union {Free}
  BY <1>1, <1>2, <1>4
<1>11. Accounts(t, w, n, GrowingIn(w, t) \union E \union {Free}, {})
  BY <1>9, <1>10
<1>12. E \intersect GrowingIn(w, t) = {} /\ DOMAIN t = DOMAIN s
  BY <1>3, <1>4, <1>5 DEF Holds
<1> QED BY <1>3, <1>11, <1>12 DEF Cellular

(* An open region is done: its cells are freed. *)
LEMMA CellsComplete ==
  ASSUME NEW w \in Nat, NEW n \in Nat \ {0}, NEW s, NEW co \in 1..w, s.co = co, s.start[co] = UNKNOWN,
         NEW E, Cellular(s, w, n, E, {}),
         NEW la, la = s.info[co], NEW next, next = [s.nextpix EXCEPT ![la.last] = s.free],
         NEW t, Holds(s, t, s.info, s.store, next, la.first, s.curpix),
         t.x = s.x, t.co = co - 1, t.marker = s.marker, t.start = s.start
  PROVE  Cellular(t, w, n, E, {})
<1>1. PICK G, P, a : G = GrowingIn(w, s) /\ P = G \union E \union {Free} /\ a = <<"info", co>>
  OBVIOUS
<1>2. Free \notin E /\ Free \notin G /\ a \notin E /\ a # Free
  BY <1>1, ExtraPlaces
<1>3. /\ Accounts(s, w, n, P, {}) /\ E \subseteq {<<"store", s.x>>, Cur} /\ E \intersect G = {} /\ Fields \subseteq DOMAIN s
  BY <1>1 DEF Cellular
<1>4. GrowingIn(w, t) = G \ {a}
  BY <1>1, GrowDrop DEF GrowingIn
<1>5. a \in P \ {Free} /\ a \notin {}
  <2>1. co \in 1..co
    OBVIOUS
  <2>2. a \in G
    BY <1>1, <2>1, GrowingPlaces DEF GrowingIn
  <2> QED BY <1>1, <1>2, <2>2
<1>6. la = ListIn(s, n, a)
  BY <1>1, PlainPlaces DEF ListIn, ListAt
<1>7. Accounts(t, w, n, P \ {a}, {})
  BY <1>3, <1>5, <1>6, AccountsFree
<1>8. P \ {a} = GrowingIn(w, t) \union E \union {Free}
  BY <1>1, <1>2, <1>4
<1>9. Accounts(t, w, n, GrowingIn(w, t) \union E \union {Free}, {})
  BY <1>7, <1>8
<1>10. E \intersect GrowingIn(w, t) = {} /\ DOMAIN t = DOMAIN s
  BY <1>3, <1>4 DEF Holds
<1> QED BY <1>3, <1>9, <1>10 DEF Cellular

(* The line above ends a region at the visited column. *)
LEMMA CellsMarkerF ==
  ASSUME NEW w \in Nat, NEW n \in Nat \ {0}, NEW s, Inside(s, w), NEW X \in 0..(w + 1), Known(s, X),
         s.ps = "OBJECT",
         NEW E, <<"store", s.x>> \notin E, NEW B, s.cs # "OBJECT" => B = {}, Cellular(s, w, n, E, B),
         B \subseteq {<<"info", s.co>>},
         NEW minarea, NEW t, t = MarkerF(s, minarea)
  PROVE  \E B2 : B2 \subseteq B /\ Cellular(t, w, n, E, B2)
<1>1. PICK x, co, m, start, top :
        /\ x \in 0..w /\ co \in 0..w
        /\ x = s.x /\ co = s.co /\ m = s.marker /\ start = s.start /\ top = s.psstack[Len(s.psstack)]
        /\ DOMAIN m = 0..w /\ DOMAIN start = 0..w /\ co \in Nat /\ X \in Nat /\ s.wild = FALSE
        /\ s.cs \in {"OBJECT", "NONOBJECT"}
  BY DEF Inside, HasLine
<1>2. x \in 0..w /\ co \in 0..w
  BY <1>1
<1> USE <1>2
<1>3. /\ Fields \subseteq DOMAIN s /\ AllFields \subseteq DOMAIN s /\ LineFields \subseteq DOMAIN s
      /\ "ready" \in DOMAIN s /\ "object" \in DOMAIN s
  BY DEF Cellular, Fields, AllFields
<1>4. co # 0
  <2>1. IsStack(s.psstack) /\ Framed(s.psstack, "OBJECT", s.cs, co)
    BY <1>1 DEF Inside
  <2>2. PICK st2 : st2 = SubSeq(s.psstack, 1, Len(s.psstack) - 1)
    OBVIOUS
  <2> QED BY <1>1, <2>1, <2>2, FramedPop
<1>5. Past(m, start, s.end, s.cs, co, X)
  BY <1>1 DEF Known
<1>6. s.cs = "NONOBJECT" /\ start[co] # UNKNOWN =>
        /\ start[co] \in 0..w /\ s.end[co] \in 0..w /\ m[start[co]] = "S" /\ m[s.end[co]] # "S"
        /\ \A i \in 1..(co - 1) : start[i] # start[co]
  <2>1. s.cs = "NONOBJECT" /\ start[co] # UNKNOWN => start[co] \in 0..(X - 1) /\ s.end[co] \in 0..(X - 1)
    BY <1>1, <1>4, <1>5, PastKnown
  <2>2. s.cs = "NONOBJECT" /\ start[co] # UNKNOWN =>
          /\ m[start[co]] = "S" /\ m[s.end[co]] # "S" /\ \A i \in 1..(co - 1) : start[i] # start[co]
    BY <1>1, <1>4, <1>5, PastWaits
  <2> QED BY <2>1, <2>2
<1>7. PICK st2 : st2 = SubSeq(s.psstack, 1, Len(s.psstack) - 1)
  OBVIOUS
<1>8. s.cs = "NONOBJECT" /\ top = "COMPLETE" /\ s.start[s.co] # UNKNOWN =>
           s.end[s.co] \in DOMAIN s.marker /\ s.start[s.co] \in DOMAIN s.marker
  BY <1>1, <1>6
<1>9. CASE ~(s.cs = "NONOBJECT" /\ top = "COMPLETE")
  <2>1. Becomes(s, t, s.marker, s.start, s.end, st2, s.co, top, s.cs)
    BY <1>1, <1>3, <1>7, <1>8, <1>9, MarkerFDoes
  <2>2. t.x = s.x /\ GrowingIn(w, t) = GrowingIn(w, s) /\ t.co = s.co
    BY <2>1 DEF Becomes, GrowingIn
  <2>3. SameCells(s, t)
    BY <1>1, <1>3, <1>9, MarkerFCells
  <2>4. Cellular(t, w, n, E, B)
    BY <2>2, <2>3, CellularSame
  <2> QED BY <2>4
<1>10. CASE s.cs = "NONOBJECT" /\ top = "COMPLETE"
  <2>1. Cellular(s, w, n, E, {}) /\ co \in 1..w
    <3>1. B = {}
      BY <1>10
    <3>2. Cellular(s, w, n, E, {})
      BY <3>1, Zenon
    <3>3. co \in 1..w
      BY <1>1, <1>4
    <3> QED BY <3>2, <3>3
  <2>2. CASE start[co] = UNKNOWN
    <3>1. Becomes(s, t, s.marker, s.start, s.end, SubSeq(st2, 1, Len(st2) - 1), s.co - 1, st2[Len(st2)], s.cs)
      BY <1>1, <1>3, <1>7, <1>8, <1>10, <2>2, MarkerFDoes
    <3>2. PICK la, next : la = s.info[co] /\ next = [s.nextpix EXCEPT ![la.last] = s.free]
      OBVIOUS
    <3>3. Holds(s, t, s.info, s.store, next, la.first, s.curpix)
      BY <1>1, <1>3, <1>10, <2>2, <3>2, MarkerFCells
    <3>4. t.x = s.x /\ t.co = co - 1 /\ t.marker = s.marker /\ t.start = s.start
      BY <1>1, <3>1 DEF Becomes
    <3>5. s.co = co /\ s.start[co] = UNKNOWN
      BY <1>1, <2>2
    <3>6. Cellular(t, w, n, E, {})
      BY ONLY <2>1, <3>2, <3>3, <3>4, <3>5, w \in Nat, n \in Nat \ {0}, CellsComplete
    <3> QED BY <3>6
  <2>3. CASE start[co] # UNKNOWN
    <3>1. PICK m2, e : m2 = [s.marker EXCEPT ![s.end[s.co]] = "F"] /\ e = s.end[co]
      OBVIOUS
    <3>2. Becomes(s, t, m2, s.start, s.end, SubSeq(st2, 1, Len(st2) - 1), s.co - 1, st2[Len(st2)], s.cs)
      BY <1>1, <1>3, <1>7, <1>8, <1>10, <2>3, <3>1, MarkerFDoes
    <3>3. PICK store : store = [s.store EXCEPT ![s.start[s.co]] = s.info[s.co]]
      OBVIOUS
    <3>4. Holds(s, t, s.info, store, s.nextpix, s.free, s.curpix)
      BY <1>1, <1>3, <1>10, <2>3, <3>3, MarkerFCells
    <3>5. t.x = s.x /\ t.co = co - 1 /\ t.marker = m2 /\ t.start = start
      BY <1>1, <3>2 DEF Becomes
    <3>6. Put(m2, m, e, "F") /\ Put(store, s.store, start[co], s.info[co])
      BY <1>1, <3>1, <3>3 DEF Put
    <3>7. /\ start[co] \in 0..w /\ e \in 0..w /\ m[start[co]] = "S" /\ m[e] # "S"
          /\ \A i \in 1..(co - 1) : start[i] # start[co]
      BY <1>6, <1>10, <2>3, <3>1
    <3>8. DOMAIN m = 0..w /\ s.co = co /\ s.marker = m /\ s.start = start
      BY <1>1
    <3>9. Cellular(t, w, n, E, {})
      BY ONLY <2>1, <3>4, <3>5, <3>6, <3>7, <3>8, w \in Nat, n \in Nat \ {0}, <<"store", s.x>> \notin E, CellsSuspend
    <3> QED BY <3>9
  <2> QED BY <2>2, <2>3
<1> QED BY <1>1, <1>9, <1>10

(* What a marker of the line above does to the lists. *)
(* The marker of the visited column can be followed: its region is among the *)
(* lists E, and only a region that has just begun has no cell.               *)
Followable(s, w, X, mark, E, B) ==
  /\ Inside(s, w) /\ X \in 0..(w + 1) /\ Known(s, X)
  /\ \E g2, a2 : Turn(mark, Depth(s), Under(s), g2, a2)
  /\ s.cs # "OBJECT" /\ s.ps # "OBJECT" => s.co < w
  /\ <<"store", s.x>> \in E <=> mark = "S"
  /\ s.cs # "OBJECT" => B = {}

LEMMA CellsMarker ==
  ASSUME NEW w \in Nat, NEW n \in Nat \ {0}, NEW s, NEW X, NEW mark, NEW E, NEW B,
         Followable(s, w, X, mark, E, B), Cellular(s, w, n, E, B),
         NEW E2, E2 = E \ {<<"store", s.x>>}, NEW minarea, NEW t, t = NewMarker(s, mark, minarea)
  PROVE  \E B2 : B2 \subseteq B /\ Cellular(t, w, n, E2, B2)
<1>1. PICK g2, a2 : Turn(mark, Depth(s), Under(s), g2, a2)
  BY DEF Followable
<1> USE <1>1
<1>2. /\ Inside(s, w) /\ X \in 0..(w + 1) /\ Known(s, X)
      /\ s.cs # "OBJECT" /\ s.ps # "OBJECT" => s.co < w
      /\ <<"store", s.x>> \in E <=> mark = "S"
      /\ s.cs # "OBJECT" => B = {}
  BY DEF Followable
<1> USE <1>2
<1>3. PICK co \in 0..w : co = s.co /\ co \in Nat
  BY DEF Inside
<1>4. IsStack(s.psstack) /\ Framed(s.psstack, s.ps, s.cs, co)
  BY <1>3 DEF Inside
<1>5. s.cs = "OBJECT" => co # 0
  BY <1>3, <1>4, FramedCount
<1>6. E2 = E \ {<<"store", s.x>>} /\ (mark # "S" => E2 = E /\ <<"store", s.x>> \notin E)
  OBVIOUS
<1>7. CASE mark = "none"
  <2>1. t = s
    BY <1>7 DEF NewMarker
  <2>2. Cellular(t, w, n, E2, B)
    BY <1>6, <1>7, <2>1, Zenon
  <2> QED BY <2>2
<1>8. CASE mark = "S"
  <2>1. t = MarkerS(s) /\ <<"store", s.x>> \in E
    BY <1>8 DEF NewMarker
  <2>2. s.ps # "OBJECT"
    BY <1>8 DEF Turn, Under
  <2>3. (s.cs # "OBJECT" => s.co < w) /\ (s.cs = "OBJECT" => s.co # 0)
    BY <1>3, <1>5, <2>2
  <2>4. \E B2 : B2 \subseteq B /\ Cellular(t, w, n, E \ {<<"store", s.x>>}, B2)
    BY <2>1, <2>3, CellsMarkerS
  <2> QED BY <1>6, <2>4
<1>9. CASE mark = "s"
  <2>1. t = MarkerInner(s) /\ <<"store", s.x>> \notin E
    BY <1>6, <1>9 DEF NewMarker
  <2>2. ASSUME s.cs = "OBJECT", s.ps = "COMPLETE" PROVE s.co - 1 # 0
    <3>1. PICK st2 : st2 = SubSeq(s.psstack, 1, Len(s.psstack) - 1)
      OBVIOUS
    <3>2. Depth(s) >= 1
      BY <1>9 DEF Turn
    <3>3. Len(s.psstack) - co # 0
      BY <1>3, <3>2 DEF Depth
    <3> QED BY <1>3, <1>4, <1>5, <2>2, <3>1, <3>3, FramedClose
  <2>3. \E B2 : B2 \subseteq B /\ Cellular(t, w, n, E, B2)
    BY <2>1, <2>2, CellsMarkerInner
  <2> QED BY <1>6, <1>9, <2>3
<1>10. CASE mark = "f"
  <2>1. t = [s EXCEPT !.ps = "INCOMPLETE"]
    BY <1>10 DEF NewMarker
  <2>2. Fields \subseteq DOMAIN s /\ B \subseteq {<<"info", s.co>>}
    BY DEF Cellular
  <2>3. SameCells(s, t) /\ t.x = s.x /\ t.co = s.co /\ t.marker = s.marker /\ t.start = s.start
    BY <2>1, <2>2 DEF Fields, AllFields, LineFields, CellFields, SameCells, Holds
  <2>4. GrowingIn(w, t) = GrowingIn(w, s) /\ B \subseteq {<<"info", t.co>>}
    BY <2>2, <2>3 DEF GrowingIn
  <2>5. Cellular(t, w, n, E, B)
    BY <2>3, <2>4, CellularSame
  <2> QED BY <1>6, <1>10, <2>5
<1>11. CASE mark = "F"
  <2>1. t = MarkerF(s, minarea) /\ <<"store", s.x>> \notin E
    BY <1>6, <1>11 DEF NewMarker
  <2>2. s.ps = "OBJECT"
    BY <1>11 DEF Turn, Under
  <2>3. B \subseteq {<<"info", s.co>>}
    BY DEF Cellular
  <2>4. \E B2 : B2 \subseteq B /\ Cellular(t, w, n, E, B2)
    BY <2>1, <2>2, <2>3, CellsMarkerF
  <2> QED BY <1>6, <1>11, <2>4
<1> QED BY <1>7, <1>8, <1>9, <1>10, <1>11 DEF Turn

(* update(): the new pixel is added to the innermost region. *)
LEMMA CellsPixel ==
  ASSUME NEW w \in Nat, NEW n \in Nat \ {0}, NEW s, s.co \in 1..w,
         NEW B, Cellular(s, w, n, {Cur}, B), NEW t, t = Update(s, s.co, s.curpix)
  PROVE  Cellular(t, w, n, {}, {})
<1>1. PICK i, G, P, lb, a :
        /\ i \in 1..w
        /\ i = s.co /\ G = GrowingIn(w, s) /\ P = G \union {Cur} \union {Free}
        /\ lb = s.curpix /\ a = <<"info", i>>
  OBVIOUS
<1>2. i \in 1..w
  BY <1>1
<1> USE <1>2
<1>3. Fields \subseteq DOMAIN s /\ AllFields \subseteq DOMAIN s /\ LineFields \subseteq DOMAIN s
  BY DEF Cellular, Fields, AllFields
<1>4. Accounts(s, w, n, P, B) /\ B \subseteq {a} /\ Cur \notin G /\ Cur # Free /\ Cur \notin B
  <2>1. Cur \notin G /\ Cur \notin B
    BY <1>1, ExtraPlaces
  <2>2. Accounts(s, w, n, P, B) /\ B \subseteq {a}
    BY <1>1 DEF Cellular
  <2> QED BY <2>1, <2>2, PlainPlaces
<1>5. <<"info", i>> \in P /\ Cur \in P \ {Free} /\ Cur # <<"info", i>> /\ (<<"info", i>> \notin B \/ Cur \notin B)
  <2>1. i \in 1..i
    OBVIOUS
  <2>2. a \in G
    BY <1>1, <2>1, GrowingPlaces DEF GrowingIn
  <2> QED BY <1>1, <1>4, <2>2
<1>6. lb = ListIn(s, n, Cur)
  BY <1>1, PlainPlaces DEF ListIn
<1>7. Holds(s, t, [s.info EXCEPT ![i] = Joined(s.info[i], lb)], s.store,
                      LinkedOn(s.nextpix, s.info[i], lb), s.free, s.curpix)
  BY <1>1, <1>3, UpdateCells
<1>8. Accounts(t, w, n, P \ {Cur}, B \ {<<"info", i>>, Cur})
  BY <1>4, <1>5, <1>6, <1>7, AccountsUpdate
<1>9. Same(s, t)
  BY <1>3, UpdateSame
<1>10. GrowingIn(w, t) = G /\ DOMAIN t = DOMAIN s
  BY <1>1, <1>9 DEF Same, Becomes, GrowingIn
<1>11. P \ {Cur} = GrowingIn(w, t) \union {} \union {Free} /\ B \ {<<"info", i>>, Cur} = {}
  BY <1>1, <1>4, <1>10
<1>12. Accounts(t, w, n, GrowingIn(w, t) \union {} \union {Free}, {})
  BY <1>8, <1>11
<1> QED BY <1>3, <1>10, <1>12 DEF Cellular

(* "End segment" *)
LEMMA CellsEnd ==
  ASSUME NEW w \in Nat, NEW n \in Nat \ {0}, NEW s, Inside(s, w), Known(s, s.x), s.marker[s.x] = "none",
         Cellular(s, w, n, {}, {}), NEW t, t = EndSegment(s)
  PROVE  Cellular(t, w, n, {}, {})
<1>1. PICK x, co, m, start :
        /\ x \in 0..w /\ co \in 0..w
        /\ x = s.x /\ co = s.co /\ m = s.marker /\ start = s.start /\ m[x] = "none"
        /\ DOMAIN m = 0..w /\ DOMAIN start = 0..w /\ co \in Nat /\ x \in Nat /\ s.wild = FALSE
  BY DEF Inside, HasLine
<1>2. x \in 0..w /\ co \in 0..w
  BY <1>1
<1> USE <1>2
<1>3. Fields \subseteq DOMAIN s /\ AllFields \subseteq DOMAIN s /\ LineFields \subseteq DOMAIN s
  BY DEF Cellular, Fields, AllFields
<1>4. Past(m, start, s.end, s.cs, co, x)
  BY <1>1 DEF Known
<1>5. s.cs = "OBJECT" => /\ co \in 1..w /\ start[co] \in 0..w /\ m[start[co]] = "S"
                         /\ start[co] \in DOMAIN s.marker
                         /\ \A i \in 1..(co - 1) : start[i] # start[co]
  <2>1. s.cs = "OBJECT" => co # 0 /\ start[co] # UNKNOWN /\ start[co] \in 0..(x - 1)
    BY <1>1, <1>4, PastKnown
  <2>2. s.cs = "OBJECT" => m[start[co]] = "S" /\ \A i \in 1..(co - 1) : start[i] # start[co]
    <3>1. co \in Nat /\ x \in Nat /\ Past(m, start, s.end, s.cs, co, x)
      BY <1>1, <1>4
    <3>2. co # 0 /\ start[co] # UNKNOWN => m[start[co]] = "S" /\ \A i \in 1..(co - 1) : start[i] # start[co]
      BY ONLY <3>1, PastWaits
    <3> QED BY <2>1, <3>2
  <2> QED BY <1>1, <2>1, <2>2
<1>6. CASE ~(s.cs = "OBJECT" /\ s.ps = "COMPLETE")
  <2>1. SameCells(s, t)
    BY <1>3, <1>6, EndSegmentCells
  <2>2. t.x = s.x /\ GrowingIn(w, t) = GrowingIn(w, s)
    <3>1. CASE s.cs # "OBJECT"
      BY <3>1 DEF EndSegment
    <3>2. CASE s.cs = "OBJECT" /\ s.ps # "COMPLETE"
      <4>1. PICK m2 : m2 = [s.marker EXCEPT ![s.x] = "f"] /\ Put(m2, m, x, "f")
        BY <1>1 DEF Put
      <4>2. Becomes(s, t, m2, s.start, [s.end EXCEPT ![s.co] = s.x], s.psstack, s.co, s.ps, "NONOBJECT")
        BY <1>1, <1>3, <1>5, <3>2, <4>1, EndSegmentDoes
      <4>3. GrowingAt(w, m2, start, co) = GrowingAt(w, m, start, co)
        <5>1. DOMAIN m = 0..w /\ m[x] # "S" /\ "f" # "S" /\ Put(m2, m, x, "f")
          BY <1>1, <4>1
        <5> QED BY ONLY <5>1, w \in Nat, x \in 0..w, GrowMark
      <4> QED BY <1>1, <4>2, <4>3 DEF Becomes, GrowingIn
    <3> QED BY <1>6, <3>1, <3>2
  <2> QED BY <2>1, <2>2, CellularSame
<1>7. CASE s.cs = "OBJECT" /\ s.ps = "COMPLETE"
  <2>1. PICK m2 : m2 = [s.marker EXCEPT ![s.x] = "F"] /\ Put(m2, m, x, "F")
    BY <1>1 DEF Put
  <2>2. Becomes(s, t, m2, s.start, s.end, SubSeq(s.psstack, 1, Len(s.psstack) - 1), s.co - 1,
                      s.psstack[Len(s.psstack)], "NONOBJECT")
    BY <1>1, <1>3, <1>5, <1>7, <2>1, EndSegmentDoes
  <2>3. PICK store : store = [s.store EXCEPT ![s.start[s.co]] = s.info[s.co]]
    OBVIOUS
  <2>4. Holds(s, t, s.info, store, s.nextpix, s.free, s.curpix)
    BY <1>3, <1>7, <2>3, EndSegmentCells
  <2>5. t.x = s.x /\ t.co = co - 1 /\ t.marker = m2 /\ t.start = start
    BY <1>1, <2>2 DEF Becomes
  <2>6. Put(store, s.store, start[co], s.info[co]) /\ Put(m2, m, x, "F")
    BY <1>1, <2>1, <2>3 DEF Put
  <2>7. /\ start[co] \in 0..w /\ m[start[co]] = "S" /\ m[x] # "S" /\ co \in 1..w
        /\ \A i \in 1..(co - 1) : start[i] # start[co]
    BY <1>1, <1>5, <1>7
  <2>8. DOMAIN m = 0..w /\ s.co = co /\ s.marker = m /\ s.start = start /\ Cellular(s, w, n, {}, {})
        /\ <<"store", s.x>> \notin {}
    BY <1>1
  <2> QED BY ONLY <2>4, <2>5, <2>6, <2>7, <2>8, w \in Nat, n \in Nat \ {0}, x \in 0..w, CellsSuspend
<1> QED BY <1>6, <1>7

(* A visit leaves every cell in the list of one place. *)
LEMMA WorkedCells ==
  ASSUME NEW w \in Nat \ {0}, NEW n \in Nat \ {0}, NEW s, LineInv(s, w), Cellular(s, w, n, {}, {}),
         NEW lit, lit => s.nextpix[s.free] # n - 1, NEW truncated, NEW minarea,
         NEW v, v = Worked(s, lit, truncated, minarea)
  PROVE  Cellular(v, w, n, {}, {})
<1>1. PICK x, X, c, k, t, u : VisitSteps(s, lit, truncated, minarea, x, X, c, k, t, u)
  BY DEF VisitSteps
<1>2. VisitHolds(s, w, lit, x, X, c, k, t, u)
  BY ONLY <1>1, w \in Nat \ {0}, LineInv(s, w), WorkedSteps
<1>6. v = IF lit THEN Update(u, u.co, u.curpix) ELSE EndSegment(u)
  BY <1>1 DEF VisitSteps, Worked
<1>7. /\ x \in 0..w /\ X \in 0..(w + 1)
      /\ Inside(c, w) /\ c.x = x /\ Same(c, k)
      /\ Inside(k, w) /\ k.x = x /\ k.marker[x] = "none" /\ (k.cs # "OBJECT" /\ k.ps # "OBJECT" => k.co < w)
      /\ Inside(t, w) /\ Known(t, X) /\ t.x = x /\ (t.cs # "OBJECT" /\ t.ps # "OBJECT" => t.co < w)
      /\ lit => t.cs = "OBJECT"
      /\ Inside(u, w) /\ Known(u, X) /\ u.x = x /\ u.cs = t.cs
      /\ ~lit => u.marker[x] = "none"
      /\ \E g2, a2 : Turn(s.marker[x], Depth(t), Under(t), g2, a2)
  BY <1>2 DEF VisitHolds
<1>8. PICK mark, E, b : mark = s.marker[x] /\ b = <<"store", x>> /\ E = IF mark = "S" THEN {b} ELSE {}
  OBVIOUS
<1>9. w \in Nat /\ Inside(s, w) /\ Known(s, s.x)
  BY DEF LineInv
<1>10. Cellular(c, w, n, E, {})
  <2>1. Cellular(c, w, n, IF s.marker[s.x] = "S" THEN {<<"store", s.x>>} ELSE {}, {})
    BY <1>1, <1>9, CellsCleared DEF VisitSteps
  <2> QED BY <1>1, <1>8, <2>1 DEF VisitSteps
<1>11. PICK Ek : Ek = IF lit THEN E \union {Cur} ELSE E
  OBVIOUS
<1>12. Cur # b
  BY <1>8, PlainPlaces
<1>13. \E B : Cellular(t, w, n, Ek, B) /\ (~lit => B = {})
  <2>1. CASE lit
    <3>1. SameCells(s, c)
      <4>1. Fields \subseteq DOMAIN s
        BY DEF Cellular
      <4> QED BY <1>1, <4>1, ClearedCells DEF Fields, VisitSteps
    <3>2. c.nextpix[c.free] # n - 1
      BY <2>1, <3>1 DEF SameCells, Holds
    <3>3. Cellular(k, w, n, E \union {Cur}, {})
      <4>1. Cur \notin E
        BY <1>8, <1>12
      <4> QED BY <1>1, <1>10, <3>2, <4>1, CellsTake DEF VisitSteps
    <3>4. t = StartSegment(k) /\ Ek = E \union {Cur}
      BY <1>1, <1>11, <2>1 DEF VisitSteps
    <3>5. \E B : Cellular(t, w, n, E \union {Cur}, B)
      BY <1>7, <3>3, <3>4, CellsStart
    <3> QED BY <2>1, <3>4, <3>5
  <2>2. CASE ~lit
    <3>1. t = c /\ Ek = E
      BY <1>1, <1>11, <2>2 DEF VisitSteps
    <3> QED BY <1>10, <3>1
  <2> QED BY <2>1, <2>2
<1>14. PICK B : Cellular(t, w, n, Ek, B) /\ (~lit => B = {})
  BY <1>13
<1>15. t.cs # "OBJECT" => B = {}
  BY <1>7, <1>14
<1>16. \E B2 : B2 \subseteq B /\ Cellular(u, w, n, Ek \ {b}, B2)
  <2>1. PICK g2, a2 : Turn(mark, Depth(t), Under(t), g2, a2)
    BY <1>7, <1>8
  <2>2. <<"store", t.x>> \in Ek <=> mark = "S"
    BY <1>7, <1>8, <1>11, <1>12
  <2>3. /\ Inside(t, w) /\ X \in 0..(w + 1) /\ Known(t, X) /\ (t.cs # "OBJECT" /\ t.ps # "OBJECT" => t.co < w)
        /\ u = NewMarker(t, mark, minarea) /\ b = <<"store", t.x>>
    BY <1>1, <1>7, <1>8 DEF VisitSteps
  <2>4. \E B2 : B2 \subseteq B /\ Cellular(u, w, n, Ek \ {<<"store", t.x>>}, B2)
    <3>0. PICK E2 : E2 = Ek \ {<<"store", t.x>>}
      OBVIOUS
    <3>1. w \in Nat /\ n \in Nat \ {0} /\ Followable(t, w, X, mark, Ek, B) /\ E2 = Ek \ {<<"store", t.x>>}
          /\ Cellular(t, w, n, Ek, B) /\ u = NewMarker(t, mark, minarea)
      BY <1>9, <1>14, <1>15, <2>1, <2>2, <2>3, <3>0 DEF Followable
    <3>2. \E B2 : B2 \subseteq B /\ Cellular(u, w, n, E2, B2)
      BY ONLY <3>1, CellsMarker
    <3> QED BY <3>0, <3>2
  <2> QED BY <2>3, <2>4
<1>17. PICK B2 : B2 \subseteq B /\ Cellular(u, w, n, Ek \ {b}, B2)
  BY <1>16
<1>18. CASE lit
  <2>1. Ek \ {b} = {Cur}
    BY <1>8, <1>11, <1>12, <1>18
  <2>2. u.co \in 1..w
    <3>1. u.cs = "OBJECT" /\ u.co \in 0..w
      BY <1>7, <1>18 DEF Inside
    <3>2. u.co # 0
      BY <3>1, <1>7, FramedCount DEF Inside
    <3> QED BY <3>1, <3>2
  <2>3. Cellular(u, w, n, {Cur}, B2) /\ v = Update(u, u.co, u.curpix)
    BY <1>6, <1>17, <1>18, <2>1
  <2> QED BY <1>9, <2>2, <2>3, CellsPixel
<1>19. CASE ~lit
  <2>1. Ek \ {b} = {} /\ B2 = {} /\ X = x
    BY <1>1, <1>8, <1>11, <1>14, <1>17, <1>19 DEF VisitSteps
  <2>2. Cellular(u, w, n, {}, {}) /\ v = EndSegment(u)
    BY <1>6, <1>17, <1>19, <2>1
  <2> QED BY <1>7, <1>9, <1>19, <2>1, <2>2, CellsEnd
<1> QED BY <1>18, <1>19

LEMMA VisitedCells ==
  ASSUME NEW w \in Nat \ {0}, NEW n \in Nat \ {0}, NEW s, LineInv(s, w), Cellular(s, w, n, {}, {}),
         NEW lit, lit => s.nextpix[s.free] # n - 1, NEW truncated, NEW minarea,
         NEW next, next = Visited(s, lit, truncated, minarea, w)
  PROVE  Cellular(next, w, n, {}, {})
<1>1. PICK v : v = Worked(s, lit, truncated, minarea)
  OBVIOUS
<1>2. next = Advance(v, w)
  BY <1>1 DEF Visited, Worked, Cleared
<1>3. Cellular(v, w, n, {}, {})
  BY <1>1, WorkedCells
<1>4. Fields \subseteq DOMAIN v /\ AllFields \subseteq DOMAIN v /\ "y" \in DOMAIN v
  BY <1>3 DEF Cellular, Fields
<1>5. SameCells(v, next) /\ next.marker = v.marker /\ next.start = v.start /\ next.co = v.co
  BY <1>2, <1>4, AdvanceCells
<1>6. GrowingIn(w, next) = GrowingIn(w, v) /\ DOMAIN next = DOMAIN v
  BY <1>5 DEF GrowingIn, SameCells, Holds
<1>7. Accounts(next, w, n, GrowingIn(w, next) \union {} \union {Free}, {})
  <2>1. Accounts(v, w, n, GrowingIn(w, v) \union {} \union {Free}, {})
    BY <1>3 DEF Cellular
  <2> QED BY <1>5, <1>6, <2>1, AccountsSame
<1> QED BY <1>4, <1>6, <1>7 DEF Cellular

(* All cells of a new scan are in the free list. *)
LEMMA NewChain ==
  ASSUME NEW n \in Nat \ {0}, NEW next, next = [c \in 0..n-1 |-> IF c = n - 1 THEN None ELSE c + 1],
         NEW mem, mem = [c \in {None} \union 0..n-1 |-> IF c = None THEN {} ELSE c..n-1]
  PROVE  Chains(next, mem) /\ DOMAIN next = 0..n-1 /\ mem[0] = 0..n-1 /\ next[n - 1] = None
<1>1. DOMAIN next = 0..n-1 /\ IsFiniteSet(0..n-1) /\ 0..n-1 \subseteq Int /\ None \notin 0..n-1
  BY FS_Interval DEF None
<1>2. mem[None] = {} /\ \A c \in 0..n-1 : mem[c] = c..n-1
  BY <1>1
<1>3. ASSUME NEW c \in 0..n-1
      PROVE  /\ next[c] \in 0..n-1 \union {None} /\ mem[c] \in SUBSET 0..n-1
             /\ mem[c] = {c} \union mem[next[c]] /\ c \notin mem[next[c]]
  <2>0. c..n-1 \subseteq 0..n-1
    OBVIOUS
  <2>1. mem[c] = c..n-1 /\ mem[c] \in SUBSET 0..n-1
    BY <1>2, <2>0
  <2>2. CASE c = n - 1
    <3>1. next[c] = None /\ c..n-1 = {c}
      BY <2>2
    <3> QED BY <1>2, <2>1, <3>1
  <2>3. CASE c # n - 1
    <3>1. next[c] = c + 1 /\ c + 1 \in 0..n-1 /\ c..n-1 = {c} \union (c + 1)..n-1 /\ c \notin (c + 1)..n-1
      BY <2>3
    <3>2. mem[next[c]] = (c + 1)..n-1
      BY <1>2, <3>1
    <3> QED BY <2>1, <3>1, <3>2
  <2> QED BY <2>2, <2>3
<1>4. Chains(next, mem)
  BY <1>1, <1>2, <1>3 DEF Chains
<1> QED BY <1>1, <1>2, <1>4

LEMMA NewScanCells ==
  ASSUME NEW w \in Nat \ {0}, NEW n \in Nat \ {0, 1}, NEW s, s = NewScan(w, n)
  PROVE  Cellular(s, w, n, {}, {})
<1>1. PICK next, mem, m, start : /\ next = [c \in 0..n-1 |-> IF c = n - 1 THEN None ELSE c + 1]
                                 /\ mem = [c \in {None} \union 0..n-1 |-> IF c = None THEN {} ELSE c..n-1]
                                 /\ m = [i \in 0..w |-> "none"] /\ start = [i \in 0..w |-> 0]
  OBVIOUS
<1>2. /\ Fields \subseteq DOMAIN s /\ s.nextpix = next /\ s.free = 0 /\ s.marker = m /\ s.start = start /\ s.co = 0
      /\ DOMAIN s.info = 0..w /\ DOMAIN s.store = 0..w
  BY <1>1 DEF NewScan, Fields, AllFields, LineFields, CellFields
<1>3. Chains(next, mem) /\ DOMAIN next = 0..n-1 /\ mem[0] = 0..n-1 /\ next[n - 1] = None
  BY <1>1, NewChain
<1>4. GrowingIn(w, s) = {}
  <2>1. \A d \in 0..w : m[d] # "S"
    BY <1>1
  <2> QED BY <1>2, <2>1 DEF GrowingIn, GrowingAt, Waits
<1>5. PICK L : IsLists(L, s, w, n)
  BY ListsExist
<1>6. L[Free].first = 0 /\ L[Free].last = n - 1 /\ ListIn(s, n, Free) # Blank
  BY <1>2, <1>5, PlacesIn, FreeFields
<1>7. 0 # n - 1 /\ 0 \in 0..n-1 /\ n - 1 \in 0..n-1
  OBVIOUS
<1>8. Sound(next, {Free}, L, mem)
  <2>1. IsChain(L[Free], next, mem)
    BY <1>3, <1>6, <1>7 DEF IsChain
  <2> QED BY <1>3, <1>6, <2>1 DEF Sound
<1>9. Accounts(s, w, n, {Free}, {})
  BY <1>2, <1>3, <1>5, <1>6, <1>7, <1>8 DEF Accounts, Fields, AllFields, Names
<1> QED BY <1>2, <1>4, <1>9 DEF Cellular
-----------------------------------------------------------------------------
(* The invariant of the cells *)

CellInv ==
  /\ ScanInv
  /\ status = "scanning" => Cellular(scan, img.w, stack, {}, {})

LEMMA CellInit == Init => CellInv
<1> SUFFICES ASSUME Init PROVE CellInv
  OBVIOUS
<1>1. ScanInv /\ scan = NewScan(img.w, stack) /\ stack \in Nat \ {0, 1}
  BY ScanInit, ExtractionAssumption DEF Init
<1>2. img.w \in Nat \ {0}
  BY <1>1 DEF ScanInv, PlaceInv
<1>3. Cellular(scan, img.w, stack, {}, {})
  BY <1>1, <1>2, NewScanCells
<1> QED BY <1>1, <1>3 DEF CellInv

LEMMA CellNext == CellInv /\ [Next]_vars => CellInv'
<1> SUFFICES ASSUME CellInv, [Next]_vars PROVE CellInv'
  OBVIOUS
<1>1. ScanInv'
  BY ScanNext DEF CellInv
<1>2. img' = img /\ stack' = stack
  BY DEF Next, vars, StackFull, Visit, Sortit, DeblendOverflow, Finish, Retry, GiveUp, Stopped
<1>3. PICK w \in Nat \ {0}, n \in Nat \ {0, 1} : w = img.w /\ n = stack
  BY ExtractionAssumption DEF CellInv, ScanInv, PlaceInv
<1>4. LineInv(scan, w) /\ (status = "scanning" => Cellular(scan, w, n, {}, {}))
  BY <1>3 DEF CellInv, ScanInv
<1>5. SUFFICES ASSUME status' = "scanning" PROVE Cellular(scan', w, n, {}, {})
  BY <1>1, <1>2, <1>3 DEF CellInv
<1>6. CASE UNCHANGED <<scan, status>>
  BY <1>4, <1>5, <1>6
<1>7. CASE Visit \/ Sortit
  <2> DEFINE lit == Lit
             truncated == Truncated
  <2>1. scan' = Visited(scan, lit, truncated, MinArea, w) /\ status = "scanning"
    BY <1>3, <1>7 DEF Visit, Sortit, NextScan, CanVisit
  <2>2. lit => scan.nextpix[scan.free] # n - 1
    BY <1>3, <1>7 DEF Visit, Sortit, CanVisit, LastCellLeft
  <2> HIDE DEF lit, truncated
  <2>3. Cellular(scan, w, n, {}, {}) /\ n \in Nat \ {0}
    BY <1>4, <2>1
  <2> QED BY <1>4, <2>1, <2>2, <2>3, VisitedCells
<1>8. CASE Retry
  <2>1. scan' = NewScan(w, n)
    BY <1>3, <1>8 DEF Retry
  <2> QED BY <2>1, NewScanCells
<1>9. CASE StackFull \/ DeblendOverflow \/ Finish \/ GiveUp
  BY <1>5, <1>9 DEF StackFull, DeblendOverflow, Finish, GiveUp
<1> QED BY <1>6, <1>7, <1>8, <1>9 DEF Next, vars, Stopped

(* The cells of the places S, added up one place at a time. *)
OneOf(S) == CHOOSE x \in S : TRUE
LengthAt(s, at) == Len(CellsFrom(s, ListAt(s, at).first))
Adds(f, g, S) == f[S] = IF S = {} THEN 0 ELSE g[OneOf(S)] + f[S \ {OneOf(S)}]

CellsAt(s, G) == MapThenSumSet(LAMBDA at : Len(CellsFrom(s, ListAt(s, at).first)), G)
IsSum(f, T, g) == f = [S \in SUBSET T |-> IF S = {} THEN 0 ELSE g[OneOf(S)] + f[S \ {OneOf(S)}]]
IsLength(f, T, s) == f = [S \in SUBSET T |-> IF S = {} THEN 0 ELSE LengthAt(s, OneOf(S)) + f[S \ {OneOf(S)}]]

LEMMA SumUnfolds ==
  ASSUME NEW s, NEW G
  PROVE  CellsAt(s, G) = (CHOOSE f : IsLength(f, G, s))[G]
BY DEF CellsAt, IsLength, MapThenSumSet, MapThenFoldSet, OneOf, LengthAt

LEMMA OneLess ==
  ASSUME NEW S, IsFiniteSet(S), S # {}
  PROVE  /\ OneOf(S) \in S /\ S \ {OneOf(S)} \in SUBSET S /\ IsFiniteSet(S \ {OneOf(S)})
         /\ \A n \in Nat : Cardinality(S) <= n + 1 => Cardinality(S \ {OneOf(S)}) <= n
<1>1. PICK x \in S : x = OneOf(S)
  BY DEF OneOf
<1>2. Cardinality(S \ {x}) = Cardinality(S) - 1 /\ IsFiniteSet(S \ {x}) /\ Cardinality(S) \in Nat
  BY FS_RemoveElement, FS_CardinalityType
<1> QED BY <1>1, <1>2

LEMMA AddingExists ==
  ASSUME NEW T, IsFiniteSet(T), NEW h
  PROVE  \E f : IsSum(f, T, h)
<1> DEFINE Good(f, n) == /\ f = [S \in SUBSET T |-> f[S]]
                         /\ \A S \in SUBSET T : Cardinality(S) <= n => Adds(f, h, S)
           N == {n \in Nat : \E f : Good(f, n)}
<1>0. \A S \in SUBSET T : IsFiniteSet(S) /\ Cardinality(S) \in Nat
  BY FS_Subset, FS_CardinalityType
<1>1. 0 \in N
  <2> DEFINE f == [S \in SUBSET T |-> 0]
  <2>1. ASSUME NEW S \in SUBSET T, Cardinality(S) <= 0 PROVE Adds(f, h, S)
    <3>1. S = {}
      <4>1. IsFiniteSet(S) /\ Cardinality(S) = 0
        BY <1>0, <2>1
      <4> QED BY <4>1, FS_EmptySet
    <3> QED BY <3>1 DEF Adds
  <2>2. f = [S \in SUBSET T |-> f[S]]
    OBVIOUS
  <2> HIDE DEF f
  <2>3. Good(f, 0)
    BY <2>1, <2>2
  <2> HIDE DEF Good
  <2> QED BY <2>3
<1>2. ASSUME NEW n \in Nat, n \in N PROVE n + 1 \in N
  <2>1. PICK f : Good(f, n)
    BY <1>2
  <2> DEFINE g == [S \in SUBSET T |-> IF S = {} THEN 0 ELSE h[OneOf(S)] + f[S \ {OneOf(S)}]]
  <2>2. ASSUME NEW S \in SUBSET T, Cardinality(S) <= n + 1 PROVE Adds(g, h, S)
    <3>1. CASE S = {}
      BY <3>1 DEF Adds
    <3>2. CASE S # {}
      <4>1. PICK A : A = S \ {OneOf(S)}
        OBVIOUS
      <4>2. A \in SUBSET T /\ Cardinality(A) <= n
        BY <1>0, <2>2, <3>2, <4>1, OneLess
      <4>3. Adds(f, h, A)
        BY <2>1, <4>2
      <4>4. /\ g[S] = h[OneOf(S)] + f[A]
            /\ g[A] = IF A = {} THEN 0 ELSE h[OneOf(A)] + f[A \ {OneOf(A)}]
        BY <3>2, <4>1, <4>2
      <4> HIDE DEF g
      <4> QED BY <3>2, <4>1, <4>3, <4>4 DEF Adds
    <3> QED BY <3>1, <3>2
  <2>3. g = [S \in SUBSET T |-> g[S]]
    OBVIOUS
  <2> HIDE DEF g
  <2>4. Good(g, n + 1)
    BY <2>2, <2>3
  <2>5. n + 1 \in Nat
    OBVIOUS
  <2> HIDE DEF Good
  <2> QED BY <2>4, <2>5
<1>3. Cardinality(T) \in N
  <2> HIDE DEF N
  <2>1. Nat \subseteq N
    BY <1>1, <1>2, NatSetInduction
  <2> QED BY <2>1, FS_CardinalityType
<1>4. PICK f : Good(f, Cardinality(T))
  BY <1>3
<1>5. ASSUME NEW S \in SUBSET T PROVE Adds(f, h, S)
  BY <1>4, FS_Subset
<1>6. f = [S \in SUBSET T |-> f[S]]
  BY <1>4
<1>7. IsSum(f, T, h)
  BY <1>5, <1>6, Zenon DEF Adds, IsSum
<1> QED BY <1>7

LEMMA SizesAdd ==
  ASSUME NEW A, IsFiniteSet(A), NEW B, IsFiniteSet(B), A \intersect B = {}
  PROVE  /\ IsFiniteSet(A \union B) /\ Cardinality(A) \in Nat /\ Cardinality(B) \in Nat
         /\ Cardinality(A \union B) = Cardinality(A) + Cardinality(B)
<1>1. Cardinality(A \union B) = Cardinality(A) + Cardinality(B) - 0
  <2>1. Cardinality(A \union B) = Cardinality(A) + Cardinality(B) - Cardinality(A \intersect B)
    BY FS_Union
  <2>2. Cardinality(A \intersect B) = 0
    BY FS_EmptySet
  <2> QED BY <2>1, <2>2
<1>2. Cardinality(A) \in Nat /\ Cardinality(B) \in Nat /\ IsFiniteSet(A \union B)
  BY FS_Union, FS_CardinalityType
<1> QED BY <1>1, <1>2

AllOf(M, S) == UNION {M[a] : a \in S}

(* Sets that are disjoint have, together, as many elements as their sizes add up to. *)
LEMMA SumOfSizes ==
  ASSUME NEW T, IsFiniteSet(T), NEW M, \A a \in T : IsFiniteSet(M[a]),
         \A a, b \in T : a # b => M[a] \intersect M[b] = {},
         NEW g, \A a \in T : g[a] = Cardinality(M[a]),
         NEW f, \A S \in SUBSET T : Adds(f, g, S)
  PROVE  IsFiniteSet(AllOf(M, T)) /\ f[T] = Cardinality(AllOf(M, T))
<1> DEFINE Good(S) == IsFiniteSet(AllOf(M, S)) /\ f[S] = Cardinality(AllOf(M, S))
           N == {n \in Nat : \A S \in SUBSET T : Cardinality(S) <= n => Good(S)}
<1>1. \A S \in SUBSET T : IsFiniteSet(S) /\ Cardinality(S) \in Nat
  BY FS_Subset, FS_CardinalityType
<1>2. Good({})
  <2>1. AllOf(M, {}) = {}
    BY DEF AllOf
  <2> QED BY <2>1, FS_EmptySet DEF Adds
<1>3. ASSUME NEW S \in SUBSET T, S # {}, Good(S \ {OneOf(S)}) PROVE Good(S)
  <2>1. PICK x, R : x = OneOf(S) /\ R = S \ {OneOf(S)}
    OBVIOUS
  <2>2. x \in S /\ x \in T /\ R \in SUBSET T /\ x \notin R
    BY <1>1, <1>3, <2>1, OneLess
  <2>3. AllOf(M, S) = M[x] \union AllOf(M, R) /\ M[x] \intersect AllOf(M, R) = {}
    BY <2>1, <2>2 DEF AllOf
  <2>4. IsFiniteSet(M[x]) /\ IsFiniteSet(AllOf(M, R)) /\ f[R] = Cardinality(AllOf(M, R))
    BY <1>3, <2>1, <2>2
  <2>5. PICK A, B : A = M[x] /\ B = AllOf(M, R)
    OBVIOUS
  <2>6. /\ IsFiniteSet(A \union B) /\ Cardinality(A) \in Nat /\ Cardinality(B) \in Nat
        /\ Cardinality(A \union B) = Cardinality(A) + Cardinality(B)
    <3>1. IsFiniteSet(A) /\ IsFiniteSet(B) /\ A \intersect B = {}
      BY <2>3, <2>4, <2>5
    <3> QED BY ONLY <3>1, SizesAdd
  <2>7. /\ IsFiniteSet(AllOf(M, S)) /\ Cardinality(M[x]) \in Nat /\ Cardinality(AllOf(M, R)) \in Nat
        /\ Cardinality(AllOf(M, S)) = Cardinality(M[x]) + Cardinality(AllOf(M, R))
    BY <2>3, <2>5, <2>6
  <2>8. f[S] = g[x] + f[R] /\ g[x] = Cardinality(M[x])
    BY <1>3, <2>1, <2>2 DEF Adds
  <2> QED BY <2>4, <2>7, <2>8
<1> HIDE DEF Good
<1>4. 0 \in N
  <2> SUFFICES ASSUME NEW S \in SUBSET T, Cardinality(S) <= 0 PROVE Good(S)
    OBVIOUS
  <2>1. IsFiniteSet(S) /\ Cardinality(S) = 0
    BY <1>1
  <2> QED BY <1>2, <2>1, FS_EmptySet
<1>5. ASSUME NEW n \in Nat, n \in N PROVE n + 1 \in N
  <2> SUFFICES ASSUME NEW S \in SUBSET T, Cardinality(S) <= n + 1 PROVE Good(S)
    OBVIOUS
  <2>1. CASE S = {}
    BY <1>2, <2>1
  <2>2. CASE S # {}
    <3>1. S \ {OneOf(S)} \in SUBSET T /\ Cardinality(S \ {OneOf(S)}) <= n
      BY <1>1, <2>2, OneLess
    <3> QED BY <1>3, <1>5, <2>2, <3>1
  <2> QED BY <2>1, <2>2
<1>6. Cardinality(T) \in N /\ Cardinality(T) <= Cardinality(T)
  <2> HIDE DEF N
  <2>1. Nat \subseteq N
    BY <1>4, <1>5, NatSetInduction
  <2> QED BY <2>1, FS_CardinalityType
<1> QED BY <1>6 DEF Good

LEMMA GrowingFinite ==
  ASSUME NEW w \in Nat, NEW m, NEW start, NEW co \in Nat
  PROVE  IsFiniteSet(GrowingAt(w, m, start, co))
<1> DEFINE D == {d \in 0..w : Waits(d, m, start, co)}
           A == {<<"info", i>> : i \in 1..co}
           B == {<<"store", c>> : c \in D}
           f == [i \in 1..co |-> <<"info", i>>]
           g == [c \in D |-> <<"store", c>>]
<1>1. IsFiniteSet(1..co) /\ IsFiniteSet(0..w)
  BY FS_Interval
<1>2. IsFiniteSet(D)
  BY <1>1, FS_Subset
<1>3. f \in Surjection(1..co, A) /\ g \in Surjection(D, B)
  <2>1. f \in [1..co -> A] /\ \A a \in A : \E i \in 1..co : f[i] = a
    OBVIOUS
  <2> HIDE DEF D
  <2>2. g \in [D -> B] /\ \A b \in B : \E c \in D : g[c] = b
    OBVIOUS
  <2> HIDE DEF f, g, A, B
  <2> QED BY <2>1, <2>2 DEF Surjection
<1> HIDE DEF f, g, D, A, B
<1>4. IsFiniteSet(A) /\ IsFiniteSet(B)
  BY <1>1, <1>2, <1>3, FS_Surjection
<1>5. IsFiniteSet(A \union B)
  BY <1>4, FS_Union
<1> QED BY <1>5 DEF GrowingAt, A, B, D

AllAccounted(s, n, G, free) ==
  /\ Len(free) + CellsAt(s, G) = n
  /\ UNION ({{c[k] : k \in DOMAIN c} : c \in {CellsFrom(s, ListAt(s, at).first) : at \in G}}
              \union {{free[k] : k \in DOMAIN free}}) = 0..n-1
  /\ \A at \in G : LET l == ListAt(s, at)
                       c == CellsFrom(s, l.first)
                   IN  l.first # None /\ Len(c) = l.pixnb /\ c[l.pixnb] = l.last

LEMMA CellsAddUp ==
  ASSUME NEW w \in Nat, NEW n \in Nat \ {0}, NEW s, DOMAIN s.marker = 0..w, s.co \in Nat,
         Cellular(s, w, n, {}, {}),
         NEW G, G = Growing(s), NEW free, free = CellsFrom(s, s.free)
  PROVE  AllAccounted(s, n, G, free)
<1>1. G = GrowingIn(w, s) /\ G = GrowingAt(w, s.marker, s.start, s.co)
  BY GrowingIs DEF GrowingIn
<1>2. IsFiniteSet(G) /\ Free \notin G /\ Cur \notin G
  BY <1>1, GrowingFinite, GrowingPlaces
<1>3. PICK P, next : P = G \union {Free} /\ next = s.nextpix
  OBVIOUS
<1>4. Accounts(s, w, n, P, {})
  <2>1. Accounts(s, w, n, GrowingIn(w, s) \union {} \union {Free}, {})
    BY DEF Cellular
  <2>2. GrowingIn(w, s) \union {} \union {Free} = P
    BY <1>1, <1>3
  <2> QED BY <2>1, <2>2
<1>5. PICK L, mem : IsLists(L, s, w, n) /\ Sound(next, P, L, mem)
  BY <1>3, <1>4 DEF Accounts
<1>6. /\ DOMAIN next = 0..n-1 /\ P \subseteq Names(w) /\ \A at \in P : ListIn(s, n, at) # Blank
  BY <1>3, <1>4 DEF Accounts
<1>7. L[Free].first = s.free
  BY <1>5, PlacesIn, FreeFields
<1>8. \A at \in G : L[at] = ListAt(s, at)
  BY <1>2, <1>3, <1>5, <1>6 DEF IsLists, ListIn
<1>9. Chains(next, mem) /\ \A at \in P : IsChain(L[at], next, mem)
  <2>1. \A at \in P : L[at] # Blank
    BY <1>5, <1>6 DEF IsLists
  <2> QED BY <1>5, <2>1 DEF Sound
<1>10. \A at \in P : L[at].first \in DOMAIN next /\ L[at].last \in mem[L[at].first] /\ next[L[at].last] = None
  BY <1>9 DEF IsChain
<1>11. PICK c : c = [at \in P |-> CellsFrom(s, L[at].first)]
  OBVIOUS
<1>12. \A at \in P : Runs(c[at], next, mem, L[at].first)
  <2>1. ASSUME NEW at \in P PROVE Runs(CellsFrom(s, L[at].first), next, mem, L[at].first)
    <3>1. Chains(s.nextpix, mem) /\ L[at].first \in {None} \union DOMAIN s.nextpix
      BY <1>3, <1>9, <1>10
    <3>2. Runs(CellsFrom(s, L[at].first), s.nextpix, mem, L[at].first)
      BY ONLY <3>1, CellsFromRuns
    <3> QED BY <1>3, <3>2
  <2> QED BY <1>11, <2>1
<1>13. PICK M, g : /\ M = [at \in P |-> mem[L[at].first]]
                   /\ g = [at \in P |-> Len(c[at])]
  OBVIOUS
<1>14. \A at \in P : /\ IsFiniteSet(M[at]) /\ g[at] = Cardinality(M[at]) /\ DOMAIN c[at] = 1..Len(c[at])
                     /\ {c[at][k] : k \in DOMAIN c[at]} = M[at]
  <2>1. ASSUME NEW at \in P PROVE /\ IsFiniteSet(M[at]) /\ g[at] = Cardinality(M[at]) /\ DOMAIN c[at] = 1..Len(c[at])
                                  /\ {c[at][k] : k \in DOMAIN c[at]} = M[at]
    <3>1. M[at] = mem[L[at].first] /\ g[at] = Len(c[at]) /\ IsFiniteSet(mem[L[at].first])
      BY <1>9, <1>10, <1>13, ChainShorter
    <3>2. Runs(c[at], next, mem, L[at].first)
      BY <1>12
    <3>3. /\ c[at] \in Seq(DOMAIN next) /\ Len(c[at]) = Cardinality(mem[L[at].first])
          /\ {c[at][k] : k \in 1..Len(c[at])} = mem[L[at].first]
      BY <3>2 DEF Runs
    <3>4. DOMAIN c[at] = 1..Len(c[at])
      BY <3>3
    <3> QED BY <3>1, <3>3, <3>4
  <2> QED BY <2>1
<1>15. \A a, b \in P : a # b => M[a] \intersect M[b] = {}
  BY <1>5, <1>13 DEF Sound
<1>16. free = c[Free] /\ \A at \in G : CellsFrom(s, ListAt(s, at).first) = c[at]
  BY <1>3, <1>7, <1>8, <1>11
<1>17. CellsAt(s, G) = Cardinality(AllOf(M, G))
       /\ IsFiniteSet(AllOf(M, G))
  <2> DEFINE f == CHOOSE f : IsLength(f, G, s)
  <2>1. CellsAt(s, G) = f[G]
    BY SumUnfolds
  <2>2. \E h : IsLength(h, G, s)
    <3>1. PICK h : IsSum(h, G, g)
      BY <1>2, AddingExists
    <3>2. \A S \in SUBSET G : S # {} => g[OneOf(S)] = LengthAt(s, OneOf(S))
      <4>1. \A at \in G : g[at] = LengthAt(s, at)
        BY <1>3, <1>13, <1>16 DEF LengthAt
      <4>2. \A S \in SUBSET G : S # {} => OneOf(S) \in G
        BY DEF OneOf
      <4> QED BY <4>1, <4>2
    <3>3. IsLength(h, G, s)
      BY <3>1, <3>2, Zenon DEF IsSum, IsLength
    <3> QED BY <3>3
  <2>3. IsLength(f, G, s)
    BY <2>2
  <2> HIDE DEF f
  <2>4. ASSUME NEW S \in SUBSET G PROVE Adds(f, g, S)
    <3>1. f[S] = IF S = {} THEN 0 ELSE LengthAt(s, OneOf(S)) + f[S \ {OneOf(S)}]
      BY <2>3, Zenon DEF IsLength
    <3>2. S # {} => g[OneOf(S)] = LengthAt(s, OneOf(S))
      <4>1. \A at \in G : g[at] = LengthAt(s, at)
        BY <1>3, <1>13, <1>16 DEF LengthAt
      <4>2. S # {} => OneOf(S) \in G
        BY DEF OneOf
      <4> QED BY <4>1, <4>2
    <3> QED BY <3>1, <3>2 DEF Adds
  <2>5. \A at \in G : IsFiniteSet(M[at]) /\ g[at] = Cardinality(M[at])
    BY <1>3, <1>14
  <2>6. \A a, b \in G : a # b => M[a] \intersect M[b] = {}
    BY <1>3, <1>15
  <2>7. IsFiniteSet(AllOf(M, G)) /\ f[G] = Cardinality(AllOf(M, G))
    BY <1>2, <2>4, <2>5, <2>6, SumOfSizes
  <2> QED BY <2>1, <2>7
<1>18. AllOf(M, G) \union M[Free] = 0..n-1 /\ AllOf(M, G) \intersect M[Free] = {}
  <2>1. \A at \in P : M[at] \subseteq 0..n-1
    BY <1>6, <1>9, <1>10, <1>13 DEF Chains
  <2>2. \A e \in 0..n-1 : \E at \in P : e \in M[at]
    BY <1>5, <1>6, <1>13 DEF Sound
  <2>3. \A at \in G : M[at] \intersect M[Free] = {}
    BY <1>2, <1>3, <1>15
  <2> QED BY <1>3, <2>1, <2>2, <2>3 DEF AllOf
<1>19. Len(free) + Cardinality(AllOf(M, G)) = n
  <2>1. IsFiniteSet(M[Free]) /\ Len(free) = Cardinality(M[Free])
    BY <1>3, <1>13, <1>14, <1>16
  <2>2. Cardinality(0..n-1) = n
    BY FS_Interval
  <2>3. PICK A, B : A = AllOf(M, G) /\ B = M[Free]
    OBVIOUS
  <2>4. IsFiniteSet(A) /\ IsFiniteSet(B) /\ A \intersect B = {}
    BY <1>17, <1>18, <2>1, <2>3
  <2>5. Cardinality(A \union B) = Cardinality(A) + Cardinality(B) /\ Cardinality(A) \in Nat /\ Cardinality(B) \in Nat
    BY ONLY <2>4, SizesAdd
  <2>6. Cardinality(A \union B) = n /\ Len(free) = Cardinality(B)
    BY <1>18, <2>1, <2>2, <2>3
  <2> QED BY <2>3, <2>5, <2>6
<1>20. UNION ({{d[k] : k \in DOMAIN d} : d \in {CellsFrom(s, ListAt(s, at).first) : at \in G}}
                \union {{free[k] : k \in DOMAIN free}}) = 0..n-1
  <2>1. {free[k] : k \in DOMAIN free} = M[Free]
    BY <1>3, <1>14, <1>16
  <2>2. {CellsFrom(s, ListAt(s, at).first) : at \in G} = {c[at] : at \in G}
    BY <1>16
  <2>3. {{d[k] : k \in DOMAIN d} : d \in {c[at] : at \in G}} = {M[at] : at \in G}
    <3>1. {{d[k] : k \in DOMAIN d} : d \in {c[at] : at \in G}} = {{c[at][k] : k \in DOMAIN c[at]} : at \in G}
      OBVIOUS
    <3>2. \A at \in G : {c[at][k] : k \in DOMAIN c[at]} = M[at]
      BY <1>3, <1>14
    <3>3. {{c[at][k] : k \in DOMAIN c[at]} : at \in G} = {M[at] : at \in G}
      <4>1. ASSUME NEW e \in {{c[at][k] : k \in DOMAIN c[at]} : at \in G} PROVE e \in {M[at] : at \in G}
        <5>1. PICK at \in G : e = {c[at][k] : k \in DOMAIN c[at]}
          OBVIOUS
        <5> QED BY <3>2, <5>1
      <4>2. ASSUME NEW at \in G PROVE M[at] \in {{c[b][k] : k \in DOMAIN c[b]} : b \in G}
        <5>1. M[at] = {c[at][k] : k \in DOMAIN c[at]}
          BY <3>2
        <5> QED BY <5>1
      <4> QED BY <4>1, <4>2
    <3> QED BY <3>1, <3>3
  <2> QED BY <1>18, <2>1, <2>2, <2>3 DEF AllOf
<1>21. ASSUME NEW at \in G, NEW l, l = ListAt(s, at)
       PROVE  l.first # None /\ Len(c[at]) = l.pixnb /\ c[at][l.pixnb] = l.last
  <2>1. at \in P \ {Free} /\ l = L[at]
    BY <1>2, <1>3, <1>8, <1>21
  <2>2. l.first \in DOMAIN next /\ None \notin DOMAIN next
    BY <1>9, <1>10, <2>1 DEF Chains
  <2>3. l.pixnb = Cardinality(mem[l.first])
    BY <1>5, <2>1 DEF Sound
  <2>4. Runs(c[at], next, mem, l.first) /\ l.last \in mem[l.first] /\ next[l.last] = None
    BY <1>10, <1>12, <2>1
  <2> QED BY <2>2, <2>3, <2>4 DEF Runs
<1> QED BY <1>16, <1>17, <1>19, <1>20, <1>21 DEF AllAccounted

LEMMA CellsAreAccounted == CellInv => CellsAccounted
<1> SUFFICES ASSUME CellInv, status = "scanning" PROVE CellsAccounted
  BY DEF CellsAccounted
<1>1. PICK w \in Nat \ {0}, n \in Nat \ {0, 1} : w = img.w /\ n = stack
  BY ExtractionAssumption DEF CellInv, ScanInv, PlaceInv
<1>2. LineInv(scan, w) /\ Cellular(scan, w, n, {}, {})
  BY <1>1 DEF CellInv, ScanInv
<1>3. DOMAIN scan.marker = 0..w /\ scan.co \in Nat
  BY <1>2 DEF LineInv, Inside, HasLine
<1>4. PICK G, free : G = Growing(scan) /\ free = CellsFrom(scan, scan.free)
  OBVIOUS
<1>5. AllAccounted(scan, n, G, free)
  <2>1. /\ w \in Nat /\ n \in Nat \ {0} /\ DOMAIN scan.marker = 0..w /\ scan.co \in Nat
        /\ Cellular(scan, w, n, {}, {})
    BY <1>2, <1>3
  <2> QED BY ONLY <1>4, <2>1, CellsAddUp
<1>6. AllAccounted(scan, stack, Growing(scan), CellsFrom(scan, scan.free))
  BY <1>1, <1>4, <1>5
<1> QED BY <1>6 DEF CellsAccounted, AllAccounted, CellsAt

(* For any image and any pixel stack: between two visits every cell is on    *)
(* the free list or in the list of exactly one region that can still grow,   *)
(* no region has an empty list, and each record has the number of its cells  *)
(* and its last one right, however regions are joined, put off to the next   *)
(* line, completed and given back (update() and "free the chain-list").      *)
THEOREM CellsNeverLost == Spec => []CellsAccounted
BY CellInit, CellNext, CellsAreAccounted, PTL DEF Spec
=============================================================================
