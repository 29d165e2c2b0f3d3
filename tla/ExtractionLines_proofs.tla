----------------------- MODULE ExtractionLines_proofs -----------------------
(***************************************************************************)
(* What the one-pass scan of lutz() knows of the picture.  It never looks  *)
(* back: of the line above it has the markers only, and of its own line    *)
(* the markers written so far.  This module says what they tell of the     *)
(* pixels above the threshold, and shows that each part of a visit keeps   *)
(* it, for any line and any picture:                                       *)
(*                                                                         *)
(*   - a row of markers is read as levels of nesting and runs (Reads); two *)
(*     readings differ by a constant at most, and a bracket of them that   *)
(*     is open at a gap has a further run (TurnsAgree to AfterPause);      *)
(*                                                                         *)
(*   - Sees: the runs of this line are its lit pixels, and each is held    *)
(*     by the region whose bracket it is in, open or waiting;              *)
(*                                                                         *)
(*   - Recalls: the same of the line above from this column on, where the  *)
(*     brackets that are open belong to the regions that psstack, with ps, *)
(*     frames (Frame, Owns);                                               *)
(*                                                                         *)
(*   - Tells: both, with "start segment", the four markers, the new pixel, *)
(*     "end segment" and the step to the next position (TellsStart to      *)
(*     TellsNew), and what follows of the neighbours of a pixel (LastInRun *)
(*     to TellsHeld).                                                      *)
(*                                                                         *)
(* Between these come the two facts of data the regions need: what joining *)
(* and moving sets of pixels does to their being connected and apart       *)
(* (Shapes), and what it does to the lists of cells that stand for them    *)
(* (Depicts), with update() and "free the chain-list" one by one.          *)
(***************************************************************************)
EXTENDS Extraction_proofs

(* The markers of a line between two columns, and what they tell of it. *)
Reads(m, h, n, a, b) ==
  /\ \A c \in a..b : h[c] \in Nat /\ n[c] \in {0, 1}
  /\ \A c \in a..(b - 1) : Turn(m[c], h[c], n[c], h[c + 1], n[c + 1])

(* Two lines with the same markers between two columns. *)
Alike(m, m2, a, b) == \A c \in a..(b - 1) : m2[c] = m[c]

(* Two lines with the same markers from a on: the runs are the same and the  *)
(* levels differ by a constant.                                              *)
LEMMA TurnsAgree ==
  ASSUME NEW a \in Nat, NEW b \in Nat, NEW m, NEW h, NEW n, NEW m2, NEW h2, NEW n2,
         Reads(m, h, n, a, b), Reads(m2, h2, n2, a, b), Alike(m, m2, a, b), n2[a] = n[a]
  PROVE  \A c \in a..b : n2[c] = n[c] /\ h2[c] - h[c] = h2[a] - h[a]
<1> DEFINE Agree(c) == n2[c] = n[c] /\ h2[c] - h[c] = h2[a] - h[a]
           S == {k \in Nat : a + k <= b => Agree(a + k)}
<1>1. 0 \in S
  OBVIOUS
<1>2. ASSUME NEW k \in Nat, k \in S PROVE k + 1 \in S
  <2>1. SUFFICES ASSUME a + (k + 1) <= b PROVE Agree(a + (k + 1))
    OBVIOUS
  <2> DEFINE c == a + k
  <2>2. c \in a..(b - 1) /\ c \in a..b /\ c + 1 \in a..b /\ Agree(c) /\ a \in a..b
    BY <1>2, <2>1
  <2>3. Turn(m[c], h[c], n[c], h[c + 1], n[c + 1]) /\ Turn(m[c], h2[c], n2[c], h2[c + 1], n2[c + 1])
    BY <2>2 DEF Reads, Alike
  <2>4. n2[c + 1] = n[c + 1] /\ h2[c + 1] - h2[c] = h[c + 1] - h[c]
    <3> HIDE DEF c
    <3>1. h[c] \in Int /\ h2[c] \in Int /\ h[c + 1] \in Int /\ h2[c + 1] \in Int /\ n2[c] = n[c]
      BY <2>2 DEF Reads
    <3> QED
      BY <2>3, <3>1 DEF Turn
  <2> QED
    <3> HIDE DEF c
    <3>1. Agree(c + 1)
      BY <2>2, <2>4 DEF Reads
    <3>2. c + 1 = a + (k + 1)
      BY DEF c
    <3> QED
      BY <3>1, <3>2
<1>3. Nat \subseteq S
  <2> HIDE DEF S
  <2> QED BY <1>1, <1>2, NatSetInduction
<1> SUFFICES ASSUME NEW c \in a..b PROVE Agree(c)
  OBVIOUS
<1>4. c - a \in Nat /\ a + (c - a) = c /\ c <= b
  OBVIOUS
<1>5. c - a \in S
  <2> HIDE DEF S
  <2> QED BY <1>3, <1>4
<1> QED
  <2> HIDE DEF Agree
  <2>1. Agree(a + (c - a))
    BY <1>4, <1>5
  <2> QED BY <1>4, <2>1

(* ... and if they also begin at the same level they are the same. *)
LEMMA SameTurns ==
  ASSUME NEW a \in Nat, NEW b \in Nat, NEW m, NEW h, NEW n, NEW m2, NEW h2, NEW n2,
         Reads(m, h, n, a, b), Reads(m2, h2, n2, a, b),
         Alike(m, m2, a, b), n2[a] = n[a], h2[a] = h[a]
  PROVE  \A c \in a..b : n2[c] = n[c] /\ h2[c] = h[c]
<1>1. \A c \in a..b : n2[c] = n[c] /\ h2[c] - h[c] = h2[a] - h[a]
  BY TurnsAgree
<1>2. \A c \in a..b : a \in a..b /\ h[c] \in Nat /\ h2[c] \in Nat /\ h[a] \in Nat
  BY DEF Reads
<1> QED
  BY <1>1, <1>2

(* A set of columns has a last one and a first one. *)
LEMMA LastOne ==
  ASSUME NEW a \in Nat, NEW b \in Nat, NEW S \in SUBSET (a..b), S # {}
  PROVE  \E e \in S : \A i \in S : i <= e
<1>0. IsFiniteSet(a..b)
  BY FS_Interval
<1>1. IsFiniteSet(S)
  BY <1>0, FS_Subset
<1>2. [i \in S |-> i] \in [S -> Int]
  OBVIOUS
<1>3. PICK e \in S : \A i \in S : [j \in S |-> j][i] <= [j \in S |-> j][e]
  BY <1>1, <1>2, Greatest
<1> QED
  BY <1>3

(* The same to the left. *)
LEMMA FirstOne ==
  ASSUME NEW a \in Nat, NEW b \in Nat, NEW S \in SUBSET (a..b), S # {}
  PROVE  \E e \in S : \A i \in S : e <= i
<1>0. IsFiniteSet(a..b)
  BY FS_Interval
<1>1. IsFiniteSet(S)
  BY <1>0, FS_Subset
<1>2. [i \in S |-> 0 - i] \in [S -> Int]
  OBVIOUS
<1>3. PICK e \in S : \A i \in S : [j \in S |-> 0 - j][i] <= [j \in S |-> 0 - j][e]
  BY <1>1, <1>2, Greatest
<1>4. \A i \in S : 0 - i <= 0 - e /\ i \in Int /\ e \in Int
  BY <1>3
<1> QED
  BY <1>4

(* The levels from a to b are not below g. *)
Within(h, a, b, g) == \A e \in a..b : g <= h[e]

(* Between columns a and k the line began the region of level g, last at e. *)
BeganBelow(m, h, n, a, k, g) ==
  \E e \in a..(k - 1) : m[e] = "S" /\ h[e] + 1 = g /\ h[e] \in Nat /\ n[e] = 0 /\ Within(h, e + 1, k, g)

(* The last column at which the line was below a level began a region there. *)
LEMMA LastBelow ==
  ASSUME NEW a \in Nat, NEW b \in Nat, NEW m, NEW h, NEW n, Reads(m, h, n, a, b),
         NEW k \in a..b, NEW g \in Nat, g <= h[k], ~Within(h, a, k, g)
  PROVE  BeganBelow(m, h, n, a, k, g)
<1> DEFINE S == {e \in a..k : h[e] < g}
<1>1. S # {} /\ S \in SUBSET (a..k) /\ k \in Nat
  BY DEF Within, Reads
<1>2. PICK e \in S : \A i \in S : i <= e
  <2> HIDE DEF S
  <2> QED BY <1>1, LastOne
<1>3. e \in a..(k - 1) /\ h[e] < g /\ e + 1 \in a..b /\ e \in a..(b - 1)
  BY <1>2 DEF Reads
<1>4. Within(h, e + 1, k, g)
  BY <1>2, <1>3 DEF Within, Reads
<1>5. g <= h[e + 1] /\ h[e] \in Nat /\ h[e + 1] \in Nat /\ Turn(m[e], h[e], n[e], h[e + 1], n[e + 1])
  BY <1>3, <1>4 DEF Within, Reads
<1>6. m[e] = "S" /\ h[e] + 1 = g /\ n[e] = 0
  BY <1>3, <1>5 DEF Turn
<1> QED
  BY <1>3, <1>4, <1>5, <1>6 DEF BeganBelow

(* A run is at a level above 0. *)
LEMMA RunsAbove ==
  ASSUME NEW a \in Nat, NEW b \in Nat, NEW m, NEW h, NEW n, Reads(m, h, n, a, b),
         n[a] = 1 => h[a] # 0
  PROVE  \A c \in a..b : n[c] = 1 => h[c] # 0
<1> DEFINE S == {k \in Nat : a + k <= b => (n[a + k] = 1 => h[a + k] # 0)}
<1>1. 0 \in S
  OBVIOUS
<1>2. ASSUME NEW k \in Nat, k \in S PROVE k + 1 \in S
  <2>1. SUFFICES ASSUME a + (k + 1) <= b PROVE n[a + (k + 1)] = 1 => h[a + (k + 1)] # 0
    OBVIOUS
  <2>2. PICK c : c = a + k
    OBVIOUS
  <2>3. c \in a..(b - 1) /\ c \in a..b /\ c + 1 \in a..b /\ (n[c] = 1 => h[c] # 0) /\ c + 1 = a + (k + 1)
    BY <1>2, <2>1, <2>2
  <2>4. Turn(m[c], h[c], n[c], h[c + 1], n[c + 1]) /\ h[c] \in Nat /\ h[c + 1] \in Nat
    BY <2>3 DEF Reads
  <2>5. n[c + 1] = 1 => h[c + 1] # 0
    BY <2>3, <2>4 DEF Turn
  <2> QED
    BY <2>3, <2>5
<1>3. Nat \subseteq S
  <2> HIDE DEF S
  <2> QED BY <1>1, <1>2, NatSetInduction
<1> SUFFICES ASSUME NEW c \in a..b PROVE n[c] = 1 => h[c] # 0
  OBVIOUS
<1>4. c - a \in Nat /\ a + (c - a) = c /\ c <= b
  OBVIOUS
<1>5. c - a \in S
  <2> HIDE DEF S
  <2> QED BY <1>3, <1>4
<1> QED
  BY <1>4, <1>5

(* A bracket that is open at a gap goes on: there is a further run of it. *)
LEMMA NextRun ==
  ASSUME NEW a \in Nat, NEW b \in Nat, a <= b, NEW m, NEW h, NEW n, Reads(m, h, n, a, b),
         NEW g \in Nat \ {0}, g <= h[a], g = h[a] => n[a] = 0, h[b] < g
  PROVE  \E d \in a..(b - 1) : n[d + 1] = 1 /\ h[d + 1] = g /\ Within(h, a, d + 1, g)
<1> DEFINE S == {e \in a..b : h[e] < g}
<1>1. S # {} /\ S \in SUBSET (a..b)
  OBVIOUS
<1>2. PICK e \in S : \A i \in S : e <= i
  <2> HIDE DEF S
  <2> QED BY <1>1, FirstOne
<1>3. PICK d : d = e - 1
  OBVIOUS
<1>4. e \in a..b /\ h[e] < g /\ d \in a..(b - 1) /\ d + 1 = e /\ d \in a..b /\ d \in Nat
  BY <1>2, <1>3 DEF Reads
<1>5. Within(h, a, d, g)
  BY <1>2, <1>4 DEF Within, Reads
<1>6. g <= h[d] /\ h[d] \in Nat /\ h[d + 1] \in Nat /\ Turn(m[d], h[d], n[d], h[d + 1], n[d + 1])
  BY <1>4, <1>5 DEF Within, Reads
<1>7. h[d] = g /\ n[d] = 1
  BY <1>4, <1>6 DEF Turn
<1>8. d # a
  BY <1>7
<1>9. d - 1 \in a..(b - 1) /\ (d - 1) + 1 = d
  BY <1>4, <1>8
<1> QED
  BY <1>5, <1>7, <1>9

(* What is known of this line, with its levels: h, n and lev of Past. *)
Draws(m, start, end, cs, co, X, h, n, lev) ==
  /\ Line(m, X, h, n) /\ Levels(start, co, lev)
  /\ Regions(m, start, end, cs, co, X, h, n, lev)

(* The levels of Line: they are read off its markers, and a run has one. *)
LEMMA LineReads ==
  ASSUME NEW m, NEW X \in Nat, NEW h, NEW n, Line(m, X, h, n)
  PROVE  Reads(m, h, n, 0, X) /\ \A c \in 0..X : n[c] = 1 => h[c] # 0
<1> DEFINE S == {k \in Nat : k <= X => n[k] \in {0, 1}}
<1>1. 0 \in S
  BY DEF Line
<1>2. ASSUME NEW k \in Nat, k \in S PROVE k + 1 \in S
  <2>1. SUFFICES ASSUME k + 1 <= X PROVE n[k + 1] \in {0, 1}
    OBVIOUS
  <2>2. n[k] \in {0, 1} /\ Turn(m[k], h[k], n[k], h[k + 1], n[k + 1])
    BY <1>2, <2>1 DEF Line
  <2> QED
    BY <2>2 DEF Turn
<1>3. Nat \subseteq S
  <2> HIDE DEF S
  <2> QED BY <1>1, <1>2, NatSetInduction
<1>4. \A c \in 0..X : n[c] \in {0, 1}
  BY <1>3
<1>5. Reads(m, h, n, 0, X)
  BY <1>4 DEF Reads, Line
<1>6. n[0] = 1 => h[0] # 0
  BY DEF Line
<1> QED
  BY <1>5, <1>6, RunsAbove

(* A bracket of this line that is not closed belongs to an open region. *)
LEMMA Unclosed ==
  ASSUME NEW m, NEW start, NEW end, NEW cs, NEW co \in Nat, NEW X \in Nat, NEW h, NEW n, NEW lev,
         Draws(m, start, end, cs, co, X, h, n, lev),
         NEW c \in 0..(X - 1), m[c] = "S", Within(h, c + 1, X, h[c] + 1)
  PROVE  \E j \in 1..co : start[j] = c
<1>1. /\ h[c] \in Nat /\ h[X] = lev[co] /\ h[c] + 1 <= h[X] /\ lev[0] = 0
      /\ \A j \in 0..co : lev[j] \in Nat
  BY DEF Draws, Line, Levels, Regions, Within
<1> DEFINE Q == {j \in 0..co : h[c] + 1 <= lev[j]}
<1>2. PICK j \in Q : \A i \in Q : j <= i
  <2>1. Q \in SUBSET (0..co) /\ Q # {}
    BY <1>1
  <2> HIDE DEF Q
  <2> QED BY <2>1, FirstOne
<1>3. j \in 1..co /\ h[c] + 1 <= lev[j] /\ lev[j - 1] < h[c] + 1 /\ j - 1 \in 0..co
  BY <1>1, <1>2
<1>4. lev[j] = h[c] + 1 /\ start[j] # UNKNOWN
  BY <1>1, <1>3 DEF Draws, Levels
<1>5. Begun(j, m, start, X, h, lev)
  BY <1>3, <1>4 DEF Draws, Regions
<1>6. /\ start[j] \in 0..(X - 1) /\ h[start[j]] + 1 = h[c] + 1
      /\ \A e \in (start[j] + 1)..X : h[c] + 1 <= h[e]
  BY <1>4, <1>5 DEF Begun
<1>7. ~(start[j] < c)
  BY <1>1, <1>6
<1>8. ~(c < start[j])
  BY <1>1, <1>6 DEF Within, Draws, Line
<1> QED
  BY <1>3, <1>6, <1>7, <1>8

(* A region that is interrupted has had no run since. *)
LEMMA AfterPause ==
  ASSUME NEW m, NEW start, NEW end, NEW cs, NEW co \in Nat, NEW X \in Nat, NEW h, NEW n, NEW lev,
         Draws(m, start, end, cs, co, X, h, n, lev),
         NEW j \in 1..co, Begun(j, m, start, X, h, lev), Paused(j, m, start, end, X, h, lev)
  PROVE  \A c \in (end[j] + 1)..X : ~(n[c] = 1 /\ h[c] = lev[j])
<1>1. /\ end[j] \in 0..(X - 1) /\ start[j] \in 0..(X - 1) /\ start[j] < end[j] /\ m[end[j]] = "f"
      /\ \A c \in (end[j] + 1)..(X - 1) : m[c] \in {"s", "f", "F"} => lev[j] < h[c]
      /\ \A c \in (start[j] + 1)..X : lev[j] <= h[c]
      /\ lev[j] \in Nat
  BY DEF Draws, Levels, Begun, Paused
<1> DEFINE Q == {c \in (end[j] + 1)..X : n[c] = 1 /\ h[c] = lev[j]}
<1>2. SUFFICES ASSUME Q # {} PROVE FALSE
  OBVIOUS
<1>3. PICK c \in Q : \A i \in Q : c <= i
  <2>1. Q \in SUBSET (0..X) /\ Q # {}
    BY <1>1, <1>2
  <2> HIDE DEF Q
  <2> QED BY <2>1, FirstOne
<1>4. c \in (end[j] + 1)..X /\ n[c] = 1 /\ h[c] = lev[j]
  BY <1>3
<1>5. PICK d : d = c - 1
  OBVIOUS
<1>6. d \in end[j]..(X - 1) /\ d \in 0..(X - 1) /\ d + 1 = c
  BY <1>1, <1>4, <1>5
<1>7. Turn(m[d], h[d], n[d], h[d + 1], n[d + 1]) /\ h[d] \in Nat
  BY <1>6 DEF Draws, Line
<1>8. d # end[j]
  BY <1>1, <1>4, <1>6, <1>7 DEF Turn
<1>9. d \in (end[j] + 1)..X /\ lev[j] <= h[d] /\ d < c
  BY <1>1, <1>6, <1>8
<1>10. ~(n[d] = 1 /\ h[d] = lev[j])
  BY <1>3, <1>4, <1>9
<1>11. m[d] = "s" => lev[j] < h[d]
  BY <1>1, <1>6, <1>9
<1> QED
  BY <1>1, <1>4, <1>6, <1>7, <1>9, <1>10, <1>11 DEF Turn

-----------------------------------------------------------------------------
(* What this line tells of the regions.  T: the pixels above the threshold;  *)
(* R[at]: the pixels of the list at a place; Z: the columns before it have   *)
(* been given to their region.                                               *)
Drawn(T, y, n, a, b) == \A c \in a..b : <<c, y>> \in T <=> n[c + 1] = 1

(* The runs of an open region to the left of Z are held at its place. *)
OpenHere(y, start, co, Z, h, n, lev, R) ==
  \A j \in 1..co : start[j] # UNKNOWN =>
    \A d \in start[j]..(Z - 1) : n[d + 1] = 1 /\ h[d + 1] = lev[j] => <<d, y>> \in R[<<"info", j>>]

(* The runs of the bracket that begins at column c are in P. *)
Bracket(y, c, z, h, n, P) ==
  \A d \in c..z : n[d + 1] = 1 /\ h[d + 1] = h[c] + 1 /\ Within(h, c + 1, d + 1, h[c] + 1) => <<d, y>> \in P

(* What a region that waits on this line has on it is held where it waits. *)
WaitHere(y, m, start, co, Z, h, n, R) ==
  \A c \in 0..(Z - 1) : Waits(c, m, start, co) => Bracket(y, c, Z - 1, h, n, R[<<"store", c>>])

(* The markers written so far, read with some levels, say which pixels of  *)
(* this line are above the threshold and who has them.                     *)
Sees(T, y, m, start, end, cs, co, X, Z, R) ==
  \E h, n, lev :
    /\ Draws(m, start, end, cs, co, X, h, n, lev)
    /\ Drawn(T, y, n, 0, Z - 1)
    /\ OpenHere(y, start, co, Z, h, n, lev, R)
    /\ WaitHere(y, m, start, co, Z, h, n, R)

(* An open region has begun at or after Z, or goes on in place j2 for j. *)
StaysOpen(start, co, R, start2, co2, R2, Z) ==
  \A j \in 1..co2 : start2[j] # UNKNOWN =>
    \/ start2[j] >= Z
    \/ \E i \in 1..co : start2[j] = start[i] /\ R[<<"info", i>>] \subseteq R2[<<"info", j>>]

(* A waiting region was waiting, or was open. *)
StaysWaiting(m, start, co, R, m2, start2, co2, R2, Z) ==
  \A c \in 0..(Z - 1) : Waits(c, m2, start2, co2) =>
    \/ Waits(c, m, start, co) /\ R[<<"store", c>>] \subseteq R2[<<"store", c>>]
    \/ \E i \in 1..co : start[i] = c /\ R[<<"info", i>>] \subseteq R2[<<"store", c>>]

(* What is seen of this line survives any change that keeps the markers to *)
(* the left, and moves every open or waiting region with its pixels.       *)
LEMMA SeesMore ==
  ASSUME NEW T, NEW y, NEW m, NEW start, NEW end, NEW cs, NEW co \in Nat, NEW X \in Nat,
         NEW Z \in 0..X, NEW R,
         Sees(T, y, m, start, end, cs, co, X, Z, R),
         NEW m2, NEW start2, NEW end2, NEW cs2, NEW co2 \in Nat, NEW X2 \in Nat, X <= X2, NEW R2,
         Past(m2, start2, end2, cs2, co2, X2), \A c \in 0..(X - 1) : m2[c] = m[c],
         StaysOpen(start, co, R, start2, co2, R2, Z),
         StaysWaiting(m, start, co, R, m2, start2, co2, R2, Z)
  PROVE  Sees(T, y, m2, start2, end2, cs2, co2, X2, Z, R2)
<1>1. PICK h, n, lev : /\ Draws(m, start, end, cs, co, X, h, n, lev)
                       /\ Drawn(T, y, n, 0, Z - 1)
                       /\ OpenHere(y, start, co, Z, h, n, lev, R)
                       /\ WaitHere(y, m, start, co, Z, h, n, R)
  BY DEF Sees
<1>2. PICK h2, n2, lev2 : Draws(m2, start2, end2, cs2, co2, X2, h2, n2, lev2)
  BY DEF Past, Draws
<1>3. \A c \in 0..X : h2[c] = h[c] /\ n2[c] = n[c] /\ h[c] \in Nat
  <2>1. Line(m, X, h, n) /\ Line(m2, X, h2, n2)
    BY <1>1, <1>2 DEF Draws, Line
  <2>2. Reads(m, h, n, 0, X) /\ Reads(m2, h2, n2, 0, X) /\ n2[0] = n[0] /\ h2[0] = h[0]
    BY <2>1, LineReads DEF Line
  <2>3. Alike(m, m2, 0, X)
    BY DEF Alike
  <2>4. \A c \in 0..X : n2[c] = n[c] /\ h2[c] = h[c]
    BY <2>2, <2>3, SameTurns
  <2> QED
    BY <2>2, <2>4 DEF Reads
<1>4. Drawn(T, y, n2, 0, Z - 1)
  BY <1>1, <1>3 DEF Drawn
<1>5. \A i \in 1..co : start[i] # UNKNOWN => Begun(i, m, start, X, h, lev)
  BY <1>1 DEF Draws, Regions
<1>6. \A j \in 1..co2 : start2[j] # UNKNOWN => Begun(j, m2, start2, X2, h2, lev2)
  BY <1>2 DEF Draws, Regions
<1>7. OpenHere(y, start2, co2, Z, h2, n2, lev2, R2)
  <2> SUFFICES ASSUME NEW j \in 1..co2, start2[j] # UNKNOWN, NEW d \in start2[j]..(Z - 1),
                      n2[d + 1] = 1, h2[d + 1] = lev2[j]
               PROVE  <<d, y>> \in R2[<<"info", j>>]
    BY DEF OpenHere
  <2>1. start2[j] \in 0..(X2 - 1) /\ h2[start2[j]] + 1 = lev2[j]
    BY <1>6 DEF Begun
  <2>2. PICK i \in 1..co : start2[j] = start[i] /\ R[<<"info", i>>] \subseteq R2[<<"info", j>>]
    BY <2>1 DEF StaysOpen
  <2>3. h[start[i]] + 1 = lev[i] /\ start[i] # UNKNOWN /\ start[i] \in 0..X
    BY <1>5, <2>2 DEF Begun
  <2>4. d \in start[i]..(Z - 1) /\ n[d + 1] = 1 /\ h[d + 1] = lev[i]
    BY <1>3, <2>1, <2>2, <2>3
  <2>5. <<d, y>> \in R[<<"info", i>>]
    BY <1>1, <2>3, <2>4 DEF OpenHere
  <2> QED
    BY <2>2, <2>5
<1>8. WaitHere(y, m2, start2, co2, Z, h2, n2, R2)
  <2> SUFFICES ASSUME NEW c \in 0..(Z - 1), Waits(c, m2, start2, co2), NEW d \in c..(Z - 1),
                      n2[d + 1] = 1, h2[d + 1] = h2[c] + 1, Within(h2, c + 1, d + 1, h2[c] + 1)
               PROVE  <<d, y>> \in R2[<<"store", c>>]
    BY DEF WaitHere, Bracket
  <2>1. n[d + 1] = 1 /\ h[d + 1] = h[c] + 1 /\ Within(h, c + 1, d + 1, h[c] + 1)
    BY <1>3 DEF Within
  <2>2. CASE Waits(c, m, start, co) /\ R[<<"store", c>>] \subseteq R2[<<"store", c>>]
    BY <1>1, <2>1, <2>2 DEF WaitHere, Bracket
  <2>3. ASSUME NEW i \in 1..co, start[i] = c, R[<<"info", i>>] \subseteq R2[<<"store", c>>]
        PROVE  <<d, y>> \in R2[<<"store", c>>]
    <3>1. start[i] # UNKNOWN /\ h[c] + 1 = lev[i]
      BY <1>5, <2>3 DEF Begun, UNKNOWN
    <3> QED
      BY <1>1, <2>1, <2>3, <3>1 DEF OpenHere
  <2> QED
    BY <2>2, <2>3 DEF StaysWaiting
<1> QED
  BY <1>2, <1>4, <1>7, <1>8 DEF Sees

(* The pixel of column Z is in its region, or there is none. *)
LEMMA SeesPixel ==
  ASSUME NEW T, NEW y, NEW m, NEW start, NEW end, NEW cs, NEW co \in Nat, NEW X \in Nat,
         NEW Z \in Nat, X = Z + 1,
         NEW R, Sees(T, y, m, start, end, cs, co, X, Z, R),
         <<Z, y>> \in T <=> cs = "OBJECT",
         NEW R2, cs = "OBJECT" => <<Z, y>> \in R2[<<"info", co>>],
         \A i \in 1..co : R[<<"info", i>>] \subseteq R2[<<"info", i>>],
         \A c \in 0..(Z - 1) : R[<<"store", c>>] \subseteq R2[<<"store", c>>]
  PROVE  Sees(T, y, m, start, end, cs, co, X, X, R2)
<1>1. PICK h, n, lev : /\ Draws(m, start, end, cs, co, X, h, n, lev)
                       /\ Drawn(T, y, n, 0, Z - 1)
                       /\ OpenHere(y, start, co, Z, h, n, lev, R)
                       /\ WaitHere(y, m, start, co, Z, h, n, R)
  BY DEF Sees
<1>2. /\ n[Z + 1] = 1 <=> cs = "OBJECT"
      /\ h[Z + 1] = lev[co]
      /\ cs = "OBJECT" => co # 0 /\ start[co] # UNKNOWN
      /\ \A j \in 1..co : start[j] # UNKNOWN => Begun(j, m, start, X, h, lev)
  BY <1>1 DEF Draws, Regions, InRun
<1>3. Drawn(T, y, n, 0, X - 1)
  BY <1>1, <1>2 DEF Drawn
<1>4. OpenHere(y, start, co, X, h, n, lev, R2)
  <2> SUFFICES ASSUME NEW j \in 1..co, start[j] # UNKNOWN, NEW d \in start[j]..(X - 1),
                      n[d + 1] = 1, h[d + 1] = lev[j]
               PROVE  <<d, y>> \in R2[<<"info", j>>]
    BY DEF OpenHere
  <2>1. start[j] \in 0..(X - 1)
    BY <1>2 DEF Begun
  <2>2. CASE d = Z
    <3>1. cs = "OBJECT" /\ lev[j] = lev[co] /\ co # 0 /\ start[co] # UNKNOWN
      BY <1>2, <2>2
    <3>2. j = co
      BY <1>1, <3>1, LevelsBelow DEF Draws
    <3> QED
      BY <2>2, <3>1, <3>2
  <2>3. CASE d # Z
    <3>1. d \in start[j]..(Z - 1)
      BY <2>1, <2>3
    <3> QED
      BY <1>1, <3>1 DEF OpenHere
  <2> QED
    BY <2>2, <2>3
<1>5. WaitHere(y, m, start, co, X, h, n, R2)
  <2> SUFFICES ASSUME NEW c \in 0..(X - 1), Waits(c, m, start, co), NEW d \in c..(X - 1),
                      n[d + 1] = 1, h[d + 1] = h[c] + 1, Within(h, c + 1, d + 1, h[c] + 1)
               PROVE  <<d, y>> \in R2[<<"store", c>>]
    BY DEF WaitHere, Bracket
  <2>1. d # Z
    <3>1. SUFFICES ASSUME d = Z PROVE FALSE
      OBVIOUS
    <3>2. Within(h, c + 1, X, h[c] + 1) /\ m[c] = "S"
      BY <3>1 DEF Waits
    <3>3. \E j \in 1..co : start[j] = c
      BY <1>1, <3>2, Unclosed
    <3> QED
      BY <3>3 DEF Waits
  <2>2. c \in 0..(Z - 1) /\ d \in c..(Z - 1)
    BY <2>1
  <2> QED
    BY <1>1, <2>2 DEF WaitHere, Bracket
<1> QED
  BY <1>1, <1>3, <1>4, <1>5 DEF Sees

(* The marker at P closes a bracket, or no longer opens one: from there on *)
(* the levels are one lower.                                               *)
LEMMA LowersAfter ==
  ASSUME NEW m, NEW X \in Nat, NEW h, NEW n, Line(m, X, h, n), NEW m2, NEW h2, NEW n2,
         Line(m2, X, h2, n2),
         NEW P \in 0..(X - 1), \A c \in 0..(X - 1) : c # P => m2[c] = m[c],
         (m[P] = "S" /\ m2[P] = "s") \/ (m[P] = "f" /\ m2[P] = "F")
  PROVE  /\ Lower(h, P, h2, X) /\ \A c \in 0..X : n2[c] = n[c] /\ h[c] \in Nat /\ h2[c] \in Nat
         /\ m[P] = "S" => h2[P + 1] = h[P]
         /\ m[P] = "f" => h2[P + 1] + 1 = h[P]
<1>1. /\ Reads(m, h, n, 0, X) /\ Reads(m2, h2, n2, 0, X) /\ n2[0] = n[0] /\ h2[0] = h[0]
      /\ \A c \in 0..X : h[c] \in Nat /\ h2[c] \in Nat
  BY LineReads DEF Line
<1>2. Reads(m, h, n, 0, P) /\ Reads(m2, h2, n2, 0, P) /\ Alike(m, m2, 0, P) /\ P \in Nat
  BY <1>1 DEF Reads, Alike
<1>3. \A c \in 0..P : n2[c] = n[c] /\ h2[c] = h[c]
  BY <1>1, <1>2, SameTurns
<1>4. /\ Turn(m[P], h[P], n[P], h[P + 1], n[P + 1]) /\ Turn(m2[P], h[P], n[P], h2[P + 1], n2[P + 1])
      /\ h[P] \in Nat /\ h[P + 1] \in Nat /\ h2[P + 1] \in Nat
  BY <1>1, <1>3 DEF Line
<1>5. /\ n2[P + 1] = n[P + 1] /\ h2[P + 1] - h[P + 1] = -1
      /\ m[P] = "S" => h2[P + 1] = h[P]
      /\ m[P] = "f" => h2[P + 1] + 1 = h[P]
  BY <1>4 DEF Turn
<1>6. PICK Q : Q = P + 1
  OBVIOUS
<1>7. Q \in Nat /\ Reads(m, h, n, Q, X) /\ Reads(m2, h2, n2, Q, X) /\ Alike(m, m2, Q, X) /\ n2[Q] = n[Q]
  BY <1>1, <1>5, <1>6 DEF Reads, Alike
<1>8. \A c \in Q..X : n2[c] = n[c] /\ h2[c] - h[c] = h2[Q] - h[Q]
  BY <1>7, TurnsAgree
<1>9. \A c \in 0..X : c <= P \/ c \in Q..X
  BY <1>6
<1>10. \A c \in 0..X : n2[c] = n[c] /\ h2[c] = IF c <= P THEN h[c] ELSE h[c] - 1
  <2> SUFFICES ASSUME NEW c \in 0..X PROVE n2[c] = n[c] /\ h2[c] = IF c <= P THEN h[c] ELSE h[c] - 1
    OBVIOUS
  <2>1. CASE c <= P
    BY <1>3, <2>1
  <2>2. CASE c \in Q..X
    <3>1. n2[c] = n[c] /\ h2[c] - h[c] = -1 /\ ~(c <= P)
      BY <1>5, <1>6, <1>8, <2>2
    <3> QED
      BY <1>1, <3>1
  <2> QED
    BY <1>9, <2>1, <2>2
<1> QED
  BY <1>1, <1>5, <1>10 DEF Lower

(* The bracket of another waiting region is not touched by it. *)
LEMMA WaitsLowered ==
  ASSUME NEW m, NEW start, NEW end, NEW cs, NEW co \in Nat, NEW X \in Nat, NEW h, NEW n, NEW lev,
         Draws(m, start, end, cs, co, X, h, n, lev),
         NEW P \in 0..(X - 1), NEW h2, Lower(h, P, h2, X), h2[P + 1] + 1 = lev[co],
         Within(h, P + 1, X, lev[co]), NEW c \in 0..(X - 1), c # P, Waits(c, m, start, co),
         NEW d \in c..(X - 1), h2[d + 1] = h2[c] + 1, Within(h2, c + 1, d + 1, h2[c] + 1)
  PROVE  h[d + 1] = h[c] + 1 /\ Within(h, c + 1, d + 1, h[c] + 1)
<1>1. \A e \in 0..X : h[e] \in Nat /\ h2[e] = IF e <= P THEN h[e] ELSE h[e] - 1
  BY DEF Lower, Draws, Line
<1>2. lev[co] \in Nat
  BY DEF Draws, Levels
<1>3. CASE P < c
  BY <1>1, <1>3 DEF Within
<1>4. CASE d + 1 <= P
  BY <1>1, <1>4 DEF Within
<1>5. ASSUME c < P, P < d + 1 PROVE FALSE
  <2>1. P + 1 \in (c + 1)..(d + 1) /\ P + 1 \in 0..X
    BY <1>5
  <2>2. h2[c] + 1 <= h2[P + 1] /\ h2[c] = h[c] /\ h[c] \in Nat
    BY <1>1, <1>5, <2>1 DEF Within
  <2>3. \A e \in (P + 1)..X : h[c] + 1 <= h[e]
    BY <1>1, <1>2, <2>2 DEF Within
  <2>4. \A e \in (c + 1)..P : h[c] + 1 <= h[e]
    BY <1>1, <1>5, <2>2 DEF Within
  <2>5. Within(h, c + 1, X, h[c] + 1)
    BY <2>3, <2>4 DEF Within
  <2>6. m[c] = "S" /\ \A j \in 1..co : start[j] # c
    BY DEF Waits
  <2>7. \E j \in 1..co : start[j] = c
    BY <2>5, <2>6, Unclosed
  <2> QED
    BY <2>6, <2>7
<1> QED
  BY <1>3, <1>4, <1>5

(* One mark changes. *)
Relabels(m, m2, P, v, X) == m2[P] = v /\ \A c \in 0..(X - 1) : c # P => m2[c] = m[c]

(* What was held of the innermost region is held of the one around it. *)
Absorbs(R, R2, co, Z) ==
  /\ \A j \in 1..(co - 1) : R[<<"info", j>>] \subseteq R2[<<"info", j>>]
  /\ R[<<"info", co>>] \subseteq R2[<<"info", co - 1>>]
  /\ \A c \in 0..(Z - 1) : R[<<"store", c>>] \subseteq R2[<<"store", c>>]

(* The first k open regions begin where they did. *)
SameStarts(start, start2, k) == \A j \in 1..k : start2[j] = start[j]

(* Two open regions of this line have met: the inner one is now the outer  *)
(* one.                                                                    *)
LEMMA SeesJoin ==
  ASSUME NEW T, NEW y, NEW m, NEW start, NEW end, NEW co \in Nat, NEW X \in Nat, NEW Z \in 0..X,
         NEW R,
         Sees(T, y, m, start, end, "OBJECT", co, X, Z, R), co - 1 # 0, start[co - 1] # UNKNOWN,
         NEW m2, Relabels(m, m2, start[co], "s", X), NEW start2,
         SameStarts(start, start2, co - 1),
         Past(m2, start2, end, "OBJECT", co - 1, X), NEW R2, Absorbs(R, R2, co, Z)
  PROVE  Sees(T, y, m2, start2, end, "OBJECT", co - 1, X, Z, R2)
<1> /\ \A c \in 0..(X - 1) : c # start[co] => m2[c] = m[c]
    /\ m2[start[co]] = "s"
    /\ \A j \in 1..(co - 1) : start2[j] = start[j]
    /\ \A j \in 1..(co - 1) : R[<<"info", j>>] \subseteq R2[<<"info", j>>]
    /\ R[<<"info", co>>] \subseteq R2[<<"info", co - 1>>]
    /\ \A c \in 0..(Z - 1) : R[<<"store", c>>] \subseteq R2[<<"store", c>>]
  BY DEF Relabels, SameStarts, Absorbs
<1>1. PICK h, n, lev : /\ Draws(m, start, end, "OBJECT", co, X, h, n, lev)
                       /\ Drawn(T, y, n, 0, Z - 1)
                       /\ OpenHere(y, start, co, Z, h, n, lev, R)
                       /\ WaitHere(y, m, start, co, Z, h, n, R)
  BY DEF Sees
<1>2. PICK h2, n2, lev2 : Draws(m2, start2, end, "OBJECT", co - 1, X, h2, n2, lev2)
  BY DEF Past, Draws
<1>3. co \in 2..co /\ co - 1 \in 1..co /\ co \in 1..co /\ co # 0 /\ start[co] # UNKNOWN
  BY <1>1 DEF Draws, Regions
<1>4. \A j \in 1..co : start[j] # UNKNOWN => Begun(j, m, start, X, h, lev)
  BY <1>1 DEF Draws, Regions
<1>5. PICK P : P = start[co]
  OBVIOUS
<1>6. /\ P \in 0..(X - 1) /\ m[P] = "S" /\ h[P] + 1 = lev[co]
      /\ \A c \in (P + 1)..X : lev[co] <= h[c]
  BY <1>3, <1>4, <1>5 DEF Begun
<1>7. /\ Lower(h, P, h2, X) /\ \A c \in 0..X : n2[c] = n[c] /\ h[c] \in Nat /\ h2[c] \in Nat
      /\ h2[P + 1] = h[P]
  <2>1. Line(m, X, h, n) /\ Line(m2, X, h2, n2) /\ \A c \in 0..(X - 1) : c # P => m2[c] = m[c]
    BY <1>1, <1>2, <1>5 DEF Draws
  <2>2. m[P] = "S" /\ m2[P] = "s"
    BY <1>5, <1>6
  <2> QED
    BY <1>6, <2>1, <2>2, LowersAfter
<1>8. \A c \in 0..X : h2[c] = IF c <= P THEN h[c] ELSE h[c] - 1
  BY <1>7 DEF Lower
<1>9. /\ \A j \in 1..co : lev[j] \in Nat /\ (j # co => lev[j] < lev[co])
      /\ lev[co] = lev[co - 1] + 1
      /\ \A j \in 1..(co - 1) : j # co - 1 => lev[j] < lev[co - 1]
  <2>1. \A j \in 1..co : lev[j] \in Nat /\ (j # co => lev[j] < lev[co])
    BY <1>1, <1>3, LevelsBelow DEF Draws
  <2>2. Levels(start, co - 1, lev) /\ lev[co] = lev[co - 1] + 1 /\ co - 1 \in Nat
    BY <1>1, <1>3, LevelsFewer DEF Draws
  <2> QED
    BY <1>3, <2>1, <2>2, LevelsBelow
<1>10. Drawn(T, y, n2, 0, Z - 1)
  BY <1>1, <1>7 DEF Drawn
<1>11. ASSUME NEW j \in 1..(co - 1), start2[j] # UNKNOWN
       PROVE  start2[j] = start[j] /\ start[j] \in 0..(X - 1) /\ start[j] < P /\ lev2[j] = lev[j]
  <2>1. start2[j] = start[j] /\ Begun(j, m, start, X, h, lev) /\ Begun(j, m2, start2, X, h2, lev2)
    BY <1>2, <1>4, <1>11 DEF Draws, Regions
  <2>2. start[j] \in 0..(X - 1) /\ h[start[j]] + 1 = lev[j] /\ h2[start[j]] + 1 = lev2[j] /\ lev[j] < lev[co]
    BY <1>9, <2>1 DEF Begun
  <2>3. start[j] < P
    <3>1. start[j] # P
      BY <1>6, <1>9, <2>2
    <3>2. start[j] \in (P + 1)..X => lev[co] <= h[start[j]]
      BY <1>6
    <3>3. h[start[j]] \in Nat /\ lev[j] \in Nat /\ lev[co] \in Nat
      BY <1>3, <1>7, <1>9, <2>2
    <3> QED
      BY <1>6, <2>2, <3>1, <3>2, <3>3
  <2>4. h2[start[j]] = h[start[j]]
    <3>1. start[j] \in 0..X /\ start[j] <= P
      BY <1>6, <2>2, <2>3
    <3> QED BY <1>8, <3>1
  <2> QED
    BY <2>1, <2>2, <2>3, <2>4
<1>12. OpenHere(y, start2, co - 1, Z, h2, n2, lev2, R2)
  <2> SUFFICES ASSUME NEW j \in 1..(co - 1), start2[j] # UNKNOWN, NEW d \in start2[j]..(Z - 1),
                      n2[d + 1] = 1, h2[d + 1] = lev2[j]
               PROVE  <<d, y>> \in R2[<<"info", j>>]
    BY DEF OpenHere
  <2>1. start2[j] = start[j] /\ start[j] \in 0..(X - 1) /\ start[j] < P /\ lev2[j] = lev[j] /\ j \in 1..co
    BY <1>11
  <2>2. d \in start[j]..(Z - 1) /\ d + 1 \in 0..X /\ n[d + 1] = 1
    BY <1>7, <2>1
  <2>3. CASE d + 1 <= P
    <3>1. h[d + 1] = lev[j]
      BY <1>8, <2>1, <2>2, <2>3
    <3>2. <<d, y>> \in R[<<"info", j>>]
      BY <1>1, <2>1, <2>2, <3>1 DEF OpenHere
    <3> QED
      BY <3>2
  <2>4. CASE P < d + 1
    <3>1. h[d + 1] = lev[j] + 1 /\ lev[co] <= h[d + 1] /\ lev[j] < lev[co]
      BY <1>6, <1>7, <1>8, <1>9, <2>1, <2>2, <2>4
    <3>2. h[d + 1] = lev[co] /\ lev[j] = lev[co - 1] /\ j = co - 1
      BY <1>9, <2>1, <3>1
    <3>3. d \in start[co]..(Z - 1)
      BY <1>5, <1>6, <2>2, <2>4
    <3>4. <<d, y>> \in R[<<"info", co>>]
      BY <1>1, <1>3, <2>2, <3>2, <3>3 DEF OpenHere
    <3> QED
      BY <3>2, <3>4
  <2> QED
    BY <1>6, <2>2, <2>3, <2>4
<1>13. WaitHere(y, m2, start2, co - 1, Z, h2, n2, R2)
  <2> SUFFICES ASSUME NEW c \in 0..(Z - 1), Waits(c, m2, start2, co - 1), NEW d \in c..(Z - 1),
                      n2[d + 1] = 1, h2[d + 1] = h2[c] + 1, Within(h2, c + 1, d + 1, h2[c] + 1)
               PROVE  <<d, y>> \in R2[<<"store", c>>]
    BY DEF WaitHere, Bracket
  <2>1. c # P /\ Waits(c, m, start, co)
    BY <1>3, <1>5 DEF Waits
  <2>2. c \in 0..(X - 1) /\ d \in c..(X - 1) /\ n[d + 1] = 1
    BY <1>7
  <2>3. h2[P + 1] + 1 = lev[co] /\ Within(h, P + 1, X, lev[co])
    BY <1>6, <1>7 DEF Within
  <2>4. /\ co \in Nat /\ X \in Nat /\ Draws(m, start, end, "OBJECT", co, X, h, n, lev)
        /\ P \in 0..(X - 1) /\ Lower(h, P, h2, X) /\ h2[P + 1] + 1 = lev[co] /\ Within(h, P + 1, X, lev[co])
        /\ c \in 0..(X - 1) /\ c # P /\ Waits(c, m, start, co)
        /\ d \in c..(X - 1) /\ h2[d + 1] = h2[c] + 1 /\ Within(h2, c + 1, d + 1, h2[c] + 1)
    BY <1>1, <1>6, <1>7, <2>1, <2>2, <2>3
  <2>5. h[d + 1] = h[c] + 1 /\ Within(h, c + 1, d + 1, h[c] + 1)
    BY ONLY <2>4, WaitsLowered
  <2>6. <<d, y>> \in R[<<"store", c>>]
    BY <1>1, <2>1, <2>2, <2>5 DEF WaitHere, Bracket
  <2> QED
    BY <2>6
<1> QED
  BY <1>2, <1>10, <1>12, <1>13 DEF Sees

(* What was held of the innermost region is held until its column comes. *)
Shelves(R, R2, co, P, Z) ==
  /\ \A j \in 1..(co - 1) : R[<<"info", j>>] \subseteq R2[<<"info", j>>]
  /\ R[<<"info", co>>] \subseteq R2[<<"store", P>>]
  /\ \A c \in 0..(Z - 1) : c # P => R[<<"store", c>>] \subseteq R2[<<"store", c>>]

(* The innermost open region goes on with the next line. *)
LEMMA SeesSuspend ==
  ASSUME NEW T, NEW y, NEW m, NEW start, NEW end, NEW co \in Nat, NEW X \in Nat, NEW Z \in 0..X,
         NEW R,
         Sees(T, y, m, start, end, "NONOBJECT", co, X, Z, R), co # 0, start[co] # UNKNOWN,
         NEW m2, Relabels(m, m2, end[co], "F", X),
         Past(m2, start, end, "NONOBJECT", co - 1, X), NEW R2, Shelves(R, R2, co, start[co], Z)
  PROVE  Sees(T, y, m2, start, end, "NONOBJECT", co - 1, X, Z, R2)
<1> /\ \A c \in 0..(X - 1) : c # end[co] => m2[c] = m[c]
    /\ m2[end[co]] = "F"
    /\ \A j \in 1..(co - 1) : R[<<"info", j>>] \subseteq R2[<<"info", j>>]
    /\ R[<<"info", co>>] \subseteq R2[<<"store", start[co]>>]
    /\ \A c \in 0..(Z - 1) : c # start[co] => R[<<"store", c>>] \subseteq R2[<<"store", c>>]
  BY DEF Relabels, Shelves
<1>1. PICK h, n, lev : /\ Draws(m, start, end, "NONOBJECT", co, X, h, n, lev)
                       /\ Drawn(T, y, n, 0, Z - 1)
                       /\ OpenHere(y, start, co, Z, h, n, lev, R)
                       /\ WaitHere(y, m, start, co, Z, h, n, R)
  BY DEF Sees
<1>2. PICK h2, n2, lev2 : Draws(m2, start, end, "NONOBJECT", co - 1, X, h2, n2, lev2)
  BY DEF Past, Draws
<1>3. co \in 1..co /\ co - 1 \in Nat
  OBVIOUS
<1>4. \A j \in 1..co : start[j] # UNKNOWN => Begun(j, m, start, X, h, lev) /\ Paused(j, m, start, end, X, h, lev)
  BY <1>1 DEF Draws, Regions
<1>5. PICK P : P = end[co]
  OBVIOUS
<1>6. /\ P \in 0..(X - 1) /\ m[P] = "f" /\ h[P] = lev[co]
      /\ start[co] \in 0..(X - 1) /\ start[co] < P /\ h[start[co]] + 1 = lev[co]
      /\ \A c \in (start[co] + 1)..X : lev[co] <= h[c]
  BY <1>3, <1>4, <1>5 DEF Begun, Paused
<1>7. /\ Lower(h, P, h2, X) /\ \A c \in 0..X : n2[c] = n[c] /\ h[c] \in Nat /\ h2[c] \in Nat
      /\ h2[P + 1] + 1 = h[P]
  <2>1. Line(m, X, h, n) /\ Line(m2, X, h2, n2) /\ \A c \in 0..(X - 1) : c # P => m2[c] = m[c]
    BY <1>1, <1>2, <1>5 DEF Draws
  <2>2. m[P] = "f" /\ m2[P] = "F"
    BY <1>5, <1>6
  <2> QED
    BY <1>6, <2>1, <2>2, LowersAfter
<1>8. \A c \in 0..X : h2[c] = IF c <= P THEN h[c] ELSE h[c] - 1
  BY <1>7 DEF Lower
<1>9. \A j \in 1..co : lev[j] \in Nat /\ (j # co => lev[j] < lev[co])
  BY <1>1, LevelsBelow DEF Draws
<1>10. Drawn(T, y, n2, 0, Z - 1)
  BY <1>1, <1>7 DEF Drawn
<1>11. \A c \in (P + 1)..X : ~(n[c] = 1 /\ h[c] = lev[co])
  <2>1. PICK j, cs : j = co /\ cs = "NONOBJECT"
    OBVIOUS
  <2>2. j \in 1..co /\ Begun(j, m, start, X, h, lev) /\ Paused(j, m, start, end, X, h, lev)
    BY <1>3, <1>4, <1>6, <2>1
  <2>3. co \in Nat /\ X \in Nat /\ Draws(m, start, end, cs, co, X, h, n, lev)
    BY <1>1, <2>1
  <2>4. \A c \in (end[j] + 1)..X : ~(n[c] = 1 /\ h[c] = lev[j])
    BY ONLY <2>2, <2>3, AfterPause
  <2> QED
    BY <1>5, <2>1, <2>4
<1>12. ASSUME NEW j \in 1..(co - 1), start[j] # UNKNOWN
       PROVE  start[j] \in 0..(X - 1) /\ lev2[j] = lev[j] /\ j \in 1..co /\ lev[j] < lev[co]
  <2>1. Begun(j, m, start, X, h, lev) /\ Begun(j, m2, start, X, h2, lev2) /\ j \in 1..co
    BY <1>2, <1>4, <1>12 DEF Draws, Regions
  <2>2. start[j] \in 0..(X - 1) /\ h[start[j]] + 1 = lev[j] /\ h2[start[j]] + 1 = lev2[j] /\ lev[j] < lev[co]
    BY <1>9, <2>1 DEF Begun
  <2>3. start[j] <= P
    BY <1>6, <1>7, <1>9, <2>2
  <2> QED
    BY <1>8, <2>1, <2>2, <2>3
<1>13. OpenHere(y, start, co - 1, Z, h2, n2, lev2, R2)
  <2> SUFFICES ASSUME NEW j \in 1..(co - 1), start[j] # UNKNOWN, NEW d \in start[j]..(Z - 1),
                      n2[d + 1] = 1, h2[d + 1] = lev2[j]
               PROVE  <<d, y>> \in R2[<<"info", j>>]
    BY DEF OpenHere
  <2>1. start[j] \in 0..(X - 1) /\ lev2[j] = lev[j] /\ j \in 1..co /\ lev[j] < lev[co]
    BY <1>12
  <2>2. d + 1 \in 0..X /\ n[d + 1] = 1
    BY <1>7, <2>1
  <2>3. d + 1 <= P
    <3>1. SUFFICES ASSUME P < d + 1 PROVE FALSE
      BY <1>6, <2>2
    <3>2. h[d + 1] = lev[j] + 1 /\ d + 1 \in (P + 1)..X /\ lev[co] <= h[d + 1]
      BY <1>6, <1>7, <1>8, <2>1, <2>2, <3>1
    <3>3. h[d + 1] = lev[co]
      BY <1>9, <2>1, <3>2
    <3> QED
      BY <1>11, <2>2, <3>2, <3>3
  <2>4. h[d + 1] = lev[j]
    BY <1>8, <2>1, <2>2, <2>3
  <2>5. <<d, y>> \in R[<<"info", j>>]
    BY <1>1, <2>1, <2>2, <2>4 DEF OpenHere
  <2> QED
    BY <2>5
<1>14. WaitHere(y, m2, start, co - 1, Z, h2, n2, R2)
  <2> SUFFICES ASSUME NEW c \in 0..(Z - 1), Waits(c, m2, start, co - 1), NEW d \in c..(Z - 1),
                      n2[d + 1] = 1, h2[d + 1] = h2[c] + 1, Within(h2, c + 1, d + 1, h2[c] + 1)
               PROVE  <<d, y>> \in R2[<<"store", c>>]
    BY DEF WaitHere, Bracket
  <2>1. c # P /\ m[c] = "S" /\ \A j \in 1..(co - 1) : start[j] # c
    BY <1>5 DEF Waits
  <2>2. c \in 0..(X - 1) /\ d \in c..(X - 1) /\ n[d + 1] = 1 /\ d + 1 \in 0..X
    BY <1>7
  <2>3. h2[P + 1] + 1 = lev[co] /\ Within(h, P + 1, X, lev[co])
    BY <1>6, <1>7 DEF Within
  <2>4. CASE c # start[co]
    <3>1. Waits(c, m, start, co)
      BY <2>1, <2>4 DEF Waits
    <3>2. /\ co \in Nat /\ X \in Nat /\ Draws(m, start, end, "NONOBJECT", co, X, h, n, lev)
          /\ P \in 0..(X - 1) /\ Lower(h, P, h2, X) /\ h2[P + 1] + 1 = lev[co] /\ Within(h, P + 1, X, lev[co])
          /\ c \in 0..(X - 1) /\ c # P /\ Waits(c, m, start, co)
          /\ d \in c..(X - 1) /\ h2[d + 1] = h2[c] + 1 /\ Within(h2, c + 1, d + 1, h2[c] + 1)
      BY <1>1, <1>6, <1>7, <2>1, <2>2, <2>3, <3>1
    <3>3. h[d + 1] = h[c] + 1 /\ Within(h, c + 1, d + 1, h[c] + 1)
      BY ONLY <3>2, WaitsLowered
    <3>4. <<d, y>> \in R[<<"store", c>>]
      BY <1>1, <2>2, <3>1, <3>3 DEF WaitHere, Bracket
    <3> QED
      BY <2>4, <3>4
  <2>5. CASE c = start[co]
    <3>1. h2[c] + 1 = lev[co]
      BY <1>6, <1>8, <2>5
    <3>2. d + 1 <= P
      <4>1. SUFFICES ASSUME P < d + 1 PROVE FALSE
        BY <1>6, <2>2
      <4>2. P + 1 \in (c + 1)..(d + 1)
        BY <1>6, <2>5, <4>1
      <4>3. h2[c] + 1 <= h2[P + 1]
        BY <4>2 DEF Within
      <4> QED
        BY <1>6, <1>7, <1>9, <2>3, <3>1, <4>3
    <3>3. h[d + 1] = lev[co]
      BY <1>8, <2>2, <3>1, <3>2
    <3>4. <<d, y>> \in R[<<"info", co>>]
      BY <1>1, <1>3, <2>2, <2>5, <3>3 DEF OpenHere
    <3> QED
      BY <2>5, <3>4
  <2> QED
    BY <2>4, <2>5
<1> QED
  BY <1>2, <1>10, <1>13, <1>14 DEF Sees

(* What the line above tells of the regions, from column x on: mr are its  *)
(* markers as this line has still to meet them, y is the line above. The   *)
(* framing of psstack and ps by the regions that are open:                 *)
Frame(st, ps, cs, co, base) == Bases(co, base) /\ Word(st, co, base) /\ Top(st, ps, cs, co, base)

(* The bracket at level g of the line above, still open, is region j's. *)
Owns(base, j, g, co, len) == base[j] - j - 1 < g /\ g <= (IF j = co THEN len - co ELSE base[j + 1] - j - 2)

(* The markers from x on, read with some levels, close all that is open. *)
Ahead(mr, h, n, x, w) == Reads(mr, h, n, x, w + 1) /\ h[w + 1] = 0 /\ n[w + 1] = 0

(* The runs of the line above that belong to an open region are held       *)
(* there.                                                                  *)
OpenAbove(y, h, n, x, w, base, len, co, R) ==
  \A j \in 1..co : \A d \in (x - 1)..w :
    n[d + 1] = 1 /\ Owns(base, j, h[d + 1], co, len) /\ Within(h, x, d + 1, h[d + 1])
      => <<d, y>> \in R[<<"info", j>>]

(* The runs of a region that is still to be met are held where it waits. *)
WaitAbove(y, mr, h, n, x, w, R) ==
  \A c \in x..w : mr[c] = "S" => Bracket(y, c, w, h, n, R[<<"store", c>>])

(* Whether the scan is below a run of the line above. *)
InSegment(ps) == IF ps = "OBJECT" THEN 1 ELSE 0

(* All this line knows of the line above. *)
Recalls(T, y, mr, st, ps, cs, co, x, w, R) ==
  \E h, n, base :
    /\ Frame(st, ps, cs, co, base) /\ Ahead(mr, h, n, x, w)
    /\ h[x] = Len(st) - co /\ n[x] = InSegment(ps)
    /\ Drawn(T, y, n, x - 1, w)
    /\ OpenAbove(y, h, n, x, w, base, Len(st), co, R)
    /\ WaitAbove(y, mr, h, n, x, w, R)

(* psstack and ps as one word, and how far two of them are the same. *)
Letter(st, ps, i) == IF i <= Len(st) THEN st[i] ELSE ps

(* The first m letters of two words say the same of the bases. *)
SharedTo(m, st, ps, st2, ps2) ==
  /\ m \in Nat /\ m <= Len(st) + 1 /\ m <= Len(st2) + 1
  /\ \A i \in 1..m : Letter(st, ps, i) = "COMPLETE" <=> Letter(st2, ps2, i) = "COMPLETE"

(* A position of the word is a base exactly where it says COMPLETE. *)
LEMMA BaseAt ==
  ASSUME NEW st, Len(st) \in Nat, NEW ps, NEW cs, NEW co \in Nat, NEW base,
         Frame(st, ps, cs, co, base),
         NEW i \in 1..(Len(st) + 1)
  PROVE  IsBase(i, co, base) <=> Letter(st, ps, i) = "COMPLETE"
<1>1. CASE i <= Len(st)
  BY <1>1 DEF Frame, Word, Letter
<1>2. CASE i = Len(st) + 1
  <2>1. base[co] <= i /\ (ps = "COMPLETE" <=> base[co] = i)
    BY <1>2 DEF Frame, Top
  <2>2. IsBase(i, co, base) <=> base[co] = i
    BY <2>1, BasesBelow DEF Frame
  <2>3. Letter(st, ps, i) = ps
    BY <1>2 DEF Letter
  <2> QED BY <2>1, <2>2, <2>3
<1> QED BY <1>1, <1>2

(* A framing is fixed by the word. *)
LEMMA BasesShared ==
  ASSUME NEW st, Len(st) \in Nat, NEW ps, NEW cs, NEW co \in Nat, NEW base,
         Frame(st, ps, cs, co, base),
         NEW st2, Len(st2) \in Nat, NEW ps2, NEW cs2, NEW co2 \in Nat, NEW base2,
         Frame(st2, ps2, cs2, co2, base2),
         NEW m, SharedTo(m, st, ps, st2, ps2)
  PROVE  \A j \in 0..co : base[j] <= m => j <= co2 /\ base2[j] = base[j]
<1> DEFINE Fixed(j) == j \in 0..co /\ base[j] <= m => j <= co2 /\ base2[j] = base[j]
           S == {j \in Nat : Fixed(j)}
<1>1. /\ \A j \in 0..co : base[j] \in Nat /\ 1 <= base[j]
      /\ \A i, j \in 0..co : i < j => base[i] < base[j]
      /\ \A j \in 0..co2 : base2[j] \in Nat /\ 1 <= base2[j]
      /\ \A i, j \in 0..co2 : i < j => base2[i] < base2[j]
      /\ base[0] = 1 /\ base2[0] = 1
  BY DEF Frame, Bases
<1>2. \A i \in 1..m : IsBase(i, co, base) <=> IsBase(i, co2, base2)
  <2> SUFFICES ASSUME NEW i \in 1..m PROVE IsBase(i, co, base) <=> IsBase(i, co2, base2)
    OBVIOUS
  <2>1. i \in 1..(Len(st) + 1) /\ i \in 1..(Len(st2) + 1)
    BY DEF SharedTo
  <2>2. IsBase(i, co, base) <=> Letter(st, ps, i) = "COMPLETE"
    BY <2>1, BaseAt
  <2>3. IsBase(i, co2, base2) <=> Letter(st2, ps2, i) = "COMPLETE"
    BY <2>1, BaseAt
  <2> QED BY <2>2, <2>3 DEF SharedTo
<1>3. 0 \in S
  BY <1>1
<1>4. ASSUME NEW j \in Nat, j \in S PROVE j + 1 \in S
  <2> SUFFICES ASSUME j + 1 \in 0..co, base[j + 1] <= m PROVE j + 1 <= co2 /\ base2[j + 1] = base[j + 1]
    OBVIOUS
  <2>1. PICK k : k = j + 1
    OBVIOUS
  <2>2. k \in 0..co /\ j \in 0..co /\ base[j] < base[k] /\ base[k] <= m /\ m \in Nat /\ base[k] \in 1..m /\ base[j] <= m
    BY <1>1, <2>1 DEF SharedTo
  <2>3. j \in 0..co2 /\ base2[j] = base[j]
    BY <1>4, <2>2
  <2>4. IsBase(base[k], co, base)
    BY <2>2 DEF IsBase
  <2>5. PICK i \in 0..co2 : base2[i] = base[k]
    BY <1>2, <2>2, <2>4 DEF IsBase
  <2>6. j < i
    BY <1>1, <2>2, <2>3, <2>5
  <2>7. k \in 0..co2 /\ base2[j] < base2[k] /\ base2[k] <= base2[i]
    BY <1>1, <2>1, <2>3, <2>5, <2>6
  <2>8. base2[k] \in 1..m
    BY <1>1, <2>2, <2>5, <2>7
  <2>9. IsBase(base2[k], co2, base2)
    BY <2>7 DEF IsBase
  <2>10. PICK l \in 0..co : base[l] = base2[k]
    BY <1>2, <2>8, <2>9 DEF IsBase
  <2>11. j < l
    BY <1>1, <2>2, <2>3, <2>7, <2>10
  <2>12. base[k] <= base[l]
    BY <1>1, <2>1, <2>2, <2>10, <2>11
  <2>13. base2[k] = base[k]
    BY <1>1, <2>2, <2>5, <2>7, <2>10, <2>12
  <2> QED BY <2>1, <2>7, <2>13
<1>5. Nat \subseteq S
  <2> HIDE DEF S
  <2> QED BY <1>3, <1>4, NatSetInduction
<1> QED BY <1>5

(* Bases are at different levels. *)
LEMMA BasesSpread ==
  ASSUME NEW co \in Nat, NEW base, Bases(co, base)
  PROVE  \A i \in 0..co : \A j \in i..co : j - i <= base[j] - base[i]
<1> SUFFICES ASSUME NEW i \in 0..co PROVE \A j \in i..co : j - i <= base[j] - base[i]
  OBVIOUS
<1> DEFINE S == {k \in Nat : i + k <= co => k <= base[i + k] - base[i]}
<1>1. \A j \in 0..co : base[j] \in Nat
  BY DEF Bases
<1>2. 0 \in S
  BY <1>1
<1>3. ASSUME NEW k \in Nat, k \in S PROVE k + 1 \in S
  <2> SUFFICES ASSUME i + (k + 1) <= co PROVE k + 1 <= base[i + (k + 1)] - base[i]
    OBVIOUS
  <2>1. k <= base[i + k] - base[i] /\ i + k \in 0..co /\ i + (k + 1) \in 0..co /\ i + k < i + (k + 1)
    BY <1>3
  <2>2. base[i + k] < base[i + (k + 1)]
    BY <2>1 DEF Bases
  <2> QED BY <1>1, <2>1, <2>2
<1>4. Nat \subseteq S
  <2> HIDE DEF S
  <2> QED BY <1>2, <1>3, NatSetInduction
<1> SUFFICES ASSUME NEW j \in i..co PROVE j - i <= base[j] - base[i]
  OBVIOUS
<1>5. j - i \in Nat /\ i + (j - i) = j
  OBVIOUS
<1>6. j - i \in S
  <2> HIDE DEF S
  <2> QED BY <1>4, <1>5
<1> QED BY <1>5, <1>6

(* Every bracket still open is owned, and only those are. *)
LEMMA OwnsBelow ==
  ASSUME NEW st, Len(st) \in Nat, NEW ps, NEW cs, NEW co \in Nat, NEW base,
         Frame(st, ps, cs, co, base),
         NEW j \in 1..co, NEW g \in Int, Owns(base, j, g, co, Len(st))
  PROVE  g <= Len(st) - co
<1>1. CASE j = co
  BY <1>1 DEF Owns
<1>2. CASE j # co
  <2>1. j + 1 \in 0..co /\ co \in (j + 1)..co
    BY <1>2
  <2>2. base[j + 1] \in Nat /\ base[co] \in Nat /\ co - (j + 1) <= base[co] - base[j + 1]
    <3>1. base[j + 1] \in Nat /\ base[co] \in Nat
      BY <2>1 DEF Frame, Bases
    <3>2. Bases(co, base) /\ j + 1 \in 0..co
      BY <2>1 DEF Frame
    <3>3. \A i \in (j + 1)..co : i - (j + 1) <= base[i] - base[j + 1]
      BY <3>2, BasesSpread
    <3> QED BY <2>1, <3>1, <3>3
  <2>3. base[co] <= Len(st) + 1
    BY DEF Frame, Top
  <2>4. g <= base[j + 1] - j - 2
    BY <1>2 DEF Owns
  <2> QED BY <2>2, <2>3, <2>4
<1> QED BY <1>1, <1>2

(* Every bracket still open has an owner. *)
LEMMA OwnerIs ==
  ASSUME NEW st, Len(st) \in Nat, NEW ps, NEW cs, NEW co \in Nat, NEW base,
         Frame(st, ps, cs, co, base),
         NEW g \in Nat \ {0}, g <= Len(st) - co
  PROVE  \E j \in 1..co : Owns(base, j, g, co, Len(st))
<1> DEFINE Q == {j \in 0..co : base[j] - j - 1 < g}
<1>1. \A j \in 0..co : base[j] \in Nat /\ base[0] = 1 /\ (co # 0 => base[1] = 2)
  BY DEF Frame, Bases
<1>2. co # 0
  BY DEF Frame, Top
<1>3. PICK j \in Q : \A i \in Q : i <= j
  <2>1. Q \in SUBSET (0..co) /\ Q # {}
    <3>1. 0 \in Q
      BY <1>1
    <3> QED BY <3>1
  <2> HIDE DEF Q
  <2> QED BY <2>1, LastOne
<1>4. 1 \in Q
  BY <1>1, <1>2
<1>5. j \in 1..co
  BY <1>3, <1>4
<1>6. CASE j = co
  BY <1>3, <1>5, <1>6 DEF Owns
<1>7. CASE j # co
  <2>1. j + 1 \in 0..co /\ j + 1 \notin Q
    BY <1>3, <1>5, <1>7
  <2>2. g <= base[j + 1] - j - 2
    BY <1>1, <2>1
  <2> QED BY <1>3, <1>5, <1>7, <2>2 DEF Owns
<1> QED BY <1>6, <1>7

(* What is owned stays owned, by the same region or by one that has its      *)
(* pixels; P is what a bracket that opens brings.                            *)
Passes(st, ps, cs, co, R, st2, ps2, cs2, co2, R2, mark, P) ==
  \A base, base2 :
    Frame(st, ps, cs, co, base) /\ Frame(st2, ps2, cs2, co2, base2) =>
      \A j \in 1..co2 : \A g \in Nat : Owns(base2, j, g, co2, Len(st2)) =>
        \/ \E i \in 1..co : Owns(base, i, g, co, Len(st)) /\ R[<<"info", i>>] \subseteq R2[<<"info", j>>]
        \/ mark = "S" /\ g = Len(st) - co + 1 /\ P \subseteq R2[<<"info", j>>]

(* A step that does not move on keeps what is known of the line above, if  *)
(* it keeps who owns what.                                                 *)
LEMMA RecallsSame ==
  ASSUME NEW T, NEW y, NEW mr, NEW w \in Nat, NEW x \in 0..(w + 1), NEW R, NEW R2,
         NEW st, Len(st) \in Nat, NEW ps, NEW cs, NEW co \in Nat,
         Recalls(T, y, mr, st, ps, cs, co, x, w, R),
         NEW st2, Len(st2) \in Nat, NEW ps2, NEW cs2, NEW co2 \in Nat, Framed(st2, ps2, cs2, co2),
         Len(st2) - co2 = Len(st) - co, InSegment(ps2) = InSegment(ps),
         NEW P, Passes(st, ps, cs, co, R, st2, ps2, cs2, co2, R2, "none", P),
         \A c \in x..w : R[<<"store", c>>] \subseteq R2[<<"store", c>>]
  PROVE  Recalls(T, y, mr, st2, ps2, cs2, co2, x, w, R2)
<1>1. PICK h, n, base :
        /\ Frame(st, ps, cs, co, base) /\ Ahead(mr, h, n, x, w)
        /\ h[x] = Len(st) - co /\ n[x] = InSegment(ps)
        /\ Drawn(T, y, n, x - 1, w)
        /\ OpenAbove(y, h, n, x, w, base, Len(st), co, R)
        /\ WaitAbove(y, mr, h, n, x, w, R)
  BY DEF Recalls
<1>2. PICK base2 : Frame(st2, ps2, cs2, co2, base2)
  BY DEF Framed, Frame
<1>3. \A d \in (x - 1)..w : h[d + 1] \in Nat
  BY <1>1 DEF Ahead, Reads
<1>4. OpenAbove(y, h, n, x, w, base2, Len(st2), co2, R2)
  <2> SUFFICES ASSUME NEW j \in 1..co2, NEW d \in (x - 1)..w, n[d + 1] = 1,
                      Owns(base2, j, h[d + 1], co2, Len(st2)), Within(h, x, d + 1, h[d + 1])
               PROVE  <<d, y>> \in R2[<<"info", j>>]
    BY DEF OpenAbove
  <2>1. PICK i \in 1..co : Owns(base, i, h[d + 1], co, Len(st)) /\ R[<<"info", i>>] \subseteq R2[<<"info", j>>]
    BY <1>1, <1>2, <1>3 DEF Passes
  <2>2. <<d, y>> \in R[<<"info", i>>]
    BY <1>1, <2>1 DEF OpenAbove
  <2> QED BY <2>1, <2>2
<1>5. WaitAbove(y, mr, h, n, x, w, R2)
  BY <1>1 DEF WaitAbove, Bracket
<1> QED BY <1>1, <1>2, <1>4, <1>5 DEF Recalls

(* A step past the marker of a column keeps it too. *)
LEMMA RecallsStep ==
  ASSUME NEW T, NEW y, NEW mr, NEW w \in Nat, NEW x \in 0..w, NEW R, NEW R2,
         NEW st, Len(st) \in Nat, NEW ps, NEW cs, NEW co \in Nat,
         Recalls(T, y, mr, st, ps, cs, co, x, w, R),
         NEW st2, Len(st2) \in Nat, NEW ps2, NEW cs2, NEW co2 \in Nat, Framed(st2, ps2, cs2, co2),
         Turn(mr[x], Len(st) - co, InSegment(ps), Len(st2) - co2, InSegment(ps2)),
         Passes(st, ps, cs, co, R, st2, ps2, cs2, co2, R2, mr[x], R[<<"store", x>>]),
         \A c \in (x + 1)..w : R[<<"store", c>>] \subseteq R2[<<"store", c>>]
  PROVE  Recalls(T, y, mr, st2, ps2, cs2, co2, x + 1, w, R2)
<1>1. PICK h, n, base :
        /\ Frame(st, ps, cs, co, base) /\ Ahead(mr, h, n, x, w)
        /\ h[x] = Len(st) - co /\ n[x] = InSegment(ps)
        /\ Drawn(T, y, n, x - 1, w)
        /\ OpenAbove(y, h, n, x, w, base, Len(st), co, R)
        /\ WaitAbove(y, mr, h, n, x, w, R)
  BY DEF Recalls
<1>2. PICK base2 : Frame(st2, ps2, cs2, co2, base2)
  BY DEF Framed, Frame
<1>3. /\ \A d \in (x - 1)..w : h[d + 1] \in Nat
      /\ Reads(mr, h, n, x, w + 1) /\ Turn(mr[x], h[x], n[x], h[x + 1], n[x + 1])
      /\ h[x] \in Nat /\ h[x + 1] \in Nat /\ x + 1 \in x..(w + 1)
  <2>1. Reads(mr, h, n, x, w + 1) /\ x \in x..((w + 1) - 1) /\ x \in x..(w + 1) /\ x + 1 \in x..(w + 1)
    BY <1>1 DEF Ahead
  <2> QED BY <2>1 DEF Reads
<1>4. h[x + 1] = Len(st2) - co2 /\ n[x + 1] = InSegment(ps2)
  BY <1>1, <1>3 DEF Turn
<1>5. Ahead(mr, h, n, x + 1, w)
  BY <1>1 DEF Ahead, Reads
<1>6. OpenAbove(y, h, n, x + 1, w, base2, Len(st2), co2, R2)
  <2> SUFFICES ASSUME NEW j \in 1..co2, NEW d \in ((x + 1) - 1)..w, n[d + 1] = 1,
                      Owns(base2, j, h[d + 1], co2, Len(st2)), Within(h, x + 1, d + 1, h[d + 1])
               PROVE  <<d, y>> \in R2[<<"info", j>>]
    BY DEF OpenAbove
  <2>1. d \in x..w /\ d \in (x - 1)..w /\ h[d + 1] \in Nat
    BY <1>3
  <2>2. ASSUME NEW i \in 1..co, Owns(base, i, h[d + 1], co, Len(st)), R[<<"info", i>>] \subseteq R2[<<"info", j>>]
        PROVE  <<d, y>> \in R2[<<"info", j>>]
    <3>1. h[d + 1] <= h[x]
      BY <1>1, <2>1, <2>2, OwnsBelow
    <3>2. Within(h, x, d + 1, h[d + 1])
      <4>1. \A e \in x..(d + 1) : e = x \/ e \in (x + 1)..(d + 1)
        OBVIOUS
      <4> QED BY <3>1, <4>1 DEF Within
    <3>3. <<d, y>> \in R[<<"info", i>>]
      BY <1>1, <2>1, <2>2, <3>2 DEF OpenAbove
    <3> QED BY <2>2, <3>3
  <2>3. ASSUME mr[x] = "S", h[d + 1] = h[x] + 1, R[<<"store", x>>] \subseteq R2[<<"info", j>>]
        PROVE  <<d, y>> \in R2[<<"info", j>>]
    <3>1. Bracket(y, x, w, h, n, R[<<"store", x>>])
      BY <1>1, <2>3 DEF WaitAbove
    <3>2. <<d, y>> \in R[<<"store", x>>]
      BY <2>1, <2>3, <3>1 DEF Bracket
    <3> QED BY <2>3, <3>2
  <2> QED BY <1>1, <1>2, <2>1, <2>2, <2>3 DEF Passes
<1>7. WaitAbove(y, mr, h, n, x + 1, w, R2)
  <2> SUFFICES ASSUME NEW c \in (x + 1)..w, mr[c] = "S" PROVE Bracket(y, c, w, h, n, R2[<<"store", c>>])
    BY DEF WaitAbove
  <2>1. Bracket(y, c, w, h, n, R[<<"store", c>>])
    BY <1>1 DEF WaitAbove
  <2> QED BY <2>1 DEF Bracket
<1>8. Drawn(T, y, n, (x + 1) - 1, w)
  BY <1>1 DEF Drawn
<1> QED BY <1>2, <1>4, <1>5, <1>6, <1>7, <1>8 DEF Recalls

(* The open regions stay what they are: the innermost may own one more. *)
LEMMA PassesSame ==
  ASSUME NEW co \in Nat, NEW R,
         NEW R2, \A j \in 1..co : R[<<"info", j>>] \subseteq R2[<<"info", j>>],
         NEW st, Len(st) \in Nat, NEW ps, NEW cs, NEW st2, Len(st2) \in Nat, NEW ps2, NEW cs2,
         NEW mark, NEW P,
         NEW m, SharedTo(m, st, ps, st2, ps2),
         \A base : Frame(st, ps, cs, co, base) => base[co] <= m,
         \/ Len(st2) <= Len(st)
         \/ Len(st2) = Len(st) + 1 /\ mark = "S" /\ (co # 0 => P \subseteq R2[<<"info", co>>])
  PROVE  Passes(st, ps, cs, co, R, st2, ps2, cs2, co, R2, mark, P)
<1> SUFFICES ASSUME NEW base, NEW base2, Frame(st, ps, cs, co, base), Frame(st2, ps2, cs2, co, base2),
                    NEW j \in 1..co, NEW g \in Nat, Owns(base2, j, g, co, Len(st2))
             PROVE  \/ Owns(base, j, g, co, Len(st))
                    \/ mark = "S" /\ g = Len(st) - co + 1 /\ P \subseteq R2[<<"info", j>>]
  BY DEF Passes
<1>1. \A i \in 0..co : base[i] <= m /\ base2[i] = base[i] /\ base[i] \in Nat
  <2>1. \A i \in 0..co : base[i] <= base[co] /\ base[i] \in Nat
    BY BasesBelow DEF Frame, Bases
  <2>2. \A i \in 0..co : base[i] <= m
    BY <2>1 DEF SharedTo
  <2>3. \A i \in 0..co : base[i] <= m => i <= co /\ base2[i] = base[i]
    BY BasesShared
  <2> QED BY <2>1, <2>2, <2>3
<1>2. CASE j # co
  <2>1. j \in 0..co /\ j + 1 \in 0..co
    BY <1>2
  <2> QED BY <1>1, <1>2, <2>1 DEF Owns
<1>3. CASE j = co
  <2>1. base[j] - j - 1 < g /\ g <= Len(st2) - co
    BY <1>1, <1>3 DEF Owns
  <2>2. CASE g <= Len(st) - co
    BY <1>3, <2>1, <2>2 DEF Owns
  <2>3. CASE Len(st2) = Len(st) + 1 /\ mark = "S" /\ (co # 0 => P \subseteq R2[<<"info", co>>]) /\ g > Len(st) - co
    <3>1. g = Len(st) - co + 1
      BY <2>1, <2>3
    <3>2. P \subseteq R2[<<"info", j>>]
      BY <1>3, <2>3
    <3> QED BY <2>3, <3>1, <3>2
  <2>4. CASE Len(st2) <= Len(st)
    BY <2>1, <2>2, <2>4
  <2> QED BY <2>1, <2>2, <2>3, <2>4
<1> QED BY <1>2, <1>3

(* The innermost open region is gone; what it had stays with the next one or *)
(* has ended.                                                                *)
LEMMA PassesFewer ==
  ASSUME NEW co \in Nat, co # 0, NEW R,
         NEW R2, \A j \in 1..(co - 1) : R[<<"info", j>>] \subseteq R2[<<"info", j>>],
         NEW st, Len(st) \in Nat, NEW ps, NEW cs, NEW st2, Len(st2) \in Nat, NEW ps2, NEW cs2,
         NEW mark, NEW P,
         NEW m, SharedTo(m, st, ps, st2, ps2),
         \A base : Frame(st, ps, cs, co, base) => base[co - 1] <= m /\ Len(st2) = base[co] - 2
  PROVE  Passes(st, ps, cs, co, R, st2, ps2, cs2, co - 1, R2, mark, P)
<1> SUFFICES ASSUME NEW base, NEW base2, Frame(st, ps, cs, co, base), Frame(st2, ps2, cs2, co - 1, base2),
                    NEW j \in 1..(co - 1), NEW g \in Nat, Owns(base2, j, g, co - 1, Len(st2))
             PROVE  Owns(base, j, g, co, Len(st)) /\ j \in 1..co
  BY DEF Passes
<1>1. co - 1 \in Nat /\ Bases(co - 1, base)
  BY BasesFewer DEF Frame
<1>2. \A i \in 0..(co - 1) : base[i] <= m /\ base2[i] = base[i] /\ base[i] \in Nat
  <2>1. \A i \in 0..(co - 1) : base[i] <= base[co - 1] /\ base[i] \in Nat
    BY <1>1, BasesBelow DEF Bases
  <2>2. \A i \in 0..(co - 1) : base[i] <= m /\ i \in 0..co
    BY <1>1, <2>1 DEF SharedTo
  <2>3. \A i \in 0..co : base[i] <= m => i <= co - 1 /\ base2[i] = base[i]
    <3>1. PICK k : k = co - 1
      OBVIOUS
    <3>2. k \in Nat /\ Frame(st2, ps2, cs2, k, base2)
      BY <1>1, <3>1
    <3>3. \A i \in 0..co : base[i] <= m => i <= k /\ base2[i] = base[i]
      BY <3>2, BasesShared
    <3> QED BY <3>1, <3>3
  <2> QED BY <2>1, <2>2, <2>3
<1>3. CASE j # co - 1
  <2>1. j \in 0..(co - 1) /\ j + 1 \in 0..(co - 1)
    BY <1>3
  <2> QED BY <1>2, <1>3, <2>1 DEF Owns
<1>4. CASE j = co - 1
  <2>1. base[j] - j - 1 < g /\ g <= Len(st2) - (co - 1) /\ j \in 0..(co - 1) /\ j # co /\ j + 1 = co
    BY <1>2, <1>4 DEF Owns
  <2>2. Len(st2) = base[j + 1] - 2
    <3>1. Len(st2) = base[co] - 2
      OBVIOUS
    <3> QED BY <2>1, <3>1
  <2>3. g <= base[j + 1] - j - 2
    <3>1. base[co] \in Nat
      BY DEF Frame, Bases
    <3>2. PICK b : b = base[j + 1]
      OBVIOUS
    <3> QED BY <2>1, <2>2, <3>1, <3>2
  <2> QED BY <2>1, <2>3 DEF Owns
<1> QED BY <1>3, <1>4

(* One more open region: it owns the bracket that opens, or none. *)
LEMMA PassesMore ==
  ASSUME NEW co \in Nat, NEW R,
         NEW R2, \A j \in 1..co : R[<<"info", j>>] \subseteq R2[<<"info", j>>],
         NEW st, Len(st) \in Nat, NEW ps, NEW cs, NEW st2, Len(st2) \in Nat, NEW ps2, NEW cs2,
         NEW mark, NEW P,
         SharedTo(Len(st) + 1, st, ps, st2, ps2),
         \A base2 : Frame(st2, ps2, cs2, co + 1, base2) => base2[co + 1] = Len(st) + 2,
         \/ Len(st2) = Len(st) + 1
         \/ Len(st2) = Len(st) + 2 /\ mark = "S" /\ P \subseteq R2[<<"info", co + 1>>]
  PROVE  Passes(st, ps, cs, co, R, st2, ps2, cs2, co + 1, R2, mark, P)
<1> SUFFICES ASSUME NEW base, NEW base2, Frame(st, ps, cs, co, base), Frame(st2, ps2, cs2, co + 1, base2),
                    NEW j \in 1..(co + 1), NEW g \in Nat, Owns(base2, j, g, co + 1, Len(st2))
             PROVE  \/ j \in 1..co /\ Owns(base, j, g, co, Len(st))
                    \/ mark = "S" /\ g = Len(st) - co + 1 /\ P \subseteq R2[<<"info", j>>]
  BY DEF Passes
<1>1. \A i \in 0..co : base2[i] = base[i] /\ base[i] \in Nat
  <2>1. \A i \in 0..co : base[i] <= base[co] /\ base[i] \in Nat
    BY BasesBelow DEF Frame, Bases
  <2>2. \A i \in 0..co : base[i] <= Len(st) + 1
    BY <2>1 DEF Frame, Top
  <2>3. co + 1 \in Nat
    OBVIOUS
  <2>4. \A i \in 0..co : base[i] <= Len(st) + 1 => i <= co + 1 /\ base2[i] = base[i]
    <3>1. PICK k, m : k = co + 1 /\ m = Len(st) + 1
      OBVIOUS
    <3>2. k \in Nat /\ Frame(st2, ps2, cs2, k, base2) /\ SharedTo(m, st, ps, st2, ps2)
      BY <3>1
    <3>3. \A i \in 0..co : base[i] <= m => i <= k /\ base2[i] = base[i]
      BY <3>2, BasesShared
    <3> QED BY <3>1, <3>3
  <2> QED BY <2>1, <2>2, <2>4
<1>2. base2[co + 1] = Len(st) + 2
  OBVIOUS
<1>3. CASE j = co + 1
  BY <1>2, <1>3 DEF Owns
<1>4. CASE j = co
  BY <1>1, <1>2, <1>4 DEF Owns
<1>5. CASE j < co
  <2>1. j \in 0..co /\ j + 1 \in 0..co /\ j \in 1..co /\ j # co + 1 /\ j # co
    BY <1>5
  <2> QED BY <1>1, <2>1 DEF Owns
<1> QED BY <1>3, <1>4, <1>5

(* What the pixels held at the places Q look like, S being all the bright    *)
(* pixels seen: each place holds a connected set that nothing seen touches   *)
(* from outside, but for the two pixels of D, and no pixel is held twice.    *)
Shut(C, S, D) == \A p \in C : \A q \in S : Touch(p, q) => q \in C \/ (p \in D /\ q \in D)

(* Each place holds a connected set, shut in S, and no pixel is held       *)
(* twice.                                                                  *)
Shapes(R, Q, S, D) ==
  /\ S \subseteq Cells
  /\ \A a \in Q : R[a] \subseteq S /\ Whole(R[a]) /\ Shut(R[a], S, D)
  /\ \A a, b \in Q : a # b => R[a] \intersect R[b] = {}

(* Two connected sets that touch are one. *)
LEMMA WholeUnion ==
  ASSUME NEW A \in SUBSET Cells, NEW B \in SUBSET Cells, Whole(A), Whole(B),
         NEW p \in A, NEW q \in B, Touch(p, q)
  PROVE  Whole(A \union B)
<1> SUFFICES ASSUME NEW X \in SUBSET (A \union B), X # {}, Closed(X, A \union B)
             PROVE  X = A \union B
  BY DEF Whole
<1>1. Closed(X \intersect A, A) /\ Closed(X \intersect B, B)
  BY DEF Closed
<1>2. Touch(q, p)
  BY TouchBoth
<1>3. X \intersect A # {} => X \intersect A = A
  BY <1>1 DEF Whole
<1>4. X \intersect B # {} => X \intersect B = B
  BY <1>1 DEF Whole
<1>5. (p \in X => q \in X) /\ (q \in X => p \in X)
  BY <1>2 DEF Closed
<1> QED
  BY <1>3, <1>4, <1>5

(* One pixel is connected. *)
LEMMA WholeOne == \A p : Whole({p})
  BY DEF Whole

(* The same pixels at the same places, or at some of them. *)
LEMMA ShapesSame ==
  ASSUME NEW R, NEW Q, NEW S, NEW D, Shapes(R, Q, S, D), NEW Q2 \in SUBSET Q,
         NEW R2, \A a \in Q2 : R2[a] = R[a]
  PROVE  Shapes(R2, Q2, S, D)
<1>1. \A a \in Q2 : a \in Q /\ R2[a] = R[a]
  OBVIOUS
<1> QED
  BY <1>1 DEF Shapes

(* A list is copied to a place and the first one is forgotten. *)
LEMMA ShapesMoved ==
  ASSUME NEW R, NEW Q, NEW S, NEW D, Shapes(R, Q, S, D), NEW a \in Q, NEW b, b \notin Q,
         NEW Q2, Q2 = (Q \ {a}) \union {b},
         NEW R2, R2[b] = R[a], \A c \in Q \ {a} : R2[c] = R[c]
  PROVE  Shapes(R2, Q2, S, D)
<1>1. \A c \in Q2 : \E d \in Q : R2[c] = R[d] /\ (IF c = b THEN d = a ELSE d = c)
  OBVIOUS
<1>2. \A c \in Q2 : R2[c] \subseteq S /\ Whole(R2[c]) /\ Shut(R2[c], S, D)
  BY <1>1 DEF Shapes
<1>3. \A c, d \in Q2 : c # d => R2[c] \intersect R2[d] = {}
  BY <1>1 DEF Shapes
<1> QED
  BY <1>2, <1>3 DEF Shapes

(* A new list has no pixel yet. *)
LEMMA ShapesOpened ==
  ASSUME NEW R, NEW Q, NEW S, NEW D, Shapes(R, Q, S, D), NEW b, b \notin Q,
         NEW Q2, Q2 = Q \union {b},
         NEW R2, R2[b] = {}, \A c \in Q : R2[c] = R[c]
  PROVE  Shapes(R2, Q2, S, D)
<1>1. Whole({}) /\ Shut({}, S, D)
  BY DEF Whole, Shut
<1> QED
  BY <1>1 DEF Shapes

(* Two lists become one: they touch, or one of them has no pixel yet. *)
LEMMA ShapesUnited ==
  ASSUME NEW R, NEW Q, NEW S, NEW D, Shapes(R, Q, S, D), NEW a \in Q, NEW b \in Q, a # b,
         R[a] = {} \/ \E p \in R[a] : \E q \in R[b] : Touch(p, q),
         NEW Q2, Q2 = Q \ {b},
         NEW R2, R2[a] = R[a] \union R[b], \A c \in Q2 \ {a} : R2[c] = R[c]
  PROVE  Shapes(R2, Q2, S, D)
<1>1. R[a] \in SUBSET Cells /\ R[b] \in SUBSET Cells /\ Whole(R[a]) /\ Whole(R[b])
  BY DEF Shapes
<1>2. Whole(R2[a])
  <2>1. CASE R[a] = {}
    <3>1. R2[a] = R[b]
      BY <2>1
    <3> QED
      BY <1>1, <3>1
  <2>2. CASE \E p \in R[a] : \E q \in R[b] : Touch(p, q)
    BY <1>1, <2>2, WholeUnion
  <2> QED
    BY <2>1, <2>2
<1>3. R2[a] \subseteq S /\ Shut(R2[a], S, D)
  BY DEF Shapes, Shut
<1>4. \A c \in Q2 : c # a => R2[c] = R[c] /\ R2[c] \intersect R2[a] = {} /\ c \in Q
  BY DEF Shapes
<1>5. \A c \in Q2 : R2[c] \subseteq S /\ Whole(R2[c]) /\ Shut(R2[c], S, D)
  BY <1>2, <1>3, <1>4 DEF Shapes
<1>6. \A c, d \in Q2 : c # d => R2[c] \intersect R2[d] = {}
  BY <1>4 DEF Shapes
<1> QED
  BY <1>5, <1>6 DEF Shapes

(* The two pixels turn out to be in one list, or one of them is dark. *)
LEMMA ShapesResolved ==
  ASSUME NEW R, NEW Q, NEW S, NEW D, Shapes(R, Q, S, D),
         NEW a \in Q, D \intersect S \subseteq R[a] \/ \A p, q \in D \intersect S : p = q
  PROVE  Shapes(R, Q, S, {})
<1>1. ASSUME NEW b \in Q PROVE Shut(R[b], S, {})
  <2> SUFFICES ASSUME NEW p \in R[b], NEW q \in S, Touch(p, q) PROVE q \in R[b]
    BY DEF Shut
  <2>1. p \in S /\ (q \in R[b] \/ (p \in D /\ q \in D))
    BY DEF Shapes, Shut
  <2>2. CASE p \in D /\ q \in D
    <3>1. p \in D \intersect S /\ q \in D \intersect S
      BY <2>1, <2>2
    <3>2. CASE \A u, v \in D \intersect S : u = v
      BY <3>1, <3>2
    <3>3. CASE D \intersect S \subseteq R[a]
      <4>1. p \in R[a] /\ q \in R[a]
        BY <3>1, <3>3
      <4>2. a = b
        BY <4>1 DEF Shapes
      <4> QED
        BY <4>1, <4>2
    <3> QED
      BY <3>2, <3>3
  <2> QED
    BY <2>1, <2>2
<1> QED
  BY <1>1 DEF Shapes

(* Nothing is pending: the two pixels could as well be. *)
LEMMA ShapesPending ==
  ASSUME NEW R, NEW Q, NEW S, Shapes(R, Q, S, {}), NEW D
  PROVE  Shapes(R, Q, S, D)
<1>1. \A a \in Q : Shut(R[a], S, D)
  BY DEF Shapes, Shut
<1> QED
  BY <1>1 DEF Shapes

(* A new pixel joins the list of the seen pixels it touches. *)
LEMMA ShapesPixel ==
  ASSUME NEW R, NEW Q, NEW S, Shapes(R, Q, S, {}), NEW a \in Q, NEW p \in Cells, p \notin S,
         NEW R2, R2[a] = R[a] \union {p}, \A c \in Q \ {a} : R2[c] = R[c],
         R[a] = {} \/ \E q \in R[a] : Touch(p, q),
         NEW D, p \in D, \A q \in S : Touch(p, q) => q \in R[a] \/ q \in D
  PROVE  Shapes(R2, Q, S \union {p}, D)
<1>1. R[a] \in SUBSET Cells /\ Whole(R[a]) /\ S \subseteq Cells
  BY DEF Shapes
<1>2. Whole(R2[a])
  <2>1. CASE R[a] = {}
    BY <2>1, WholeOne
  <2>2. CASE \E q \in R[a] : Touch(p, q)
    <3>1. PICK q \in R[a] : Touch(p, q)
      BY <2>2
    <3>2. {p} \in SUBSET Cells /\ Whole({p}) /\ p \in {p} /\ Touch(q, p)
      BY <1>1, <3>1, WholeOne, TouchBoth
    <3> QED
      BY <1>1, <3>1, <3>2, WholeUnion
  <2> QED
    BY <2>1, <2>2
<1>3. \A q \in S : Touch(p, q) <=> Touch(q, p)
  <2> SUFFICES ASSUME NEW q \in S PROVE Touch(p, q) <=> Touch(q, p)
    OBVIOUS
  <2>1. q \in Cells
    BY <1>1
  <2> QED
    BY <2>1, TouchBoth
<1>4. Shut(R2[a], S \union {p}, D)
  BY <1>3 DEF Shapes, Shut
<1>5. ASSUME NEW c \in Q, c # a PROVE Shut(R2[c], S \union {p}, D)
  <2> SUFFICES ASSUME NEW u \in R[c], NEW v \in S \union {p}, Touch(u, v)
               PROVE  v \in R[c] \/ (u \in D /\ v \in D)
    BY <1>5 DEF Shut
  <2>1. u \in S /\ u \notin R[a]
    BY <1>5 DEF Shapes
  <2>2. CASE v = p
    BY <1>3, <2>1, <2>2
  <2>3. CASE v \in S
    BY <2>3 DEF Shapes, Shut
  <2> QED
    BY <2>2, <2>3
<1>6. \A c \in Q : R2[c] \subseteq S \union {p} /\ Whole(R2[c]) /\ Shut(R2[c], S \union {p}, D)
  BY <1>2, <1>4, <1>5 DEF Shapes
<1>7. \A c, d \in Q : c # d => R2[c] \intersect R2[d] = {}
  BY DEF Shapes
<1> QED
  BY <1>1, <1>6, <1>7 DEF Shapes

(* The cells of a list, of the list at a place, and the flag of the latter. *)
CellSet(s, l) == {CellsFrom(s, l.first)[k] : k \in DOMAIN CellsFrom(s, l.first)}

(* The cells of the list at a place, ... *)
CellsOf(s, n, at) == CellSet(s, ListIn(s, n, at))

(* ... and its flag. *)
FlagOf(s, n, at) == ListIn(s, n, at).flag

(* The list at b of t is the one at a of s. *)
SameList(s, t, n, a, b) == CellsOf(t, n, b) = CellsOf(s, n, a) /\ FlagOf(t, n, b) = FlagOf(s, n, a)

(* What the chains hold is what a walk along a list finds. *)
LEMMA CellSetIs ==
  ASSUME NEW s, NEW mem, Chains(s.nextpix, mem), NEW l, l.first \in {None} \union DOMAIN s.nextpix
  PROVE  CellSet(s, l) = mem[l.first]
<1>1. PICK q, c : q = CellsFrom(s, l.first) /\ c = l.first
  OBVIOUS
<1>2. Runs(q, s.nextpix, mem, c)
  BY <1>1, CellsFromRuns
<1>3. DOMAIN q = 1..Len(q) /\ {q[k] : k \in 1..Len(q)} = mem[c]
  BY <1>2, LenProperties DEF Runs
<1>4. CellSet(s, l) = {q[k] : k \in DOMAIN q}
  BY <1>1 DEF CellSet
<1> QED
  BY <1>1, <1>3, <1>4

(* The lists and what their chains hold, for a scan whose cells are accounted. *)
Listed(s, w, n, P, L, mem) == IsLists(L, s, w, n) /\ Sound(s.nextpix, P, L, mem) /\ P \subseteq Names(w)

(* The cells of the list at a place are those its chain holds. *)
LEMMA CellsListed ==
  ASSUME NEW s, NEW w, NEW n, NEW P, NEW L, NEW mem, Listed(s, w, n, P, L, mem)
  PROVE  \A at \in P : /\ L[at] = ListIn(s, n, at) /\ CellsOf(s, n, at) = mem[L[at].first]
                       /\ L[at].first \in {None} \union DOMAIN s.nextpix
<1> SUFFICES ASSUME NEW at \in P
             PROVE  /\ L[at] = ListIn(s, n, at) /\ CellsOf(s, n, at) = mem[L[at].first]
                    /\ L[at].first \in {None} \union DOMAIN s.nextpix
  OBVIOUS
<1>1. L[at] = ListIn(s, n, at) /\ Sound(s.nextpix, P, L, mem)
  BY DEF Listed, IsLists
<1>2. L[at].first \in {None} \union DOMAIN s.nextpix /\ Chains(s.nextpix, mem)
  <2>1. Chains(s.nextpix, mem)
    BY <1>1 DEF Sound
  <2> QED
    BY <1>1, <2>1, ListFields
<1>3. CellSet(s, L[at]) = mem[L[at].first]
  BY <1>2, CellSetIs
<1> QED
  BY <1>1, <1>2, <1>3 DEF CellsOf

(* The chains next2 give the list at a the cells of the one at b besides. *)
Longer(next, next2, P, L, a, b, mem, mem2) ==
  /\ Chains(next2, mem2) /\ DOMAIN next2 = DOMAIN next
  /\ mem2[L[a].first] = mem[L[a].first] \union mem[L[b].first]
  /\ \A at \in P \ {a} : mem2[L[at].first] = mem[L[at].first]

(* Linking one list to another adds cells to it and to no other list. *)
LEMMA CellsLinked ==
  ASSUME NEW next, NEW P, NEW L, NEW mem, Sound(next, P, L, mem),
         NEW a \in P, NEW b \in P, a # b, L[a].first # None, L[b].first # None,
         NEW next2, Linked(next2, next, L[a], L[b])
  PROVE  \E mem2 : Longer(next, next2, P, L, a, b, mem, mem2)
<1>1. PICK e, f, g : e = L[a].last /\ f = L[a].first /\ g = L[b].first
  OBVIOUS
<1>2. /\ f \in DOMAIN next /\ e \in mem[f] /\ next[e] = None /\ e \in DOMAIN next
      /\ g \in DOMAIN next
  BY <1>1, ListFields DEF IsChain
<1>3. mem[f] \intersect mem[g] = {} /\ Chains(next, mem)
  BY <1>1 DEF Sound
<1>4. e \notin mem[g]
  BY <1>2, <1>3
<1>5. PICK mem2 : \A c \in DOMAIN next \union {None} : mem2[c] = IF e \in mem[c] THEN mem[c] \union mem[g] ELSE mem[c]
  <2> WITNESS [c \in DOMAIN next \union {None} |-> IF e \in mem[c] THEN mem[c] \union mem[g] ELSE mem[c]]
  <2> QED OBVIOUS
<1>6. next2 = [next EXCEPT ![e] = g] /\ DOMAIN next2 = DOMAIN next
  BY <1>1 DEF Linked
<1>7. Chains(next2, mem2)
  <2>1. next2 = [next EXCEPT ![e] = g]
    BY <1>6
  <2>2. Gathers(mem2, next, mem, e, g)
    BY <1>5 DEF Gathers
  <2> QED BY ONLY <1>2, <1>3, <1>4, <2>1, <2>2, ChainJoin
<1>8. mem2[f] = mem[f] \union mem[g]
  BY <1>2, <1>5
<1>9. ASSUME NEW at \in P \ {a} PROVE mem2[L[at].first] = mem[L[at].first]
  <2>1. mem[f] \intersect mem[L[at].first] = {}
    BY <1>1 DEF Sound
  <2>2. L[at].first \in DOMAIN next \union {None}
    BY ListFields
  <2> QED
    BY <1>2, <1>5, <2>1, <2>2
<1>10. Longer(next, next2, P, L, a, b, mem, mem2)
  BY <1>1, <1>6, <1>7, <1>8, <1>9 DEF Longer
<1> QED
  BY ONLY <1>10

(* Nothing is changed that a list depends on. *)
LEMMA ListsKept ==
  ASSUME NEW s, NEW t, NEW n, NEW a, NEW b, t.nextpix = s.nextpix,
         ListIn(t, n, b) = ListIn(s, n, a)
  PROVE  SameList(s, t, n, a, b)
<1>1. \A c : CellsFrom(t, c) = CellsFrom(s, c)
  BY DEF CellsFrom
<1> QED
  BY <1>1 DEF SameList, CellsOf, CellSet, FlagOf

(* Nothing is different where nothing changed. *)
LEMMA ListsSame ==
  ASSUME NEW s, NEW t, SameCells(s, t), NEW n, NEW a
  PROVE  SameList(s, t, n, a, a)
<1>1. ListIn(t, n, a) = ListIn(s, n, a) /\ t.nextpix = s.nextpix
  BY DEF SameCells, Holds, ListIn, ListAt, FreeList
<1> QED
  BY <1>1, ListsKept

(* A list is written at one place: the others stay. *)
LEMMA ListsWritten ==
  ASSUME NEW s, NEW w \in Nat, NEW n \in Nat \ {0}, HasArrays(s, w),
         NEW t, NEW b, NEW value, Writes(s, t, w, b, value), t.free = s.free
  PROVE  /\ ListIn(t, n, b) = value
         /\ \A at \in Names(w) \ {b} : ListIn(t, n, at) = ListIn(s, n, at)
<1>1. PICK L, L2 : IsLists(L, s, w, n) /\ IsLists(L2, t, w, n)
  BY ListsExist
<1>2. Rewritten(L, L2, s, t, w, n, b, value)
  BY <1>1, WrittenPlaces
<1>3. b \in Names(w) /\ L2[b] = value /\ \A at \in Names(w) \ {b} : L2[at] = L[at]
  BY <1>2 DEF Rewritten
<1> QED
  BY <1>1, <1>3 DEF IsLists

(* update(): the list at a takes the cells of the list at b. *)
LEMMA ListsUpdated ==
  ASSUME NEW s, NEW w \in Nat, NEW n \in Nat \ {0}, NEW P, NEW B, Accounts(s, w, n, P, B),
         NEW a \in P \ {Free}, NEW b \in P \ {Free}, a # b,
         NEW la, la = ListIn(s, n, a), NEW lb, lb = ListIn(s, n, b),
         NEW value, value = Joined(la, lb),
         NEW t, Writes(s, t, w, a, value), t.free = s.free,
         la.first # None /\ lb.last # None => Linked(t.nextpix, s.nextpix, la, lb),
         ~(la.first # None /\ lb.last # None) => t.nextpix = s.nextpix
  PROVE  /\ CellsOf(t, n, a) = CellsOf(s, n, a) \union CellsOf(s, n, b)
         /\ FlagOf(t, n, a) = (FlagOf(s, n, a) \/ FlagOf(s, n, b))
         /\ \A at \in P \ {a, b, Free} : SameList(s, t, n, at, at)
<1>1. PICK L, mem : Listed(s, w, n, P, L, mem)
  BY DEF Accounts, Listed
<1>2. HasArrays(s, w) /\ P \subseteq Names(w)
  BY DEF Accounts, HasArrays
<1>3. ListIn(t, n, a) = value /\ \A at \in Names(w) \ {a} : ListIn(t, n, at) = ListIn(s, n, at)
  BY <1>2, ListsWritten
<1>4. /\ la = L[a] /\ lb = L[b] /\ CellsOf(s, n, a) = mem[la.first] /\ CellsOf(s, n, b) = mem[lb.first]
      /\ la.first \in {None} \union DOMAIN s.nextpix /\ lb.first \in {None} \union DOMAIN s.nextpix
  BY <1>1, CellsListed
<1>5. /\ (la.first = None <=> la = Blank) /\ (lb.first = None <=> lb = Blank)
      /\ (lb.last = None <=> lb = Blank)
  <2>1. Sound(s.nextpix, P, L, mem) /\ a \in P /\ b \in P
    BY <1>1 DEF Listed
  <2> QED
    BY <1>4, <2>1, ListFields
<1>6. value.flag = (la.flag \/ lb.flag) /\ value.first = IF la.first = None THEN lb.first ELSE la.first
  BY JoinedFields
<1>7. FlagOf(t, n, a) = (FlagOf(s, n, a) \/ FlagOf(s, n, b))
  BY <1>3, <1>6 DEF FlagOf
<1>8. ASSUME NEW mem2, Chains(t.nextpix, mem2), DOMAIN t.nextpix = DOMAIN s.nextpix,
             mem2[value.first] = mem[la.first] \union mem[lb.first],
             \A at \in P \ {a, b, Free} : mem2[L[at].first] = mem[L[at].first]
      PROVE  /\ CellsOf(t, n, a) = CellsOf(s, n, a) \union CellsOf(s, n, b)
             /\ \A at \in P \ {a, b, Free} : SameList(s, t, n, at, at)
  <2>1. CellSet(t, value) = mem2[value.first]
    BY <1>4, <1>6, <1>8, CellSetIs
  <2>2. CellsOf(t, n, a) = CellsOf(s, n, a) \union CellsOf(s, n, b)
    BY <1>3, <1>4, <1>8, <2>1 DEF CellsOf
  <2>3. ASSUME NEW at \in P \ {a, b, Free} PROVE SameList(s, t, n, at, at)
    <3>1. /\ L[at] = ListIn(s, n, at) /\ CellsOf(s, n, at) = mem[L[at].first]
          /\ L[at].first \in {None} \union DOMAIN t.nextpix
      BY <1>1, <1>8, CellsListed
    <3>2. CellSet(t, L[at]) = mem2[L[at].first]
      BY <1>8, <3>1, CellSetIs
    <3>3. ListIn(t, n, at) = ListIn(s, n, at)
      BY <1>2, <1>3
    <3> QED
      BY <1>8, <3>1, <3>2, <3>3 DEF SameList, CellsOf, FlagOf
  <2> QED
    BY <2>2, <2>3
<1>9. CASE la.first # None /\ lb.last # None
  <2>1. PICK next, next2 : next = s.nextpix /\ next2 = t.nextpix
    OBVIOUS
  <2>2. /\ Sound(next, P, L, mem) /\ Linked(next2, next, L[a], L[b]) /\ a \in P /\ b \in P /\ a # b
        /\ L[a].first # None /\ L[b].first # None
    BY <1>1, <1>4, <1>5, <1>9, <2>1 DEF Listed
  <2>3. PICK mem2 : Longer(next, next2, P, L, a, b, mem, mem2)
    BY ONLY <2>2, CellsLinked
  <2>4. value.first = la.first
    BY <1>6, <1>9
  <2>5. /\ Chains(t.nextpix, mem2) /\ DOMAIN t.nextpix = DOMAIN s.nextpix
        /\ mem2[value.first] = mem[la.first] \union mem[lb.first]
        /\ \A at \in P \ {a, b, Free} : mem2[L[at].first] = mem[L[at].first]
    BY <1>4, <2>1, <2>3, <2>4 DEF Longer
  <2>6. /\ CellsOf(t, n, a) = CellsOf(s, n, a) \union CellsOf(s, n, b)
        /\ \A at \in P \ {a, b, Free} : SameList(s, t, n, at, at)
    BY <1>8, <2>5
  <2> QED
    BY <1>7, <2>6
<1>10. CASE ~(la.first # None /\ lb.last # None)
  <2>1. t.nextpix = s.nextpix /\ Chains(s.nextpix, mem) /\ mem[None] = {}
    BY <1>1, <1>10 DEF Listed, Sound, Chains
  <2>2. mem[value.first] = mem[la.first] \union mem[lb.first]
    BY <1>5, <1>6, <1>10, <2>1
  <2> QED
    BY <1>7, <1>8, <2>1, <2>2
<1> QED
  BY <1>9, <1>10

(* "Free the chain-list": the other lists keep their cells. *)
LEMMA ListsFreed ==
  ASSUME NEW s, NEW w \in Nat, NEW n \in Nat \ {0}, NEW P, NEW B, Accounts(s, w, n, P, B),
         NEW a \in P \ {Free}, a \notin B, NEW la, la = ListIn(s, n, a),
         NEW next, next = [s.nextpix EXCEPT ![la.last] = s.free],
         NEW t, Holds(s, t, s.info, s.store, next, la.first, s.curpix)
  PROVE  \A at \in P \ {a, Free} : SameList(s, t, n, at, at)
<1>1. PICK L, mem : Listed(s, w, n, P, L, mem)
  BY DEF Accounts, Listed
<1>2. PICK next0 : next0 = s.nextpix
  OBVIOUS
<1>3. Sound(next0, P, L, mem) /\ a \in P /\ Free \in P /\ a # Free
  BY <1>1, <1>2 DEF Listed, Accounts
<1>4. L[a] = la /\ L[Free] = FreeList(s, n)
  BY <1>1, <1>3, CellsListed, FreeFields
<1>5. L[a].first # None /\ L[Free].first # None
  <2>1. L[a] # Blank /\ L[Free] # Blank
    BY <1>3, <1>4, FreeFields DEF Accounts
  <2> QED
    BY <1>3, <2>1, ListFields
<1>6. Linked(next, next0, L[a], L[Free])
  BY <1>2, <1>4, FreeFields DEF Linked
<1>7. PICK mem2 : /\ Chains(next, mem2) /\ DOMAIN next = DOMAIN next0
                  /\ \A at \in P \ {a} : mem2[L[at].first] = mem[L[at].first]
  <2>1. \E mem2 : Longer(next0, next, P, L, a, Free, mem, mem2)
    BY ONLY <1>3, <1>5, <1>6, CellsLinked
  <2> QED
    BY <2>1 DEF Longer
<1> SUFFICES ASSUME NEW at \in P \ {a, Free} PROVE SameList(s, t, n, at, at)
  OBVIOUS
<1>8. /\ L[at] = ListIn(s, n, at) /\ CellsOf(s, n, at) = mem[L[at].first]
      /\ L[at].first \in {None} \union DOMAIN s.nextpix
  BY <1>1, CellsListed
<1>9. t.nextpix = next /\ ListIn(t, n, at) = ListIn(s, n, at)
  BY DEF Holds, ListIn, ListAt
<1>10. CellSet(t, L[at]) = mem2[L[at].first]
  BY <1>2, <1>7, <1>8, <1>9, CellSetIs
<1> QED
  BY <1>7, <1>8, <1>9, <1>10 DEF SameList, CellsOf, FlagOf

(* The first free cell is taken: it was in no list. *)
LEMMA ListsTaken ==
  ASSUME NEW s, NEW w \in Nat, NEW n \in Nat \ {0}, NEW P, NEW B,
         Accounts(s, w, n, P, B), Cur \notin P,
         NEW next, next = [s.nextpix EXCEPT ![s.free] = None],
         NEW cur, cur.first = s.free,
         NEW t, Holds(s, t, s.info, s.store, next, s.nextpix[s.free], cur)
  PROVE  /\ CellsOf(t, n, Cur) = {s.free} /\ FlagOf(t, n, Cur) = cur.flag
         /\ \A at \in P \ {Free} : SameList(s, t, n, at, at) /\ s.free \notin CellsOf(s, n, at)
         /\ s.free \in DOMAIN s.nextpix
<1>1. PICK L, mem : Listed(s, w, n, P, L, mem)
  BY DEF Accounts, Listed
<1>2. PICK cn, next0 : cn = s.free /\ next0 = s.nextpix
  OBVIOUS
<1>3. Sound(next0, P, L, mem) /\ Free \in P /\ Chains(next0, mem)
  BY <1>1, <1>2 DEF Listed, Accounts, Sound
<1>4. L[Free] = FreeList(s, n) /\ L[Free].first = cn /\ L[Free] # Blank
  BY <1>1, <1>2, <1>3, CellsListed, FreeFields
<1>5. cn \in DOMAIN next0 /\ cn \in mem[cn] /\ mem[cn] = {cn} \union mem[next0[cn]] /\ cn \notin mem[next0[cn]]
  BY <1>3, <1>4 DEF Sound, IsChain, Chains
<1>6. PICK mem2 : \A c \in DOMAIN next0 \union {None} : mem2[c] = IF cn \in mem[c] THEN mem[c] \ mem[next0[cn]] ELSE mem[c]
  <2> WITNESS [c \in DOMAIN next0 \union {None} |-> IF cn \in mem[c] THEN mem[c] \ mem[next0[cn]] ELSE mem[c]]
  <2> QED OBVIOUS
<1>7. next = [next0 EXCEPT ![cn] = None] /\ CutsOff(mem2, next0, mem, cn)
  BY <1>2, <1>6 DEF CutsOff
<1>8. Chains(next, mem2)
  BY ONLY <1>3, <1>5, <1>7, ChainCut
<1>9. t.nextpix = next /\ t.curpix = cur /\ DOMAIN next = DOMAIN next0
  BY <1>7 DEF Holds
<1>10. mem2[cn] = {cn}
  BY <1>5, <1>6
<1>11. CellsOf(t, n, Cur) = {s.free} /\ FlagOf(t, n, Cur) = cur.flag
  <2>1. ListIn(t, n, Cur) = cur
    BY <1>9, PlainPlaces DEF ListIn
  <2>2. CellSet(t, cur) = mem2[cur.first]
    <3>1. Chains(t.nextpix, mem2) /\ cur.first \in {None} \union DOMAIN t.nextpix
      BY <1>2, <1>5, <1>8, <1>9
    <3> QED BY ONLY <3>1, CellSetIs
  <2> QED
    BY <1>2, <1>10, <2>1, <2>2 DEF CellsOf, FlagOf
<1>12. ASSUME NEW at \in P \ {Free} PROVE SameList(s, t, n, at, at) /\ s.free \notin CellsOf(s, n, at)
  <2>1. /\ L[at] = ListIn(s, n, at) /\ CellsOf(s, n, at) = mem[L[at].first]
        /\ L[at].first \in {None} \union DOMAIN s.nextpix
    BY <1>1, CellsListed
  <2>2. mem[L[at].first] \intersect mem[cn] = {}
    BY <1>3, <1>4 DEF Sound
  <2>3. cn \notin mem[L[at].first] /\ mem2[L[at].first] = mem[L[at].first]
    BY <1>2, <1>5, <1>6, <2>1, <2>2
  <2>4. ListIn(t, n, at) = ListIn(s, n, at)
    BY PlainPlaces DEF Holds, ListIn, ListAt
  <2>5. CellSet(t, L[at]) = mem2[L[at].first]
    <3>1. L[at].first \in {None} \union DOMAIN t.nextpix /\ Chains(t.nextpix, mem2)
      BY <1>2, <1>8, <1>9, <2>1
    <3> QED
      BY <3>1, CellSetIs
  <2> QED
    BY <1>2, <2>1, <2>3, <2>4, <2>5 DEF SameList, CellsOf, FlagOf
<1> QED
  BY <1>2, <1>5, <1>11, <1>12

(* The lists of the places P hold the pixels R, each pixel in one cell, and  *)
(* a list is flagged when one of its pixels is in O, the border.             *)
Depicts(s, n, O, P, R) ==
  /\ \A at \in P : /\ R[at] = {s.pix[c] : c \in CellsOf(s, n, at)}
                   /\ FlagOf(s, n, at) = (R[at] \intersect O # {})
  /\ \A a, b \in P : \A c \in CellsOf(s, n, a) : \A d \in CellsOf(s, n, b) : s.pix[c] = s.pix[d] => c = d

(* The same lists at the same places, or at some of them. *)
LEMMA DepictsSame ==
  ASSUME NEW s, NEW t, NEW n, NEW O, NEW P, NEW R, Depicts(s, n, O, P, R), t.pix = s.pix,
         NEW P2 \in SUBSET P, \A at \in P2 : SameList(s, t, n, at, at),
         NEW R2, \A at \in P2 : R2[at] = R[at]
  PROVE  Depicts(t, n, O, P2, R2)
<1>1. \A at \in P2 : CellsOf(t, n, at) = CellsOf(s, n, at) /\ FlagOf(t, n, at) = FlagOf(s, n, at)
  BY DEF SameList
<1>2. \A at \in P2 : R2[at] = {t.pix[c] : c \in CellsOf(t, n, at)}
  BY <1>1 DEF Depicts
<1>3. \A at \in P2 : FlagOf(t, n, at) = (R2[at] \intersect O # {})
  BY <1>1 DEF Depicts
<1>4. \A a, b \in P2 : \A c \in CellsOf(t, n, a) : \A d \in CellsOf(t, n, b) : t.pix[c] = t.pix[d] => c = d
  BY <1>1 DEF Depicts
<1> QED
  BY <1>2, <1>3, <1>4 DEF Depicts

(* A list is copied to a place and the first one is forgotten. *)
LEMMA DepictsMoved ==
  ASSUME NEW s, NEW t, NEW n, NEW O, NEW P, NEW R, Depicts(s, n, O, P, R), t.pix = s.pix,
         NEW a \in P, NEW b, b \notin P, NEW P2, P2 = (P \ {a}) \union {b},
         SameList(s, t, n, a, b), \A at \in P \ {a} : SameList(s, t, n, at, at),
         NEW R2, R2[b] = R[a], \A at \in P \ {a} : R2[at] = R[at]
  PROVE  Depicts(t, n, O, P2, R2)
<1>1. \A at \in P2 : \E d \in P : /\ CellsOf(t, n, at) = CellsOf(s, n, d) /\ FlagOf(t, n, at) = FlagOf(s, n, d)
                                  /\ R2[at] = R[d]
  BY DEF SameList
<1>2. \A at \in P2 : R2[at] = {t.pix[c] : c \in CellsOf(t, n, at)}
  BY <1>1 DEF Depicts
<1>3. \A at \in P2 : FlagOf(t, n, at) = (R2[at] \intersect O # {})
  BY <1>1 DEF Depicts
<1>4. \A u, v \in P2 : \A c \in CellsOf(t, n, u) : \A d \in CellsOf(t, n, v) : t.pix[c] = t.pix[d] => c = d
  BY <1>1 DEF Depicts
<1> QED
  BY <1>2, <1>3, <1>4 DEF Depicts

(* The list at b is blank. *)
NoCells(t, n, b) == CellsOf(t, n, b) = {} /\ FlagOf(t, n, b) = FALSE

(* A blank list holds no pixel. *)
LEMMA DepictsOpened ==
  ASSUME NEW s, NEW t, NEW n, NEW O, NEW P, NEW R, Depicts(s, n, O, P, R), t.pix = s.pix,
         NEW b, b \notin P, NEW P2, P2 = P \union {b},
         NoCells(t, n, b), \A at \in P : SameList(s, t, n, at, at),
         NEW R2, R2[b] = {}, \A at \in P : R2[at] = R[at]
  PROVE  Depicts(t, n, O, P2, R2)
<1>0. CellsOf(t, n, b) = {} /\ FlagOf(t, n, b) = FALSE
  BY DEF NoCells
<1>1. \A at \in P : CellsOf(t, n, at) = CellsOf(s, n, at) /\ FlagOf(t, n, at) = FlagOf(s, n, at)
  BY DEF SameList
<1>2. \A at \in P2 : R2[at] = {t.pix[c] : c \in CellsOf(t, n, at)}
  BY <1>0, <1>1 DEF Depicts
<1>3. ASSUME NEW at \in P2 PROVE FlagOf(t, n, at) = (R2[at] \intersect O # {})
  <2>1. CASE at = b
    <3>1. (R2[at] \intersect O # {}) = FALSE
      BY <2>1
    <3> QED
      BY <1>0, <2>1, <3>1
  <2>2. CASE at # b
    BY <1>1, <2>2 DEF Depicts
  <2> QED
    BY <2>1, <2>2
<1>4. \A u, v \in P2 : \A c \in CellsOf(t, n, u) : \A d \in CellsOf(t, n, v) : t.pix[c] = t.pix[d] => c = d
  BY <1>0, <1>1 DEF Depicts
<1> QED
  BY <1>2, <1>3, <1>4 DEF Depicts

(* The list at a has taken the cells of the one at b. *)
LEMMA DepictsUnited ==
  ASSUME NEW s, NEW t, NEW n, NEW O, NEW P, NEW R, Depicts(s, n, O, P, R), t.pix = s.pix,
         NEW a \in P, NEW b \in P, a # b, NEW P2, P2 = P \ {b},
         CellsOf(t, n, a) = CellsOf(s, n, a) \union CellsOf(s, n, b),
         FlagOf(t, n, a) = (FlagOf(s, n, a) \/ FlagOf(s, n, b)),
         \A at \in P \ {a, b} : SameList(s, t, n, at, at),
         NEW R2, R2[a] = R[a] \union R[b], \A at \in P \ {a, b} : R2[at] = R[at]
  PROVE  Depicts(t, n, O, P2, R2)
<1>1. \A at \in P \ {a, b} : CellsOf(t, n, at) = CellsOf(s, n, at) /\ FlagOf(t, n, at) = FlagOf(s, n, at)
  BY DEF SameList
<1>2. ASSUME NEW at \in P2 PROVE R2[at] = {t.pix[c] : c \in CellsOf(t, n, at)}
  <2>1. CASE at = a
    <3>1. R[a] = {s.pix[c] : c \in CellsOf(s, n, a)} /\ R[b] = {s.pix[c] : c \in CellsOf(s, n, b)}
      BY DEF Depicts
    <3> QED
      BY <2>1, <3>1
  <2>2. CASE at # a
    BY <1>1, <2>2 DEF Depicts
  <2> QED
    BY <2>1, <2>2
<1>3. ASSUME NEW at \in P2 PROVE FlagOf(t, n, at) = (R2[at] \intersect O # {})
  <2>1. CASE at = a
    <3>1. FlagOf(s, n, a) = (R[a] \intersect O # {}) /\ FlagOf(s, n, b) = (R[b] \intersect O # {})
      BY DEF Depicts
    <3>2. (R2[a] \intersect O # {}) = ((R[a] \intersect O # {}) \/ (R[b] \intersect O # {}))
      OBVIOUS
    <3> QED
      BY <2>1, <3>1, <3>2
  <2>2. CASE at # a
    BY <1>1, <2>2 DEF Depicts
  <2> QED
    BY <2>1, <2>2
<1>4. ASSUME NEW u \in P2, NEW v \in P2, NEW c \in CellsOf(t, n, u), NEW d \in CellsOf(t, n, v), t.pix[c] = t.pix[d]
      PROVE  c = d
  <2>1. \E e \in P : c \in CellsOf(s, n, e)
    BY <1>1
  <2>2. \E f \in P : d \in CellsOf(s, n, f)
    BY <1>1
  <2> QED
    BY <1>4, <2>1, <2>2 DEF Depicts
<1> QED
  BY <1>2, <1>3, <1>4 DEF Depicts

(* A cell no list has is filled with a pixel that no list has. *)
Fills(s, t, n, f, p, b, O) ==
  /\ t.pix[f] = p /\ \A c \in DOMAIN s.pix : c # f => t.pix[c] = s.pix[c]
  /\ CellsOf(t, n, b) = {f} /\ FlagOf(t, n, b) = (p \in O)

(* The lists at P keep their cells, among which f is not. *)
Untouched(s, t, n, P, f, p, R) ==
  \A at \in P : /\ SameList(s, t, n, at, at) /\ f \notin CellsOf(s, n, at) /\ p \notin R[at]
               /\ CellsOf(s, n, at) \subseteq DOMAIN s.pix

(* A list of one cell holds one pixel. *)
LEMMA DepictsTaken ==
  ASSUME NEW s, NEW t, NEW n, NEW O, NEW P, NEW R, Depicts(s, n, O, P, R),
         NEW f, NEW p, NEW b, Fills(s, t, n, f, p, b, O), Untouched(s, t, n, P, f, p, R),
         b \notin P, NEW P2, P2 = P \union {b},
         NEW R2, R2[b] = {p}, \A at \in P : R2[at] = R[at]
  PROVE  Depicts(t, n, O, P2, R2)
<1> USE DEF Fills, Untouched
<1>1. \A at \in P : CellsOf(t, n, at) = CellsOf(s, n, at) /\ FlagOf(t, n, at) = FlagOf(s, n, at)
  BY DEF SameList
<1>2. t.pix[f] = p /\ \A c \in DOMAIN s.pix : c # f => t.pix[c] = s.pix[c]
  OBVIOUS
<1>3. ASSUME NEW at \in P
      PROVE  /\ \A c \in CellsOf(s, n, at) : t.pix[c] = s.pix[c] /\ t.pix[c] # p
             /\ R2[at] = {t.pix[c] : c \in CellsOf(s, n, at)} /\ R2[at] = R[at]
  <2>1. R[at] = {s.pix[c] : c \in CellsOf(s, n, at)} /\ p \notin R[at]
    BY DEF Depicts
  <2>2. \A c \in CellsOf(s, n, at) : t.pix[c] = s.pix[c]
    BY <1>2
  <2> QED
    BY <2>1, <2>2
<1>4. ASSUME NEW at \in P2 PROVE R2[at] = {t.pix[c] : c \in CellsOf(t, n, at)}
  <2>1. CASE at = b
    BY <1>2, <2>1
  <2>2. CASE at # b
    BY <1>1, <1>3, <2>2
  <2> QED
    BY <2>1, <2>2
<1>5. ASSUME NEW at \in P2 PROVE FlagOf(t, n, at) = (R2[at] \intersect O # {})
  <2>1. CASE at = b
    <3>1. (R2[b] \intersect O # {}) = (p \in O)
      OBVIOUS
    <3> QED
      BY <2>1, <3>1
  <2>2. CASE at # b
    BY <1>1, <2>2 DEF Depicts
  <2> QED
    BY <2>1, <2>2
<1>6. ASSUME NEW u \in P2, NEW v \in P2, NEW c \in CellsOf(t, n, u), NEW d \in CellsOf(t, n, v), t.pix[c] = t.pix[d]
      PROVE  c = d
  <2>1. CASE u = b /\ v = b
    BY <2>1
  <2>2. CASE u = b /\ v # b
    BY <1>1, <1>2, <1>3, <1>6, <2>2
  <2>3. CASE u # b /\ v = b
    BY <1>1, <1>2, <1>3, <1>6, <2>3
  <2>4. CASE u # b /\ v # b
    <3>1. c \in CellsOf(s, n, u) /\ d \in CellsOf(s, n, v) /\ s.pix[c] = s.pix[d] /\ u \in P /\ v \in P
      BY <1>1, <1>3, <1>6, <2>4
    <3> QED
      BY <3>1 DEF Depicts
  <2> QED
    BY <2>1, <2>2, <2>3, <2>4
<1> QED
  BY <1>4, <1>5, <1>6 DEF Depicts

(* A place is given another set of pixels. *)
Puts(R, R2, w, a, V) == R2[a] = V /\ \A at \in Names(w) \ {a} : R2[at] = R[at]

(* Any place can be given any pixels. *)
LEMMA PutsExists == \A R, w, a, V : \E R2 : Puts(R, R2, w, a, V)
<1> TAKE R, w, a, V
<1> WITNESS [at \in Names(w) \union {a} |-> IF at = a THEN V ELSE R[at]]
<1> QED
  BY DEF Puts

(* What the scan knows of the regions from both lines: of the columns before *)
(* Z from this line, y, and of those from x on from the line above.          *)
Tells(s, w, T, y, mr, X, Z, x, R) ==
  /\ Sees(T, y, s.marker, s.start, s.end, s.cs, s.co, X, Z, R)
  /\ Recalls(T, y - 1, mr, s.psstack, s.ps, s.cs, s.co, x, w, R)

(* No open region and no waiting one loses a pixel. *)
Holdings(R, R2, w, co) ==
  /\ \A j \in 1..co : R[<<"info", j>>] \subseteq R2[<<"info", j>>]
  /\ \A c \in 0..w : R[<<"store", c>>] \subseteq R2[<<"store", c>>]

(* What is held at the other places is not changed. *)
LEMMA PutsHoldings ==
  ASSUME NEW R, NEW R2, NEW w \in Nat, NEW a, NEW V, Puts(R, R2, w, a, V), NEW co \in 0..w
  PROVE  /\ R[a] \subseteq V => Holdings(R, R2, w, co)
         /\ \A i \in 0..w : <<"info", i>> # a => R2[<<"info", i>>] = R[<<"info", i>>]
         /\ \A c \in 0..w : <<"store", c>> # a => R2[<<"store", c>>] = R[<<"store", c>>]
<1>1. \A i \in 0..w : <<"info", i>> # a => R2[<<"info", i>>] = R[<<"info", i>>]
  <2> SUFFICES ASSUME NEW i \in 0..w, <<"info", i>> # a PROVE R2[<<"info", i>>] = R[<<"info", i>>]
    OBVIOUS
  <2>1. <<"info", i>> \in Names(w) \ {a}
    BY DEF Names
  <2> QED
    BY <2>1 DEF Puts
<1>2. \A c \in 0..w : <<"store", c>> # a => R2[<<"store", c>>] = R[<<"store", c>>]
  <2> SUFFICES ASSUME NEW i \in 0..w, <<"store", i>> # a PROVE R2[<<"store", i>>] = R[<<"store", i>>]
    OBVIOUS
  <2>1. <<"store", i>> \in Names(w) \ {a}
    BY DEF Names
  <2> QED
    BY <2>1 DEF Puts
<1>3. ASSUME R[a] \subseteq V PROVE Holdings(R, R2, w, co)
  <2>1. \A j \in 1..co : j \in 0..w
    OBVIOUS
  <2>2. R2[a] = V
    BY DEF Puts
  <2>3. \A j \in 1..co : R[<<"info", j>>] \subseteq R2[<<"info", j>>]
    BY <1>1, <1>3, <2>1, <2>2
  <2>4. \A c \in 0..w : R[<<"store", c>>] \subseteq R2[<<"store", c>>]
    BY <1>2, <1>3, <2>2
  <2> QED
    BY <2>3, <2>4 DEF Holdings
<1> QED
  BY <1>1, <1>2, <1>3

(* Where the highest base is. *)
LEMMA TopBase ==
  ASSUME NEW st, Len(st) \in Nat, NEW ps, NEW cs, NEW co \in Nat, NEW base,
         Frame(st, ps, cs, co, base)
  PROVE  /\ base[co] \in Nat /\ base[co] <= Len(st) + 1
         /\ ps = "COMPLETE" => base[co] = Len(st) + 1
         /\ ps # "COMPLETE" => base[co] <= Len(st)
         /\ ps # "COMPLETE" /\ Len(st) # 0 /\ Letter(st, ps, Len(st)) = "COMPLETE" => base[co] = Len(st)
         /\ \A j \in 0..co : base[j] \in Nat /\ (j # co => base[j] < base[co])
         /\ co # 0 => co - 1 \in 0..co /\ base[co - 1] < base[co]
         /\ co # 0 /\ co - 1 # 0 => base[co - 1] + 2 <= base[co]
<1>1. Bases(co, base) /\ Top(st, ps, cs, co, base)
  BY DEF Frame
<1>2. base[co] \in Nat /\ \A j \in 0..co : base[j] \in Nat /\ base[j] <= base[co] /\ (j # co => base[j] < base[co])
  BY <1>1, BasesBelow DEF Bases
<1>3. /\ base[co] <= Len(st) + 1
      /\ (ps = "COMPLETE") <=> (base[co] = Len(st) + 1)
  BY <1>1 DEF Top
<1>4. ASSUME ps # "COMPLETE", Len(st) # 0, Letter(st, ps, Len(st)) = "COMPLETE" PROVE base[co] = Len(st)
  <2>1. PICK i : i = Len(st)
    OBVIOUS
  <2>2. i \in 1..(Len(st) + 1) /\ Letter(st, ps, i) = "COMPLETE"
    BY <1>4, <2>1
  <2>3. IsBase(i, co, base)
    BY <2>2, BaseAt
  <2>4. PICK j \in 0..co : base[j] = i
    BY <2>3 DEF IsBase
  <2> QED
    BY <1>2, <1>3, <1>4, <2>1, <2>4
<1>5. co # 0 => co - 1 \in 0..co /\ base[co - 1] < base[co]
  <2> SUFFICES ASSUME co # 0 PROVE co - 1 \in 0..co /\ base[co - 1] < base[co]
    OBVIOUS
  <2>1. PICK k : k = co - 1
    OBVIOUS
  <2>2. k \in 0..co /\ k # co
    BY <2>1
  <2> QED
    BY <1>2, <2>1, <2>2
<1>6. co # 0 /\ co - 1 # 0 => base[co - 1] + 2 <= base[co]
  <2> SUFFICES ASSUME co # 0, co - 1 # 0 PROVE base[co - 1] + 2 <= base[co]
    OBVIOUS
  <2>1. PICK k : k = co - 1
    OBVIOUS
  <2>2. k \in 1..co /\ co \in 1..co /\ k < co
    BY <2>1
  <2> QED
    BY <1>1, <2>1, <2>2 DEF Bases
<1> QED
  BY <1>2, <1>3, <1>4, <1>5, <1>6

(* Nothing changes but what is held. *)
LEMMA TellsMore ==
  ASSUME NEW w \in Nat, NEW s, Inside(s, w), NEW T, NEW y, NEW mr, NEW X \in 0..(w + 1),
         NEW Z \in 0..X, NEW x \in 0..(w + 1), NEW R,
         Tells(s, w, T, y, mr, X, Z, x, R), Known(s, X), NEW t, Same(s, t), NEW R2,
         Holdings(R, R2, w, s.co)
  PROVE  Tells(t, w, T, y, mr, X, Z, x, R2)
<1>1. PICK m, start, end, st, ps, cs, co : Becomes(s, s, m, start, end, st, co, ps, cs)
  BY DEF Becomes
<1>2. /\ s.marker = m /\ s.start = start /\ s.end = end /\ s.psstack = st /\ s.co = co /\ s.ps = ps /\ s.cs = cs
      /\ t.marker = m /\ t.start = start /\ t.end = end /\ t.psstack = st /\ t.co = co /\ t.ps = ps /\ t.cs = cs
  BY <1>1 DEF Same, Becomes
<1>3. co \in Nat /\ Len(st) \in Nat /\ Framed(st, ps, cs, co) /\ Past(m, start, end, cs, co, X)
  BY <1>2, LenProperties DEF Inside, Known, IsStack
<1>4. Sees(T, y, m, start, end, cs, co, X, Z, R) /\ Recalls(T, y - 1, mr, st, ps, cs, co, x, w, R)
  BY <1>2 DEF Tells
<1>5. /\ \A j \in 1..co : R[<<"info", j>>] \subseteq R2[<<"info", j>>]
      /\ \A c \in 0..w : R[<<"store", c>>] \subseteq R2[<<"store", c>>]
  BY <1>2 DEF Holdings
<1>6. Sees(T, y, m, start, end, cs, co, X, Z, R2)
  <2>1. StaysOpen(start, co, R, start, co, R2, Z)
    BY <1>5 DEF StaysOpen
  <2>2. StaysWaiting(m, start, co, R, m, start, co, R2, Z)
    <3>1. \A c \in 0..(Z - 1) : c \in 0..w
      OBVIOUS
    <3> QED
      BY <1>5, <3>1 DEF StaysWaiting
  <2>3. X \in Nat /\ X <= X /\ \A c \in 0..(X - 1) : m[c] = m[c]
    OBVIOUS
  <2> QED
    BY ONLY <1>3, <1>4, <2>1, <2>2, <2>3, Z \in 0..X, SeesMore
<1>7. Recalls(T, y - 1, mr, st, ps, cs, co, x, w, R2)
  <2>1. PICK mm : mm = Len(st) + 1
    OBVIOUS
  <2>2. SharedTo(mm, st, ps, st, ps) /\ Len(st) <= Len(st)
    BY <1>3, <2>1 DEF SharedTo
  <2>3. \A base : Frame(st, ps, cs, co, base) => base[co] <= mm
    BY <1>3, <2>1, TopBase
  <2>4. \A j \in 1..co : R[<<"info", j>>] \subseteq R2[<<"info", j>>]
    BY <1>5
  <2>5. PICK P, none : P = {} /\ none = "none"
    OBVIOUS
  <2>6. Passes(st, ps, cs, co, R, st, ps, cs, co, R2, none, P)
    BY ONLY <1>3, <2>2, <2>3, <2>4, PassesSame
  <2>7. \A c \in x..w : R[<<"store", c>>] \subseteq R2[<<"store", c>>]
    BY <1>5
  <2>8. PICK yy : yy = y - 1
    OBVIOUS
  <2>9. Recalls(T, yy, mr, st, ps, cs, co, x, w, R) /\ Len(st) - co = Len(st) - co /\ InSegment(ps) = InSegment(ps)
    BY <1>4, <2>8
  <2>10. Passes(st, ps, cs, co, R, st, ps, cs, co, R2, "none", P)
    BY <2>5, <2>6
  <2>11. Recalls(T, yy, mr, st, ps, cs, co, x, w, R2)
    BY <1>3, <2>7, <2>9, <2>10, RecallsSame
  <2> QED
    BY <2>8, <2>11
<1> QED
  BY <1>2, <1>6, <1>7 DEF Tells

(* A run begins: the line part does not change before column x. *)
LEMMA SeesStarted ==
  ASSUME NEW T, NEW y, NEW m, NEW start, NEW end, NEW cs, NEW co \in Nat, NEW x \in Nat, NEW R,
         Sees(T, y, m, start, end, cs, co, x, x, R),
         NEW m2, NEW start2, NEW cs2, NEW co2 \in Nat, co <= co2, NEW R2,
         Past(m2, start2, end, cs2, co2, x + 1), \A c \in 0..(x - 1) : m2[c] = m[c],
         \A j \in 1..co2 : \/ j \in 1..co /\ start2[j] = start[j]
                           \/ start2[j] = x /\ (j \in 1..co => start[j] = UNKNOWN),
         \A j \in 1..co : R[<<"info", j>>] \subseteq R2[<<"info", j>>],
         \A c \in 0..(x - 1) : R[<<"store", c>>] \subseteq R2[<<"store", c>>]
  PROVE  Sees(T, y, m2, start2, end, cs2, co2, x + 1, x, R2)
<1>1. StaysOpen(start, co, R, start2, co2, R2, x)
  <2> SUFFICES ASSUME NEW j \in 1..co2, start2[j] # UNKNOWN
               PROVE  \/ start2[j] >= x
                      \/ \E i \in 1..co : start2[j] = start[i] /\ R[<<"info", i>>] \subseteq R2[<<"info", j>>]
    BY DEF StaysOpen
  <2> QED
    OBVIOUS
<1>2. StaysWaiting(m, start, co, R, m2, start2, co2, R2, x)
  <2> SUFFICES ASSUME NEW c \in 0..(x - 1), Waits(c, m2, start2, co2)
               PROVE  Waits(c, m, start, co) /\ R[<<"store", c>>] \subseteq R2[<<"store", c>>]
    BY DEF StaysWaiting
  <2>1. \A i \in 1..co : start[i] # c
    <3> SUFFICES ASSUME NEW i \in 1..co PROVE start[i] # c
      OBVIOUS
    <3>1. i \in 1..co2
      OBVIOUS
    <3>2. start2[i] # c
      BY <3>1 DEF Waits
    <3>3. start[i] = UNKNOWN => start[i] # c
      BY DEF UNKNOWN
    <3> QED
      BY <3>1, <3>2, <3>3
  <2> QED
    BY <2>1 DEF Waits
<1>3. PICK X2 : X2 = x + 1
  OBVIOUS
<1>4. X2 \in Nat /\ x <= X2 /\ x \in 0..x /\ Past(m2, start2, end, cs2, co2, X2)
  BY <1>3
<1>5. Sees(T, y, m2, start2, end, cs2, co2, X2, x, R2)
  BY <1>1, <1>2, <1>4, SeesMore
<1> QED
  BY <1>3, <1>5

(* "Start segment" tells the same of the pixels before it. *)
LEMMA TellsStart ==
  ASSUME NEW w \in Nat, NEW s, Inside(s, w), Known(s, s.x), s.marker[s.x] = "none",
         s.cs # "OBJECT" /\ s.ps # "OBJECT" => s.co < w,
         NEW T, NEW y, NEW mr, NEW R, Tells(s, w, T, y, mr, s.x, s.x, s.x, R), NEW t,
         t = StartSegment(s),
         NEW R2, s.cs # "OBJECT" /\ s.ps # "OBJECT" => Puts(R, R2, w, <<"info", s.co + 1>>, {}),
                 ~(s.cs # "OBJECT" /\ s.ps # "OBJECT") => R2 = R
  PROVE  Tells(t, w, T, y, mr, s.x + 1, s.x, s.x, R2)
<1>1. PICK m, start, end, st, ps, cs, co, x : Becomes(s, s, m, start, end, st, co, ps, cs) /\ x = s.x
  BY DEF Becomes
<1>2. /\ s.marker = m /\ s.start = start /\ s.end = end /\ s.psstack = st /\ s.co = co /\ s.ps = ps /\ s.cs = cs
      /\ s.x = x
  BY <1>1 DEF Becomes
<1>3. /\ x \in 0..w /\ co \in 0..w /\ IsStack(st) /\ Len(st) \in Nat /\ Framed(st, ps, cs, co)
      /\ LineFields \subseteq DOMAIN s /\ DOMAIN m = 0..w /\ DOMAIN start = 0..w /\ ps \in Gap \union {"OBJECT"}
  BY <1>2, LenProperties DEF Inside, HasLine, IsStack
<1>4. Inside(t, w) /\ Known(t, x + 1)
  BY <1>2, StartSegmentKeeps
<1>5. Sees(T, y, m, start, end, cs, co, x, x, R) /\ Recalls(T, y - 1, mr, st, ps, cs, co, x, w, R)
  BY <1>2 DEF Tells
<1>6. PICK m2, start2, st2, ps2, cs2, co2 :
        /\ t.marker = m2 /\ t.start = start2 /\ t.psstack = st2 /\ t.co = co2 /\ t.ps = ps2 /\ t.cs = cs2
  OBVIOUS
<1>7. /\ co2 \in 0..w /\ IsStack(st2) /\ Len(st2) \in Nat /\ Framed(st2, ps2, cs2, co2)
      /\ Past(m2, start2, t.end, cs2, co2, x + 1)
  BY <1>4, <1>6, LenProperties DEF Inside, IsStack, Known
<1>8. /\ cs = "OBJECT" => Same(s, t)
      /\ cs # "OBJECT" /\ ps # "OBJECT" =>
           /\ t.end = end /\ m2 = [m EXCEPT ![x] = "S"] /\ start2 = [start EXCEPT ![co + 1] = x]
           /\ st2 = Append(st, ps) /\ co2 = co + 1 /\ ps2 = "COMPLETE" /\ cs2 = "OBJECT"
      /\ cs # "OBJECT" /\ ps = "OBJECT" =>
           /\ t.end = end /\ st2 = st /\ co2 = co /\ ps2 = ps /\ cs2 = "OBJECT"
           /\ \/ start[co] = UNKNOWN /\ m2 = [m EXCEPT ![x] = "S"] /\ start2 = [start EXCEPT ![co] = x]
              \/ m2 = [m EXCEPT ![x] = "s"] /\ start2 = start
  <2>2. /\ s.cs = "OBJECT" => Same(s, t)
        /\ s.cs # "OBJECT" /\ s.ps # "OBJECT" =>
             Becomes(s, t, [s.marker EXCEPT ![s.x] = "S"], [s.start EXCEPT ![s.co + 1] = s.x], s.end,
                     Append(s.psstack, s.ps), s.co + 1, "COMPLETE", "OBJECT")
        /\ s.cs # "OBJECT" /\ s.ps = "OBJECT" /\ s.start[s.co] = UNKNOWN =>
             Becomes(s, t, [s.marker EXCEPT ![s.x] = "S"], [s.start EXCEPT ![s.co] = s.x], s.end,
                     s.psstack, s.co, s.ps, "OBJECT")
        /\ s.cs # "OBJECT" /\ s.ps = "OBJECT" /\ s.start[s.co] # UNKNOWN =>
             Becomes(s, t, [s.marker EXCEPT ![s.x] = "s"], s.start, s.end,
                     s.psstack, s.co, s.ps, "OBJECT")
    BY <1>3, StartSegmentDoes
  <2>3. ASSUME cs # "OBJECT", ps # "OBJECT"
        PROVE  /\ t.end = end /\ m2 = [m EXCEPT ![x] = "S"] /\ start2 = [start EXCEPT ![co + 1] = x]
               /\ st2 = Append(st, ps) /\ co2 = co + 1 /\ ps2 = "COMPLETE" /\ cs2 = "OBJECT"
    BY <1>2, <1>6, <2>2, <2>3 DEF Becomes
  <2>4. ASSUME cs # "OBJECT", ps = "OBJECT"
        PROVE  /\ t.end = end /\ st2 = st /\ co2 = co /\ ps2 = ps /\ cs2 = "OBJECT"
               /\ \/ start[co] = UNKNOWN /\ m2 = [m EXCEPT ![x] = "S"] /\ start2 = [start EXCEPT ![co] = x]
                  \/ m2 = [m EXCEPT ![x] = "s"] /\ start2 = start
    <3>1. CASE start[co] = UNKNOWN
      BY <1>2, <1>6, <2>2, <2>4, <3>1 DEF Becomes
    <3>2. CASE start[co] # UNKNOWN
      BY <1>2, <1>6, <2>2, <2>4, <3>2 DEF Becomes
    <3> QED
      BY <3>1, <3>2
  <2> QED
    BY <1>2, <2>2, <2>3, <2>4
<1>9. CASE cs = "OBJECT"
  <2>1. m2 = m /\ start2 = start /\ t.end = end /\ st2 = st /\ co2 = co /\ ps2 = ps /\ cs2 = cs /\ R2 = R
    BY <1>2, <1>6, <1>8, <1>9 DEF Same, Becomes
  <2>2. Sees(T, y, m, start, end, cs, co, x + 1, x, R)
    <3>1. \A j \in 1..co : j \in 1..co /\ start[j] = start[j]
      OBVIOUS
    <3>2. co \in Nat /\ x \in Nat /\ co <= co
      BY <1>3
    <3>3. Past(m, start, end, cs, co, x + 1) /\ \A c \in 0..(x - 1) : m[c] = m[c]
      BY <1>7, <2>1
    <3>4. /\ \A j \in 1..co : R[<<"info", j>>] \subseteq R[<<"info", j>>]
          /\ \A c \in 0..(x - 1) : R[<<"store", c>>] \subseteq R[<<"store", c>>]
      OBVIOUS
    <3> QED
      BY <1>5, <3>1, <3>2, <3>3, <3>4, SeesStarted
  <2> QED
    BY <1>2, <1>5, <1>6, <2>1, <2>2 DEF Tells
<1>10. CASE cs # "OBJECT" /\ ps # "OBJECT"
  <2>1. /\ t.end = end /\ m2 = [m EXCEPT ![x] = "S"] /\ start2 = [start EXCEPT ![co + 1] = x]
        /\ st2 = Append(st, ps) /\ co2 = co + 1 /\ ps2 = "COMPLETE" /\ cs2 = "OBJECT" /\ co < w
        /\ Puts(R, R2, w, <<"info", co + 1>>, {})
    BY <1>2, <1>8, <1>10
  <2>2. /\ \A j \in 1..co : R[<<"info", j>>] \subseteq R2[<<"info", j>>]
        /\ \A c \in 0..w : R[<<"store", c>>] \subseteq R2[<<"store", c>>]
    <3>1. \A j \in 1..co : j \in 0..w /\ <<"info", j>> # <<"info", co + 1>>
      BY <1>3
    <3>2. \A c : <<"store", c>> # <<"info", co + 1>>
      OBVIOUS
    <3>3. PICK a, V : a = <<"info", co + 1>> /\ V = {}
      OBVIOUS
    <3>4. /\ \A i \in 0..w : <<"info", i>> # a => R2[<<"info", i>>] = R[<<"info", i>>]
          /\ \A c \in 0..w : <<"store", c>> # a => R2[<<"store", c>>] = R[<<"store", c>>]
      BY <1>3, <2>1, <3>3, PutsHoldings
    <3> QED
      BY <3>1, <3>2, <3>3, <3>4
  <2>3. \A j \in 1..co2 : \/ j \in 1..co /\ start2[j] = start[j]
                          \/ start2[j] = x /\ (j \in 1..co => start[j] = UNKNOWN)
    BY <1>3, <2>1
  <2>4. Sees(T, y, m2, start2, end, cs2, co2, x + 1, x, R2)
    <3>1. co \in Nat /\ x \in Nat /\ co2 \in Nat /\ co <= co2 /\ Past(m2, start2, end, cs2, co2, x + 1)
      BY <1>3, <1>7, <2>1
    <3>2. \A c \in 0..(x - 1) : m2[c] = m[c] /\ R[<<"store", c>>] \subseteq R2[<<"store", c>>]
      BY <1>3, <2>1, <2>2
    <3>3. PICK X2, o : X2 = x + 1 /\ o = "OBJECT"
      OBVIOUS
    <3>4. /\ Past(m2, start2, end, cs2, co2, x + 1)
          /\ \A c \in 0..(x - 1) : m2[c] = m[c]
          /\ \A c \in 0..(x - 1) : R[<<"store", c>>] \subseteq R2[<<"store", c>>]
          /\ \A j \in 1..co : R[<<"info", j>>] \subseteq R2[<<"info", j>>]
      BY <2>2, <3>1, <3>2
    <3> QED
      BY ONLY <1>5, <2>3, <3>1, <3>4, SeesStarted
  <2>5. Recalls(T, y - 1, mr, st2, ps2, cs2, co2, x, w, R2)
    <3>1. PICK yy, P, none : yy = y - 1 /\ P = {} /\ none = "none"
      OBVIOUS
    <3>2. /\ Len(st2) = Len(st) + 1 /\ st2[Len(st) + 1] = ps /\ \A i \in 1..Len(st) : st2[i] = st[i]
      <4>1. st \in Seq(Gap)
        BY <1>3 DEF IsStack
      <4> QED
        BY <2>1, <4>1, AppendProperties
    <3>3. SharedTo(Len(st) + 1, st, ps, st2, ps2)
      BY <1>3, <3>2 DEF SharedTo, Letter
    <3>4. \A base2 : Frame(st2, ps2, cs2, co2, base2) => base2[co2] = Len(st) + 2
      <4> SUFFICES ASSUME NEW base2, Frame(st2, ps2, cs2, co2, base2) PROVE base2[co2] = Len(st) + 2
        OBVIOUS
      <4>1. co2 \in Nat /\ ps2 = "COMPLETE"
        BY <1>3, <2>1
      <4>2. base2[co2] = Len(st2) + 1
        BY <1>7, <4>1, TopBase
      <4> QED
        BY <1>3, <3>2, <4>2
    <3>5. \A base2 : Frame(st2, ps2, cs2, co + 1, base2) => base2[co + 1] = Len(st) + 2
      BY <2>1, <3>4
    <3>6. Passes(st, ps, cs, co, R, st2, ps2, cs2, co + 1, R2, none, P)
      <4>1. co \in Nat /\ (\A j \in 1..co : R[<<"info", j>>] \subseteq R2[<<"info", j>>]) /\ Len(st2) = Len(st) + 1
        BY <1>3, <2>2, <3>2
      <4> QED
        BY <1>3, <1>7, <3>3, <3>5, <4>1, PassesMore
    <3>7. /\ Len(st2) - co2 = Len(st) - co /\ InSegment(ps2) = InSegment(ps)
      BY <1>3, <1>10, <2>1, <3>2 DEF InSegment
    <3>8. \A c \in x..w : R[<<"store", c>>] \subseteq R2[<<"store", c>>]
      BY <1>3, <2>2
    <3>9. Passes(st, ps, cs, co, R, st2, ps2, cs2, co2, R2, "none", P)
      BY <2>1, <3>1, <3>6
    <3>10. Recalls(T, yy, mr, st, ps, cs, co, x, w, R) /\ x \in 0..(w + 1) /\ co \in Nat /\ co2 \in Nat
      BY <1>3, <1>5, <1>7, <3>1
    <3>11. Recalls(T, yy, mr, st2, ps2, cs2, co2, x, w, R2)
      BY <1>3, <1>7, <3>7, <3>8, <3>9, <3>10, RecallsSame
    <3> QED
      BY <3>1, <3>11
  <2> QED
    BY <1>2, <1>6, <2>1, <2>4, <2>5 DEF Tells
<1>11. CASE cs # "OBJECT" /\ ps = "OBJECT"
  <2>1. /\ t.end = end /\ st2 = st /\ co2 = co /\ ps2 = ps /\ cs2 = "OBJECT" /\ R2 = R
        /\ \/ start[co] = UNKNOWN /\ m2 = [m EXCEPT ![x] = "S"] /\ start2 = [start EXCEPT ![co] = x]
           \/ m2 = [m EXCEPT ![x] = "s"] /\ start2 = start
    BY <1>2, <1>8, <1>11
  <2>2. \A j \in 1..co2 : \/ j \in 1..co /\ start2[j] = start[j]
                          \/ start2[j] = x /\ (j \in 1..co => start[j] = UNKNOWN)
    BY <1>3, <2>1
  <2>3. Sees(T, y, m2, start2, end, cs2, co2, x + 1, x, R2)
    <3>1. co \in Nat /\ x \in Nat /\ co2 \in Nat /\ co <= co2 /\ Past(m2, start2, end, cs2, co2, x + 1)
      BY <1>3, <1>7, <2>1
    <3>2. \A c \in 0..(x - 1) : m2[c] = m[c] /\ R[<<"store", c>>] \subseteq R2[<<"store", c>>]
      BY <1>3, <2>1
    <3>3. \A j \in 1..co : R[<<"info", j>>] \subseteq R2[<<"info", j>>]
      BY <2>1
    <3>4. /\ \A c \in 0..(x - 1) : m2[c] = m[c]
          /\ \A c \in 0..(x - 1) : R[<<"store", c>>] \subseteq R2[<<"store", c>>]
      BY <3>2
    <3> QED
      BY ONLY <1>5, <2>2, <3>1, <3>3, <3>4, SeesStarted
  <2>4. Recalls(T, y - 1, mr, st2, ps2, cs2, co2, x, w, R2)
    <3>1. PICK yy, P, none, mm : yy = y - 1 /\ P = {} /\ none = "none" /\ mm = Len(st)
      OBVIOUS
    <3>2. SharedTo(mm, st, ps, st2, ps2)
      BY <1>3, <2>1, <3>1 DEF SharedTo, Letter
    <3>3. \A base : Frame(st, ps, cs, co, base) => base[co] <= mm
      <4> SUFFICES ASSUME NEW base, Frame(st, ps, cs, co, base) PROVE base[co] <= mm
        OBVIOUS
      <4>1. ps # "COMPLETE" /\ co \in Nat
        BY <1>3, <1>11
      <4> QED
        BY <1>3, <3>1, <4>1, TopBase
    <3>4. Passes(st, ps, cs, co, R, st2, ps2, cs2, co, R2, none, P)
      <4>1. /\ co \in Nat /\ (\A j \in 1..co : R[<<"info", j>>] \subseteq R2[<<"info", j>>]) /\ Len(st2) <= Len(st)
        BY <1>3, <2>1
      <4> QED
        BY <1>3, <1>7, <3>2, <3>3, <4>1, PassesSame
    <3>5. Passes(st, ps, cs, co, R, st2, ps2, cs2, co2, R2, "none", P)
      BY <2>1, <3>1, <3>4
    <3>6. /\ Recalls(T, yy, mr, st, ps, cs, co, x, w, R) /\ x \in 0..(w + 1) /\ co \in Nat /\ co2 \in Nat
          /\ Len(st2) - co2 = Len(st) - co /\ InSegment(ps2) = InSegment(ps)
          /\ \A c \in x..w : R[<<"store", c>>] \subseteq R2[<<"store", c>>]
      BY <1>3, <1>5, <1>7, <2>1, <3>1
    <3>7. Recalls(T, yy, mr, st2, ps2, cs2, co2, x, w, R2)
      BY <1>3, <1>7, <3>5, <3>6, RecallsSame
    <3> QED
      BY <3>1, <3>7
  <2> QED
    BY <1>2, <1>6, <2>1, <2>3, <2>4 DEF Tells
<1>12. (cs # "OBJECT" /\ ps # "OBJECT") \/ (cs # "OBJECT" /\ ps = "OBJECT") \/ cs = "OBJECT"
  OBVIOUS
<1> QED
  BY <1>9, <1>10, <1>11, <1>12

(* The column a scan has come to holds nothing that was seen. *)
LEMMA TellsCleared ==
  ASSUME NEW w \in Nat, NEW s, Inside(s, w), Known(s, s.x), NEW x, x = s.x, NEW T, NEW y, NEW mr,
         NEW R,
         Tells(s, w, T, y, mr, x, x, x, R), NEW t, t = Cleared(s)
  PROVE  Tells(t, w, T, y, mr, x, x, x, R)
<1>1. PICK m, start, end, st, ps, cs, co : Becomes(s, s, m, start, end, st, co, ps, cs)
  BY DEF Becomes
<1>2. /\ s.marker = m /\ s.start = start /\ s.end = end /\ s.psstack = st /\ s.co = co /\ s.ps = ps /\ s.cs = cs
  BY <1>1 DEF Becomes
<1>3. /\ x \in 0..w /\ co \in Nat /\ LineFields \subseteq DOMAIN s /\ DOMAIN m = 0..w
  BY <1>2 DEF Inside, HasLine
<1>4. PICK m2 : m2 = [m EXCEPT ![x] = "none"]
  OBVIOUS
<1>5. /\ t.marker = m2 /\ t.start = start /\ t.end = end /\ t.psstack = st /\ t.co = co /\ t.ps = ps /\ t.cs = cs
  BY <1>2, <1>3, <1>4 DEF Cleared, LineFields
<1>6. \A c \in 0..(x - 1) : m2[c] = m[c]
  BY <1>3, <1>4
<1>7. Past(m, start, end, cs, co, x) /\ Sees(T, y, m, start, end, cs, co, x, x, R)
  BY <1>2 DEF Known, Tells
<1>8. Past(m2, start, end, cs, co, x) /\ x \in Nat /\ x <= x /\ x \in 0..x
  BY <1>3, <1>6, <1>7, PastSame
<1>9. StaysOpen(start, co, R, start, co, R, x)
  BY DEF StaysOpen
<1>10. StaysWaiting(m, start, co, R, m2, start, co, R, x)
  BY <1>6 DEF StaysWaiting, Waits
<1>11. Sees(T, y, m2, start, end, cs, co, x, x, R)
  BY ONLY <1>3, <1>6, <1>7, <1>8, <1>9, <1>10, SeesMore
<1> QED
  BY <1>2, <1>5, <1>11 DEF Tells

(* What is seen of this line stays, whatever is pushed on as unknown. *)
LEMMA SeesPushed ==
  ASSUME NEW T, NEW y, NEW m, NEW start, NEW end, NEW cs, NEW co \in Nat, NEW X \in Nat,
         NEW Z \in 0..X,
         NEW R, Sees(T, y, m, start, end, cs, co, X, Z, R), NEW co2 \in Nat,
         co2 \in {co, co + 1}, NEW start2,
         \A j \in 1..co : start2[j] = start[j], co2 = co + 1 => start2[co2] = UNKNOWN,
         Past(m, start2, end, cs, co2, X),
         NEW R2, \A j \in 1..co : R[<<"info", j>>] \subseteq R2[<<"info", j>>],
         \A c \in 0..(Z - 1) : R[<<"store", c>>] \subseteq R2[<<"store", c>>]
  PROVE  Sees(T, y, m, start2, end, cs, co2, X, Z, R2)
<1>1. StaysOpen(start, co, R, start2, co2, R2, Z)
  <2> SUFFICES ASSUME NEW j \in 1..co2, start2[j] # UNKNOWN
               PROVE  \E i \in 1..co : start2[j] = start[i] /\ R[<<"info", i>>] \subseteq R2[<<"info", j>>]
    BY DEF StaysOpen
  <2>1. j \in 1..co
    OBVIOUS
  <2> QED
    BY <2>1
<1>2. StaysWaiting(m, start, co, R, m, start2, co2, R2, Z)
  <2> SUFFICES ASSUME NEW c \in 0..(Z - 1), Waits(c, m, start2, co2)
               PROVE  Waits(c, m, start, co) /\ R[<<"store", c>>] \subseteq R2[<<"store", c>>]
    BY DEF StaysWaiting
  <2>1. \A i \in 1..co : start[i] # c
    <3> SUFFICES ASSUME NEW i \in 1..co PROVE start[i] # c
      OBVIOUS
    <3>1. i \in 1..co2
      OBVIOUS
    <3> QED
      BY <3>1 DEF Waits
  <2> QED
    BY <2>1 DEF Waits
<1>3. X <= X /\ \A c \in 0..(X - 1) : m[c] = m[c]
  OBVIOUS
<1> QED
  BY <1>1, <1>2, <1>3, SeesMore

(* A letter is pushed onto the word. *)
LEMMA WordAppended ==
  ASSUME NEW st, IsStack(st), NEW ps \in Gap, NEW st2, st2 = Append(st, ps)
  PROVE  /\ IsStack(st2) /\ Len(st) \in Nat /\ Len(st2) \in Nat /\ Len(st2) = Len(st) + 1
         /\ \A i \in 1..(Len(st) + 1) : Letter(st2, "OBJECT", i) = Letter(st, ps, i)
<1>1. st \in Seq(Gap)
  BY DEF IsStack
<1>2. /\ st2 \in Seq(Gap) /\ Len(st2) = Len(st) + 1 /\ Len(st) \in Nat
      /\ st2[Len(st) + 1] = ps /\ \A i \in 1..Len(st) : st2[i] = st[i]
  BY <1>1
<1> QED
  BY <1>2 DEF Letter, IsStack

(* Two letters are pushed. *)
Twice(st2, st, a, b) == st2 = Append(Append(st, a), b)

(* Two letters are pushed onto the word. *)
LEMMA WordAppendedTwice ==
  ASSUME NEW st, IsStack(st), NEW ps \in Gap, NEW ps3 \in Gap, NEW st2, Twice(st2, st, ps, ps3)
  PROVE  /\ IsStack(st2) /\ Len(st) \in Nat /\ Len(st2) \in Nat /\ Len(st2) = Len(st) + 2
         /\ \A i \in 1..(Len(st) + 1) : Letter(st2, "OBJECT", i) = Letter(st, ps, i)
         /\ Letter(st2, "OBJECT", Len(st2)) = ps3
<1>1. PICK st1 : st1 = Append(st, ps)
  OBVIOUS
<1>2. /\ st1 \in Seq(Gap) /\ Len(st1) = Len(st) + 1 /\ Len(st) \in Nat
      /\ st1[Len(st) + 1] = ps /\ \A i \in 1..Len(st) : st1[i] = st[i]
  BY <1>1 DEF IsStack
<1>3. st2 = Append(st1, ps3)
  BY <1>1 DEF Twice
<1>4. /\ st2 \in Seq(Gap) /\ Len(st2) = Len(st1) + 1 /\ st2[Len(st1) + 1] = ps3 /\ \A i \in 1..Len(st1) : st2[i] = st1[i]
  BY <1>2, <1>3
<1>5. \A i \in 1..(Len(st) + 1) : Letter(st2, "OBJECT", i) = Letter(st, ps, i)
  <2> SUFFICES ASSUME NEW i \in 1..(Len(st) + 1) PROVE Letter(st2, "OBJECT", i) = Letter(st, ps, i)
    OBVIOUS
  <2>1. i \in 1..Len(st1) /\ i <= Len(st2) /\ st2[i] = st1[i]
    BY <1>2, <1>4
  <2>2. CASE i = Len(st) + 1
    BY <1>2, <2>1, <2>2 DEF Letter
  <2>3. CASE i # Len(st) + 1
    <3>1. i \in 1..Len(st) /\ i <= Len(st)
      BY <1>2, <2>3
    <3>2. st1[i] = st[i]
      BY <1>2, <3>1
    <3> QED
      BY <2>1, <3>1, <3>2 DEF Letter
  <2> QED
    BY <2>2, <2>3
<1> QED
  BY <1>2, <1>4, <1>5 DEF Letter, IsStack

(* Of a line part that says of the bases what both words share. *)
LEMMA SharedLetters ==
  ASSUME NEW st, Len(st) \in Nat, NEW ps, NEW st2, Len(st2) \in Nat, NEW ps2, NEW m \in Nat,
         m <= Len(st) + 1,
         m <= Len(st2) + 1, \A i \in 1..m : Letter(st2, ps2, i) = Letter(st, ps, i)
  PROVE  SharedTo(m, st, ps, st2, ps2)
BY DEF SharedTo

(* MarkerS: what waited at the column is open from here on. *)
LEMMA RecallsBegun ==
  ASSUME NEW T, NEW y, NEW mr, NEW w \in Nat, NEW x \in 0..w, NEW R, NEW R2, mr[x] = "S",
         NEW st, IsStack(st), NEW ps \in Gap, NEW cs, NEW co \in Nat,
         Recalls(T, y, mr, st, ps, cs, co, x, w, R),
         NEW st2, NEW co2 \in Nat, Framed(st2, "OBJECT", cs, co2),
         Turn(mr[x], Len(st) - co, InSegment(ps), Len(st2) - co2, InSegment("OBJECT")),
         \A j \in 1..co : R[<<"info", j>>] \subseteq R2[<<"info", j>>],
         \A c \in (x + 1)..w : R[<<"store", c>>] \subseteq R2[<<"store", c>>],
         \/ /\ st2 = Append(Append(st, ps), "COMPLETE") /\ co2 = co + 1
            /\ R[<<"store", x>>] \subseteq R2[<<"info", co + 1>>]
         \/ /\ st2 = Append(st, ps) /\ co2 = co
            /\ co # 0 => R[<<"store", x>>] \subseteq R2[<<"info", co>>]
  PROVE  Recalls(T, y, mr, st2, "OBJECT", cs, co2, x + 1, w, R2)
<1>1. PICK o, mark, P, len : o = "OBJECT" /\ mark = "S" /\ P = R[<<"store", x>>] /\ len = Len(st) + 1
  OBVIOUS
<1>2. /\ Len(st) \in Nat /\ Len(st2) \in Nat /\ o # "COMPLETE" /\ len \in Nat
  <2>1. "COMPLETE" \in Gap
    BY DEF Gap
  <2> QED
    BY <1>1, <2>1, WordAppended, WordAppendedTwice DEF Twice
<1>3. Passes(st, ps, cs, co, R, st2, o, cs, co2, R2, mark, P)
  <2>1. CASE st2 = Append(Append(st, ps), "COMPLETE") /\ co2 = co + 1 /\ R[<<"store", x>>] \subseteq R2[<<"info", co + 1>>]
    <3>1. "COMPLETE" \in Gap
      BY DEF Gap
    <3>2. /\ Len(st2) = Len(st) + 2 /\ \A i \in 1..(Len(st) + 1) : Letter(st2, "OBJECT", i) = Letter(st, ps, i)
          /\ Letter(st2, "OBJECT", Len(st2)) = "COMPLETE"
      <4>1. PICK ps3 : ps3 \in Gap /\ ps3 = "COMPLETE"
        BY <3>1
      <4>2. Twice(st2, st, ps, ps3)
        BY <2>1, <4>1 DEF Twice
      <4>3. /\ Len(st2) = Len(st) + 2 /\ \A i \in 1..(Len(st) + 1) : Letter(st2, "OBJECT", i) = Letter(st, ps, i)
            /\ Letter(st2, "OBJECT", Len(st2)) = ps3
        BY ONLY <4>1, <4>2, IsStack(st), ps \in Gap, WordAppendedTwice
      <4> QED
        BY <4>1, <4>3
    <3>3. SharedTo(Len(st) + 1, st, ps, st2, o)
      BY <1>1, <1>2, <3>2, SharedLetters
    <3>4. \A base2 : Frame(st2, o, cs, co + 1, base2) => base2[co + 1] = Len(st) + 2
      <4> SUFFICES ASSUME NEW base2, Frame(st2, o, cs, co2, base2) PROVE base2[co2] = Len(st) + 2
        BY <2>1
      <4>1. base2[co2] = Len(st2)
        <5>1. Len(st2) # 0 /\ Letter(st2, o, Len(st2)) = "COMPLETE"
          BY <1>1, <1>2, <3>2
        <5> QED
          BY ONLY <1>2, <5>1, co2 \in Nat, Frame(st2, o, cs, co2, base2), TopBase
      <4> QED
        BY <3>2, <4>1
    <3>5. mark = "S" /\ P \subseteq R2[<<"info", co + 1>>]
      BY <1>1, <2>1
    <3>6. Passes(st, ps, cs, co, R, st2, o, cs, co + 1, R2, mark, P)
      BY <1>2, <3>2, <3>3, <3>4, <3>5, PassesMore
    <3> QED
      BY <2>1, <3>6
  <2>2. CASE st2 = Append(st, ps) /\ co2 = co /\ (co # 0 => R[<<"store", x>>] \subseteq R2[<<"info", co>>])
    <3>1. /\ Len(st2) = Len(st) + 1 /\ \A i \in 1..(Len(st) + 1) : Letter(st2, "OBJECT", i) = Letter(st, ps, i)
      BY ONLY <2>2, IsStack(st), ps \in Gap, WordAppended, ZenonT(60)
    <3>2. SharedTo(len, st, ps, st2, o)
      BY <1>1, <1>2, <3>1, SharedLetters
    <3>3. \A base : Frame(st, ps, cs, co, base) => base[co] <= len
      BY <1>1, <1>2, TopBase
    <3>4. mark = "S" /\ (co # 0 => P \subseteq R2[<<"info", co>>])
      BY <1>1, <2>2
    <3>5. Passes(st, ps, cs, co, R, st2, o, cs, co, R2, mark, P)
      BY <1>2, <3>1, <3>2, <3>3, <3>4, PassesSame
    <3> QED
      BY <2>2, <3>5
  <2> QED
    BY <2>1, <2>2
<1>4. Passes(st, ps, cs, co, R, st2, o, cs, co2, R2, mr[x], R[<<"store", x>>])
  BY <1>1, <1>3
<1>5. Framed(st2, o, cs, co2) /\ Turn(mr[x], Len(st) - co, InSegment(ps), Len(st2) - co2, InSegment(o))
  BY <1>1
<1>6. Recalls(T, y, mr, st2, o, cs, co2, x + 1, w, R2)
  BY <1>2, <1>4, <1>5, RecallsStep
<1> QED
  BY <1>1, <1>6

(* What is held at an open region is V, ... *)
PutsInfo(R, R2, w, k, V) == Puts(R, R2, w, <<"info", k>>, V)

(* ... or what is held at the column where one waits. *)
PutsStore(R, R2, w, k, V) == Puts(R, R2, w, <<"store", k>>, V)

(* What is put at one open region leaves the others and what waits. *)
LEMMA PutsOpen ==
  ASSUME NEW R, NEW R2, NEW w \in Nat, NEW k \in 0..w, NEW V, PutsInfo(R, R2, w, k, V)
  PROVE  /\ \A j \in 0..w : j # k => R2[<<"info", j>>] = R[<<"info", j>>]
         /\ \A c \in 0..w : R2[<<"store", c>>] = R[<<"store", c>>]
         /\ R2[<<"info", k>>] = V
<1>1. PICK a : a = <<"info", k>>
  OBVIOUS
<1>2. Puts(R, R2, w, a, V)
  BY <1>1 DEF PutsInfo
<1>3. /\ \A i \in 0..w : <<"info", i>> # a => R2[<<"info", i>>] = R[<<"info", i>>]
      /\ \A c \in 0..w : <<"store", c>> # a => R2[<<"store", c>>] = R[<<"store", c>>]
  BY <1>2, PutsHoldings
<1>4. R2[a] = V
  BY <1>2 DEF Puts
<1>5. (\A j : j # k => <<"info", j>> # a) /\ \A c : <<"store", c>> # a
  BY <1>1
<1> QED
  BY <1>1, <1>3, <1>4, <1>5

(* MarkerS keeps what is told of both lines: the region that waited at the *)
(* column, or the one that goes on, has the pixels of the new bracket.     *)
LEMMA TellsMarkerS ==
  ASSUME NEW w \in Nat, NEW s, Inside(s, w), NEW X \in 0..(w + 1), NEW Z \in 0..X, Known(s, X),
         NEW x, x = s.x,
         NEW mr, mr[x] = "S", NEW g2, NEW a2, Turn("S", Depth(s), Under(s), g2, a2),
         s.cs # "OBJECT" /\ s.ps # "OBJECT" => s.co < w,
         NEW T, NEW y, NEW R, Tells(s, w, T, y, mr, X, Z, x, R), NEW t, t = MarkerS(s),
         NEW R2, s.cs = "NONOBJECT" => PutsInfo(R, R2, w, s.co + 1, R[<<"store", x>>]),
                 s.cs # "NONOBJECT" => PutsInfo(R, R2, w, s.co, R[<<"info", s.co>>] \union R[<<"store", x>>])
  PROVE  Tells(t, w, T, y, mr, X, Z, x + 1, R2)
<1>1. PICK m, start, end, st, ps, cs, co : Becomes(s, s, m, start, end, st, co, ps, cs)
  BY DEF Becomes
<1>2. /\ s.marker = m /\ s.start = start /\ s.end = end /\ s.psstack = st /\ s.co = co /\ s.ps = ps /\ s.cs = cs
  BY <1>1 DEF Becomes
<1>3. /\ x \in 0..w /\ co \in 0..w /\ co \in Nat /\ IsStack(st) /\ Len(st) \in Nat /\ Framed(st, ps, cs, co)
      /\ LineFields \subseteq DOMAIN s /\ DOMAIN start = 0..w /\ cs \in {"OBJECT", "NONOBJECT"}
  BY <1>2, LenProperties DEF Inside, HasLine, IsStack
<1>4. ps \in Gap
  <2>1. Under(s) = 0
    BY DEF Turn
  <2> QED
    BY <1>2, <2>1 DEF Under, Inside
<1>5. ps # "OBJECT"
  BY <1>4 DEF Gap
<1>6. Follows(s, t, w, X, g2, a2)
  BY MarkerSKeeps
<1>7. PICK start2, st2, co2 : t.start = start2 /\ t.psstack = st2 /\ t.co = co2
  OBVIOUS
<1>8. /\ s.cs = "NONOBJECT" =>
           Becomes(s, t, s.marker, [s.start EXCEPT ![s.co + 1] = UNKNOWN], s.end,
                   Append(Append(s.psstack, s.ps), "COMPLETE"), s.co + 1, "OBJECT", s.cs)
      /\ s.cs # "NONOBJECT" =>
           Becomes(s, t, s.marker, s.start, s.end, Append(s.psstack, s.ps), s.co, "OBJECT", s.cs)
  BY <1>3, MarkerSDoes
<1>9. t.marker = m /\ t.end = end /\ t.ps = "OBJECT" /\ t.cs = cs
  BY <1>2, <1>8 DEF Becomes
<1>10. /\ Inside(t, w) /\ co2 \in Nat /\ Framed(st2, "OBJECT", cs, co2) /\ Past(m, start2, end, cs, co2, X)
       /\ Turn(mr[x], Len(st) - co, InSegment(ps), Len(st2) - co2, InSegment("OBJECT"))
  <2>1. Inside(t, w) /\ Known(t, X) /\ Depth(t) = g2 /\ Under(t) = a2
    BY <1>6 DEF Follows
  <2>2. Depth(s) = Len(st) - co /\ Under(s) = InSegment(ps) /\ Depth(t) = Len(st2) - co2 /\ Under(t) = InSegment("OBJECT")
    BY <1>2, <1>7, <1>9 DEF Depth, Under, InSegment
  <2>3. co2 \in Nat /\ Framed(st2, "OBJECT", cs, co2)
    BY <1>7, <1>9, <2>1 DEF Inside
  <2>4. Past(m, start2, end, cs, co2, X)
    BY <1>7, <1>9, <2>1 DEF Known
  <2> QED
    BY <2>1, <2>2, <2>3, <2>4
<1>11. Sees(T, y, m, start, end, cs, co, X, Z, R) /\ Recalls(T, y - 1, mr, st, ps, cs, co, x, w, R)
  BY <1>2 DEF Tells
<1>12. PICK yy : yy = y - 1
  OBVIOUS
<1>13. CASE cs = "NONOBJECT"
  <2>1. /\ start2 = [start EXCEPT ![co + 1] = UNKNOWN] /\ st2 = Append(Append(st, ps), "COMPLETE") /\ co2 = co + 1
        /\ PutsInfo(R, R2, w, co + 1, R[<<"store", x>>])
    BY <1>2, <1>7, <1>8, <1>13 DEF Becomes
  <2>2. co + 1 \in 0..w /\ co2 \in {co, co + 1}
    BY <1>2, <1>3, <1>5, <1>13, <2>1
  <2>3. /\ \A j \in 0..w : j # co + 1 => R2[<<"info", j>>] = R[<<"info", j>>]
        /\ \A c \in 0..w : R2[<<"store", c>>] = R[<<"store", c>>]
        /\ R2[<<"info", co + 1>>] = R[<<"store", x>>]
    <3>1. PICK k, V : k = co + 1 /\ V = R[<<"store", x>>]
      OBVIOUS
    <3>2. k \in 0..w /\ PutsInfo(R, R2, w, k, V)
      BY <2>1, <2>2, <3>1
    <3>3. /\ \A j \in 0..w : j # k => R2[<<"info", j>>] = R[<<"info", j>>]
          /\ \A c \in 0..w : R2[<<"store", c>>] = R[<<"store", c>>]
          /\ R2[<<"info", k>>] = V
      BY ONLY w \in Nat, <3>2, PutsOpen
    <3> QED
      BY <3>1, <3>3
  <2>4. /\ \A j \in 1..co : start2[j] = start[j]
        /\ co2 = co + 1 => start2[co2] = UNKNOWN
        /\ \A j \in 1..co : R[<<"info", j>>] \subseteq R2[<<"info", j>>]
        /\ \A c \in 0..(Z - 1) : R[<<"store", c>>] \subseteq R2[<<"store", c>>]
        /\ \A c \in (x + 1)..w : R[<<"store", c>>] \subseteq R2[<<"store", c>>]
        /\ R[<<"store", x>>] \subseteq R2[<<"info", co + 1>>]
    BY <1>3, <2>1, <2>2, <2>3
  <2>5. Sees(T, y, m, start2, end, cs, co2, X, Z, R2)
    <3>1. co \in Nat /\ X \in Nat
      BY <1>3
    <3> QED
      BY ONLY <1>10, <1>11, <2>2, <2>4, <3>1, Z \in 0..X, SeesPushed
  <2>6. Recalls(T, yy, mr, st2, "OBJECT", cs, co2, x + 1, w, R2)
    BY <1>3, <1>4, <1>10, <1>11, <1>12, <2>1, <2>4, RecallsBegun
  <2> QED
    BY <1>2, <1>7, <1>9, <1>12, <2>5, <2>6 DEF Tells
<1>14. CASE cs # "NONOBJECT"
  <2>1. /\ start2 = start /\ st2 = Append(st, ps) /\ co2 = co
        /\ PutsInfo(R, R2, w, co, R[<<"info", co>>] \union R[<<"store", x>>])
    BY <1>2, <1>7, <1>8, <1>14 DEF Becomes
  <2>2. /\ \A j \in 0..w : j # co => R2[<<"info", j>>] = R[<<"info", j>>]
        /\ \A c \in 0..w : R2[<<"store", c>>] = R[<<"store", c>>]
        /\ R2[<<"info", co>>] = R[<<"info", co>>] \union R[<<"store", x>>]
    <3>1. PICK V : V = R[<<"info", co>>] \union R[<<"store", x>>]
      OBVIOUS
    <3>2. PutsInfo(R, R2, w, co, V)
      BY <2>1, <3>1
    <3>3. /\ \A j \in 0..w : j # co => R2[<<"info", j>>] = R[<<"info", j>>]
          /\ \A c \in 0..w : R2[<<"store", c>>] = R[<<"store", c>>]
          /\ R2[<<"info", co>>] = V
      BY ONLY w \in Nat, <1>3, <3>2, PutsOpen
    <3> QED
      BY <3>1, <3>3
  <2>3. /\ \A j \in 1..co : start2[j] = start[j]
        /\ co2 = co + 1 => start2[co2] = UNKNOWN
        /\ \A j \in 1..co : R[<<"info", j>>] \subseteq R2[<<"info", j>>]
        /\ \A c \in 0..(Z - 1) : R[<<"store", c>>] \subseteq R2[<<"store", c>>]
        /\ \A c \in (x + 1)..w : R[<<"store", c>>] \subseteq R2[<<"store", c>>]
        /\ co # 0 => R[<<"store", x>>] \subseteq R2[<<"info", co>>]
    <3>1. \A j \in 1..co : R[<<"info", j>>] \subseteq R2[<<"info", j>>]
      <4> SUFFICES ASSUME NEW j \in 1..co PROVE R[<<"info", j>>] \subseteq R2[<<"info", j>>]
        OBVIOUS
      <4>1. CASE j = co
        BY <2>2, <4>1
      <4>2. CASE j # co
        BY <1>3, <2>2, <4>2
      <4> QED
        BY <4>1, <4>2
    <3>2. /\ \A c \in 0..(Z - 1) : R[<<"store", c>>] \subseteq R2[<<"store", c>>]
          /\ \A c \in (x + 1)..w : R[<<"store", c>>] \subseteq R2[<<"store", c>>]
      BY <1>3, <2>2
    <3>3. co2 # co + 1
      BY <1>3, <2>1
    <3> QED
      BY <2>1, <2>2, <3>1, <3>2, <3>3
  <2>4. co2 \in {co, co + 1}
    BY <2>1
  <2>5. Sees(T, y, m, start2, end, cs, co2, X, Z, R2)
    <3>1. co \in Nat /\ X \in Nat
      BY <1>3
    <3> QED
      BY ONLY <1>10, <1>11, <2>3, <2>4, <3>1, Z \in 0..X, SeesPushed
  <2>6. Recalls(T, yy, mr, st2, "OBJECT", cs, co2, x + 1, w, R2)
    BY <1>3, <1>4, <1>10, <1>11, <1>12, <2>1, <2>3, RecallsBegun
  <2> QED
    BY <1>2, <1>7, <1>9, <1>12, <2>5, <2>6 DEF Tells
<1> QED
  BY <1>13, <1>14

(* st2 is st without its last letter. *)
Shorter(st, st2) == /\ Len(st) \in Nat \ {0} /\ Len(st2) \in Nat /\ Len(st2) = Len(st) - 1
                    /\ \A i \in 1..(Len(st) - 1) : st2[i] = st[i]

(* Popping psstack leaves the word without its last letter. *)
LEMMA ShorterIs ==
  ASSUME NEW st, IsStack(st), Len(st) # 0, NEW st2, st2 = SubSeq(st, 1, Len(st) - 1)
  PROVE  IsStack(st2) /\ Shorter(st, st2)
<1>1. st \in Seq(Gap) /\ Len(st) \in Nat \ {0}
  BY LenProperties DEF IsStack
<1>2. IsStack(st2) /\ Len(st2) = Len(st) - 1 /\ \A i \in 1..(Len(st) - 1) : st2[i] = st[i]
  BY <1>1, WordFewer
<1> QED
  BY <1>1, <1>2 DEF Shorter

(* The stack is not touched: all brackets keep their owners. *)
LEMMA PassesKept ==
  ASSUME NEW co \in Nat, NEW R,
         NEW R2, \A j \in 1..co : R[<<"info", j>>] \subseteq R2[<<"info", j>>],
         NEW st, Len(st) \in Nat, NEW ps, NEW cs, NEW ps2, NEW cs2, NEW mark, NEW P,
         ps2 = ps \/ (ps # "COMPLETE" /\ ps2 # "COMPLETE")
  PROVE  Passes(st, ps, cs, co, R, st, ps2, cs2, co, R2, mark, P)
<1>1. PICK len : len = Len(st) + 1
  OBVIOUS
<1>2. SharedTo(len, st, ps, st, ps2)
  BY <1>1 DEF SharedTo, Letter
<1>3. \A base : Frame(st, ps, cs, co, base) => base[co] <= len
  BY <1>1, TopBase
<1>4. Len(st) <= Len(st)
  OBVIOUS
<1> QED
  BY <1>2, <1>3, <1>4, PassesSame

(* A bracket of the line above is closed that is not a base. *)
LEMMA PassesPopped ==
  ASSUME NEW co \in Nat, NEW R,
         NEW R2, \A j \in 1..co : R[<<"info", j>>] \subseteq R2[<<"info", j>>],
         NEW st, NEW st2, Shorter(st, st2), NEW ps, ps # "COMPLETE", NEW cs, NEW ps2,
         ps2 = st[Len(st)],
         NEW cs2, NEW mark, NEW P
  PROVE  Passes(st, ps, cs, co, R, st2, ps2, cs2, co, R2, mark, P)
<1>1. PICK len \in Nat : len = Len(st)
  BY DEF Shorter
<1>2. /\ len # 0 /\ Len(st2) \in Nat /\ Len(st2) = len - 1 /\ \A i \in 1..(len - 1) : st2[i] = st[i]
  BY <1>1 DEF Shorter
<1>3. SharedTo(len, st, ps, st2, ps2)
  <2> SUFFICES ASSUME NEW i \in 1..len PROVE Letter(st2, ps2, i) = Letter(st, ps, i)
    BY <1>1, <1>2, SharedLetters
  <2>1. CASE i = len
    BY <1>1, <1>2, <2>1 DEF Letter
  <2>2. CASE i # len
    <3>1. i \in 1..(len - 1) /\ i <= len - 1
      BY <2>2
    <3> QED
      BY <1>1, <1>2, <3>1 DEF Letter
  <2> QED
    BY <2>1, <2>2
<1>4. \A base : Frame(st, ps, cs, co, base) => base[co] <= len
  BY <1>1, TopBase
<1>5. Len(st2) <= Len(st) /\ Len(st) \in Nat
  BY <1>1, <1>2
<1> QED
  BY <1>2, <1>3, <1>4, <1>5, PassesSame

(* The innermost open region is gone with its base. *)
LEMMA PassesClosed ==
  ASSUME NEW co \in Nat, co # 0, NEW R,
         NEW R2, \A j \in 1..(co - 1) : R[<<"info", j>>] \subseteq R2[<<"info", j>>],
         NEW st, NEW st2, Shorter(st, st2), NEW ps, ps = "COMPLETE", NEW cs, NEW ps2,
         ps2 = st[Len(st)] \/ co - 1 # 0,
         NEW cs2, NEW mark, NEW P
  PROVE  Passes(st, ps, cs, co, R, st2, ps2, cs2, co - 1, R2, mark, P)
<1>1. PICK len \in Nat : len = Len(st)
  BY DEF Shorter
<1>2. /\ len # 0 /\ Len(st2) \in Nat /\ Len(st2) = len - 1 /\ \A i \in 1..(len - 1) : st2[i] = st[i]
  BY <1>1 DEF Shorter
<1>3. Len(st) \in Nat
  BY <1>1
<1>4. \A base : Frame(st, ps, cs, co, base) =>
        /\ base[co] = len + 1 /\ base[co - 1] \in Nat /\ base[co - 1] <= len
        /\ co - 1 # 0 => base[co - 1] <= len - 1
  <2> SUFFICES ASSUME NEW base, Frame(st, ps, cs, co, base)
               PROVE  /\ base[co] = len + 1 /\ base[co - 1] \in Nat /\ base[co - 1] <= len
                      /\ co - 1 # 0 => base[co - 1] <= len - 1
    OBVIOUS
  <2>1. /\ base[co] = Len(st) + 1 /\ (\A j \in 0..co : base[j] \in Nat) /\ co - 1 \in 0..co
        /\ base[co - 1] < base[co] /\ (co - 1 # 0 => base[co - 1] + 2 <= base[co])
    BY <1>3, TopBase
  <2>2. PICK k \in 0..co : k = co - 1
    BY <2>1
  <2>3. base[k] \in Nat
    BY <2>1
  <2> QED
    BY <1>1, <2>1, <2>2, <2>3
<1>5. CASE ps2 = st[Len(st)]
  <2>1. SharedTo(len, st, ps, st2, ps2)
    <3> SUFFICES ASSUME NEW i \in 1..len PROVE Letter(st2, ps2, i) = Letter(st, ps, i)
      BY <1>1, <1>2, SharedLetters
    <3>1. CASE i = len
      BY <1>1, <1>2, <1>5, <3>1 DEF Letter
    <3>2. CASE i # len
      <4>1. i \in 1..(len - 1) /\ i <= len - 1
        BY <3>2
      <4> QED
        BY <1>1, <1>2, <4>1 DEF Letter
    <3> QED
      BY <3>1, <3>2
  <2>2. \A base : Frame(st, ps, cs, co, base) => base[co - 1] <= len /\ Len(st2) = base[co] - 2
    BY <1>2, <1>4
  <2> QED
    BY <1>2, <1>3, <2>1, <2>2, PassesFewer
<1>6. CASE co - 1 # 0
  <2>1. PICK k \in Nat : k = len - 1
    BY <1>2
  <2>2. SharedTo(k, st, ps, st2, ps2)
    <3> SUFFICES ASSUME NEW i \in 1..k PROVE Letter(st2, ps2, i) = Letter(st, ps, i)
      BY <1>1, <1>2, <2>1, SharedLetters
    <3>1. i \in 1..(len - 1) /\ i <= len - 1
      BY <2>1
    <3> QED
      BY <1>1, <1>2, <3>1 DEF Letter
  <2>3. \A base : Frame(st, ps, cs, co, base) => base[co - 1] <= k /\ Len(st2) = base[co] - 2
    BY <1>2, <1>4, <1>6, <2>1
  <2> QED
    BY <1>2, <1>3, <2>2, <2>3, PassesFewer
<1> QED
  BY <1>5, <1>6

(* The same when the base is the letter that is pushed. *)
LEMMA PassesDropped ==
  ASSUME NEW co \in Nat, co # 0, NEW R,
         NEW R2, \A j \in 1..(co - 1) : R[<<"info", j>>] \subseteq R2[<<"info", j>>],
         NEW st, NEW st1, Shorter(st, st1), st[Len(st)] = "COMPLETE", NEW ps, ps # "COMPLETE",
         NEW cs,
         NEW st2, Shorter(st1, st2), NEW ps2, ps2 = st1[Len(st1)], NEW cs2, NEW mark, NEW P
  PROVE  Passes(st, ps, cs, co, R, st2, ps2, cs2, co - 1, R2, mark, P)
<1>1. PICK len \in Nat : len = Len(st1)
  BY DEF Shorter
<1>2. /\ Len(st) = len + 1 /\ Len(st) \in Nat /\ len # 0 /\ Len(st2) \in Nat /\ Len(st2) = len - 1
      /\ \A i \in 1..(len - 1) : st2[i] = st1[i]
      /\ \A i \in 1..len : st1[i] = st[i]
  BY <1>1 DEF Shorter
<1>3. SharedTo(len, st, ps, st2, ps2)
  <2> SUFFICES ASSUME NEW i \in 1..len PROVE Letter(st2, ps2, i) = Letter(st, ps, i)
    BY <1>1, <1>2, SharedLetters
  <2>1. CASE i = len
    BY <1>1, <1>2, <2>1 DEF Letter
  <2>2. CASE i # len
    <3>1. i \in 1..(len - 1) /\ i <= len - 1
      BY <2>2
    <3> QED
      BY <1>1, <1>2, <3>1 DEF Letter
  <2> QED
    BY <2>1, <2>2
<1>4. \A base : Frame(st, ps, cs, co, base) => base[co - 1] <= len /\ Len(st2) = base[co] - 2
  <2> SUFFICES ASSUME NEW base, Frame(st, ps, cs, co, base) PROVE base[co - 1] <= len /\ Len(st2) = base[co] - 2
    OBVIOUS
  <2>1. Len(st) # 0 /\ Letter(st, ps, Len(st)) = "COMPLETE"
    BY <1>2 DEF Letter
  <2>2. /\ base[co] = Len(st) /\ (\A j \in 0..co : base[j] \in Nat) /\ co - 1 \in 0..co /\ base[co - 1] < base[co]
    <3>1. /\ base[co] = Len(st)
      BY <1>2, <2>1, TopBase
    <3>2. \A j \in 0..co : base[j] \in Nat
      BY <1>2, TopBase
    <3>3. co - 1 \in 0..co /\ base[co - 1] < base[co]
      BY <1>2, TopBase
    <3> QED
      BY <3>1, <3>2, <3>3
  <2>3. PICK k \in 0..co : k = co - 1
    BY <2>2
  <2>4. base[k] \in Nat
    BY <2>2
  <2> QED
    BY <1>2, <2>2, <2>3, <2>4
<1> QED
  BY <1>2, <1>3, <1>4, PassesFewer

(* The fields of a scan that make its line part. *)
IsLine(s, m, start, end, st, ps, cs, co) ==
  /\ s.marker = m /\ s.start = start /\ s.end = end
  /\ s.psstack = st /\ s.ps = ps /\ s.cs = cs /\ s.co = co

(* What NewMarker is given and what it leaves, as far as the line part goes. *)
Marked(s, t, w, X, Z, x, mr) ==
  /\ Inside(s, w) /\ X \in 0..(w + 1) /\ Z \in 0..X /\ Known(s, X) /\ x = s.x
  /\ \E g2, a2 : Turn(mr[x], Depth(s), Under(s), g2, a2) /\ Follows(s, t, w, X, g2, a2)

(* Both line parts fit one another across the marker of column x. *)
Goes(w, X, Z, x, mr, m, start, end, st, ps, cs, co, m2, start2, end2, st2, ps2, co2) ==
  /\ X \in Nat /\ Z \in 0..X /\ x \in 0..w /\ x + 1 \in 0..(w + 1)
  /\ DOMAIN m = 0..w /\ DOMAIN start = 0..w /\ ps \in Gap \union {"OBJECT"} /\ cs \in {"OBJECT", "NONOBJECT"}
  /\ co \in 0..w /\ co \in Nat /\ IsStack(st) /\ Len(st) \in Nat /\ Framed(st, ps, cs, co)
  /\ co2 \in 0..w /\ co2 \in Nat /\ IsStack(st2) /\ Len(st2) \in Nat /\ Framed(st2, ps2, cs, co2)
  /\ Past(m, start, end, cs, co, X) /\ Past(m2, start2, end2, cs, co2, X)
  /\ Turn(mr[x], Len(st) - co, InSegment(ps), Len(st2) - co2, InSegment(ps2))

(* What Marked says of the fields. *)
LEMMA MarkedFields ==
  ASSUME NEW w \in Nat, NEW s, NEW t, NEW X, NEW Z, NEW x, NEW mr, Marked(s, t, w, X, Z, x, mr),
         NEW m, NEW start, NEW end, NEW st, NEW ps, NEW cs, NEW co,
         IsLine(s, m, start, end, st, ps, cs, co),
         NEW m2, NEW start2, NEW end2, NEW st2, NEW ps2, NEW cs2, NEW co2,
         IsLine(t, m2, start2, end2, st2, ps2, cs2, co2)
  PROVE  /\ Goes(w, X, Z, x, mr, m, start, end, st, ps, cs, co, m2, start2, end2, st2, ps2, co2)
         /\ cs2 = cs /\ LineFields \subseteq DOMAIN s /\ s.wild = FALSE
<1> /\ s.marker = m /\ s.start = start /\ s.end = end /\ s.psstack = st /\ s.co = co /\ s.ps = ps /\ s.cs = cs
    /\ t.marker = m2 /\ t.start = start2 /\ t.end = end2 /\ t.psstack = st2 /\ t.co = co2 /\ t.ps = ps2 /\ t.cs = cs2
  BY DEF IsLine
<1>1. PICK g2, a2 : Turn(mr[x], Depth(s), Under(s), g2, a2) /\ Follows(s, t, w, X, g2, a2)
  BY DEF Marked
<1>2. Inside(s, w) /\ X \in 0..(w + 1) /\ Z \in 0..X /\ Known(s, X) /\ x = s.x
  BY DEF Marked
<1>3. Inside(t, w) /\ Known(t, X) /\ t.cs = s.cs /\ Depth(t) = g2 /\ Under(t) = a2
  BY <1>1 DEF Follows
<1>4. /\ X \in Nat /\ x \in 0..w /\ x + 1 \in 0..(w + 1)
      /\ LineFields \subseteq DOMAIN s /\ s.wild = FALSE /\ DOMAIN m = 0..w /\ DOMAIN start = 0..w
      /\ ps \in Gap \union {"OBJECT"} /\ cs \in {"OBJECT", "NONOBJECT"}
      /\ co \in 0..w /\ co \in Nat /\ IsStack(st) /\ Framed(st, ps, cs, co)
  BY <1>2 DEF Inside, HasLine
<1>5. co2 \in 0..w /\ co2 \in Nat /\ IsStack(st2) /\ Framed(st2, ps2, cs, co2) /\ cs2 = cs
  BY <1>3 DEF Inside
<1>6. Len(st) \in Nat /\ Len(st2) \in Nat
  BY <1>4, <1>5, LenProperties DEF IsStack
<1>7. Past(m, start, end, cs, co, X) /\ Past(m2, start2, end2, cs, co2, X)
  BY <1>2, <1>3 DEF Known
<1>8. Depth(s) = Len(st) - co /\ Under(s) = InSegment(ps) /\ Depth(t) = Len(st2) - co2 /\ Under(t) = InSegment(ps2)
  BY DEF Depth, Under, InSegment
<1>9. Turn(mr[x], Len(st) - co, InSegment(ps), Len(st2) - co2, InSegment(ps2))
  BY <1>1, <1>3, <1>8
<1> QED
  BY <1>2, <1>4, <1>5, <1>6, <1>7, <1>9 DEF Goes

(* Only what is known of the line above changes. *)
LEMMA TellsTurned ==
  ASSUME NEW w \in Nat, NEW s, NEW t, NEW X, NEW Z, NEW x, NEW mr, Marked(s, t, w, X, Z, x, mr),
         NEW T, NEW y, NEW R, Tells(s, w, T, y, mr, X, Z, x, R), NEW ps2,
         Becomes(s, t, s.marker, s.start, s.end, s.psstack, s.co, ps2, s.cs),
         ps2 = s.ps \/ (s.ps # "COMPLETE" /\ ps2 # "COMPLETE")
  PROVE  Tells(t, w, T, y, mr, X, Z, x + 1, R)
<1>1. PICK m, start, end, st, ps, cs, co : Becomes(s, s, m, start, end, st, co, ps, cs)
  BY DEF Becomes
<1>2. /\ s.marker = m /\ s.start = start /\ s.end = end /\ s.psstack = st /\ s.co = co /\ s.ps = ps /\ s.cs = cs
  BY <1>1 DEF Becomes
<1>3. /\ t.marker = m /\ t.start = start /\ t.end = end /\ t.psstack = st /\ t.co = co /\ t.ps = ps2 /\ t.cs = cs
  BY <1>2 DEF Becomes
<1>4. /\ x \in 0..w /\ co \in Nat /\ Len(st) \in Nat /\ Framed(st, ps2, cs, co)
      /\ Turn(mr[x], Len(st) - co, InSegment(ps), Len(st) - co, InSegment(ps2))
  <2>1. IsLine(s, m, start, end, st, ps, cs, co) /\ IsLine(t, m, start, end, st, ps2, cs, co)
    BY <1>2, <1>3 DEF IsLine
  <2> QED
    <3>1. Goes(w, X, Z, x, mr, m, start, end, st, ps, cs, co, m, start, end, st, ps2, co)
      BY ONLY w \in Nat, Marked(s, t, w, X, Z, x, mr), <2>1, MarkedFields
    <3> QED
      BY <3>1 DEF Goes
<1>5. Sees(T, y, m, start, end, cs, co, X, Z, R) /\ Recalls(T, y - 1, mr, st, ps, cs, co, x, w, R)
  BY <1>2 DEF Tells
<1>6. PICK yy : yy = y - 1
  OBVIOUS
<1>7. \A P, mark : Passes(st, ps, cs, co, R, st, ps2, cs, co, R, mark, P)
  <2>1. \A j \in 1..co : R[<<"info", j>>] \subseteq R[<<"info", j>>]
    OBVIOUS
  <2>2. ps2 = ps \/ (ps # "COMPLETE" /\ ps2 # "COMPLETE")
    BY <1>2
  <2> QED
    BY <1>4, <2>1, <2>2, PassesKept
<1>8. Passes(st, ps, cs, co, R, st, ps2, cs, co, R, mr[x], R[<<"store", x>>])
  BY <1>7
<1>9. \A c \in (x + 1)..w : R[<<"store", c>>] \subseteq R[<<"store", c>>]
  OBVIOUS
<1>10. Recalls(T, yy, mr, st, ps2, cs, co, x + 1, w, R)
  BY <1>4, <1>5, <1>6, <1>8, <1>9, RecallsStep
<1> QED
  BY <1>3, <1>5, <1>6, <1>10 DEF Tells

(* Two regions become one: what is seen of the inner one is seen of the outer one. *)
LEMMA SeesUnited ==
  ASSUME NEW T, NEW y, NEW m, NEW start, NEW end, NEW co \in Nat, NEW X \in Nat, NEW Z \in 0..X,
         NEW R,
         Sees(T, y, m, start, end, "OBJECT", co, X, Z, R), co - 1 # 0, co # 0,
         NEW start2, \A j \in 1..(co - 2) : start2[j] = start[j], start2[co - 1] = start[co], start[co - 1] = UNKNOWN,
         Past(m, start2, end, "OBJECT", co - 1, X),
         NEW R2, \A j \in 1..(co - 1) : R[<<"info", j>>] \subseteq R2[<<"info", j>>],
         R[<<"info", co>>] \subseteq R2[<<"info", co - 1>>],
         \A c \in 0..(Z - 1) : R[<<"store", c>>] \subseteq R2[<<"store", c>>]
  PROVE  Sees(T, y, m, start2, end, "OBJECT", co - 1, X, Z, R2)
<1>0. PICK o : o = "OBJECT"
  OBVIOUS
<1>1. PICK k \in Nat : k = co - 1 /\ o = "OBJECT"
  BY <1>0
<1>2. k # 0 /\ co = k + 1
  BY <1>1
<1>3. StaysOpen(start, co, R, start2, k, R2, Z)
  <2> SUFFICES ASSUME NEW j \in 1..k, start2[j] # UNKNOWN
               PROVE  \E i \in 1..co : start2[j] = start[i] /\ R[<<"info", i>>] \subseteq R2[<<"info", j>>]
    BY DEF StaysOpen
  <2>1. CASE j = k
    <3>1. co \in 1..co /\ start2[j] = start[co] /\ R[<<"info", co>>] \subseteq R2[<<"info", j>>]
      BY <1>1, <1>2, <2>1
    <3> QED
      BY <3>1
  <2>2. CASE j # k
    <3>1. j \in 1..co /\ start2[j] = start[j] /\ R[<<"info", j>>] \subseteq R2[<<"info", j>>]
      BY <1>1, <1>2, <2>2
    <3> QED
      BY <3>1
  <2> QED
    BY <2>1, <2>2
<1>4. StaysWaiting(m, start, co, R, m, start2, k, R2, Z)
  <2> SUFFICES ASSUME NEW c \in 0..(Z - 1), Waits(c, m, start2, k)
               PROVE  Waits(c, m, start, co) /\ R[<<"store", c>>] \subseteq R2[<<"store", c>>]
    BY DEF StaysWaiting
  <2>1. \A i \in 1..co : start[i] # c
    <3> SUFFICES ASSUME NEW i \in 1..co PROVE start[i] # c
      OBVIOUS
    <3>1. \A j \in 1..k : start2[j] # c
      BY DEF Waits
    <3>2. CASE i = co
      <4>1. k \in 1..k /\ start2[k] = start[co]
        BY <1>1, <1>2
      <4> QED
        BY <3>1, <3>2, <4>1
    <3>3. CASE i = k
      BY <1>1, <3>3 DEF UNKNOWN
    <3>4. CASE i # co /\ i # k
      <4>1. i \in 1..k /\ start2[i] = start[i]
        BY <1>1, <1>2, <3>4
      <4> QED
        BY <3>1, <4>1
    <3> QED
      BY <3>2, <3>3, <3>4
  <2> QED
    BY <2>1 DEF Waits
<1>5. X <= X /\ \A c \in 0..(X - 1) : m[c] = m[c]
  OBVIOUS
<1>6. Past(m, start2, end, o, k, X) /\ Sees(T, y, m, start, end, o, co, X, Z, R)
  BY <1>1
<1>7. Sees(T, y, m, start2, end, o, k, X, Z, R2)
  BY <1>3, <1>4, <1>5, <1>6, SeesMore
<1> QED
  BY <1>1, <1>7

(* Two regions that meet at a marker become one, and the pixels of both    *)
(* are told of it.                                                         *)
LEMMA TellsMarkerInner ==
  ASSUME NEW w \in Nat, NEW s, NEW t, NEW X, NEW Z, NEW x, NEW mr,
         Marked(s, t, w, X, Z, x, mr), mr[x] = "s",
         NEW T, NEW y, NEW R, Tells(s, w, T, y, mr, X, Z, x, R), t = MarkerInner(s),
         s.cs = "OBJECT" /\ s.ps = "COMPLETE" => s.co - 1 # 0,
         NEW R2, s.cs = "OBJECT" /\ s.ps = "COMPLETE" =>
                   PutsInfo(R, R2, w, s.co - 1, R[<<"info", s.co - 1>>] \union R[<<"info", s.co>>]),
                 ~(s.cs = "OBJECT" /\ s.ps = "COMPLETE") => R2 = R
  PROVE  Tells(t, w, T, y, mr, X, Z, x + 1, R2)
<1>1. PICK m, start, end, st, ps, cs, co : IsLine(s, m, start, end, st, ps, cs, co)
  BY DEF IsLine
<1>2. PICK m2, start2, end2, st2, ps2, cs2, co2 : IsLine(t, m2, start2, end2, st2, ps2, cs2, co2)
  BY DEF IsLine
<1>3. /\ Goes(w, X, Z, x, mr, m, start, end, st, ps, cs, co, m2, start2, end2, st2, ps2, co2)
      /\ cs2 = cs /\ LineFields \subseteq DOMAIN s /\ s.wild = FALSE
  BY ONLY w \in Nat, Marked(s, t, w, X, Z, x, mr), <1>1, <1>2, MarkedFields
<1>4. /\ X \in 0..(w + 1) /\ X \in Nat /\ Z \in 0..X /\ x \in 0..w /\ x + 1 \in 0..(w + 1)
      /\ DOMAIN m = 0..w /\ DOMAIN start = 0..w /\ ps \in Gap \union {"OBJECT"} /\ cs \in {"OBJECT", "NONOBJECT"}
      /\ co \in 0..w /\ co \in Nat /\ IsStack(st) /\ Len(st) \in Nat /\ Framed(st, ps, cs, co)
      /\ co2 \in 0..w /\ co2 \in Nat /\ IsStack(st2) /\ Len(st2) \in Nat /\ Framed(st2, ps2, cs, co2)
      /\ Past(m, start, end, cs, co, X) /\ Past(m2, start2, end2, cs, co2, X)
      /\ Turn(mr[x], Len(st) - co, InSegment(ps), Len(st2) - co2, InSegment(ps2))
  BY <1>3 DEF Goes, Marked
<1>5. /\ s.marker = m /\ s.start = start /\ s.end = end /\ s.psstack = st /\ s.ps = ps /\ s.cs = cs /\ s.co = co
      /\ t.marker = m2 /\ t.start = start2 /\ t.end = end2 /\ t.psstack = st2 /\ t.ps = ps2 /\ t.cs = cs /\ t.co = co2
  BY <1>1, <1>2, <1>3 DEF IsLine
<1>6. Sees(T, y, m, start, end, cs, co, X, Z, R) /\ Recalls(T, y - 1, mr, st, ps, cs, co, x, w, R)
  BY <1>5 DEF Tells
<1>7. cs = "OBJECT" => co # 0 /\ start[co] # UNKNOWN /\ start[co] \in 0..(X - 1) /\ start[co] \in DOMAIN m
  <2>1. ASSUME cs = "OBJECT" PROVE co # 0 /\ start[co] # UNKNOWN /\ start[co] \in 0..(X - 1)
    BY <1>4, <2>1, PastKnown
  <2> QED
    BY <1>4, <2>1
<1>8. ps \in Gap /\ Len(st) - co >= 1
  BY <1>4 DEF Turn, InSegment
<1>9. /\ ~(cs = "OBJECT" /\ ps = "COMPLETE") =>
           Becomes(s, t, s.marker, s.start, s.end, s.psstack, s.co, "OBJECT", s.cs)
      /\ cs = "OBJECT" /\ ps = "COMPLETE" /\ start[co - 1] = UNKNOWN =>
           Becomes(s, t, s.marker, [s.start EXCEPT ![s.co - 1] = s.start[s.co]], s.end,
                   SubSeq(s.psstack, 1, Len(s.psstack) - 1), s.co - 1, "OBJECT", s.cs)
      /\ cs = "OBJECT" /\ ps = "COMPLETE" /\ start[co - 1] # UNKNOWN =>
           \E stt : /\ stt = [s.start EXCEPT ![s.co - 1] = @]
                    /\ Becomes(s, t, [s.marker EXCEPT ![s.start[s.co]] = "s"], stt, s.end,
                         SubSeq(s.psstack, 1, Len(s.psstack) - 1), s.co - 1, "OBJECT", s.cs)
  BY <1>3, <1>5, <1>7, MarkerInnerDoes
<1>10. CASE ~(cs = "OBJECT" /\ ps = "COMPLETE")
  <2>1. ps # "COMPLETE"
    BY <1>4, <1>8, <1>10, FramedCount
  <2>2. R2 = R
    BY <1>5, <1>10
  <2>3. PICK o : o = "OBJECT" /\ o # "COMPLETE"
    OBVIOUS
  <2>4. Becomes(s, t, s.marker, s.start, s.end, s.psstack, s.co, o, s.cs) /\ s.ps # "COMPLETE"
    BY <1>5, <1>9, <1>10, <2>1, <2>3
  <2>5. Tells(t, w, T, y, mr, X, Z, x + 1, R)
    BY <2>3, <2>4, TellsTurned
  <2> QED
    BY <2>2, <2>5
<1>11. CASE cs = "OBJECT" /\ ps = "COMPLETE"
  <2>1. PICK k \in 0..w : k = co - 1 /\ k # 0 /\ co = k + 1
    <3>1. co - 1 # 0 /\ co # 0
      BY <1>5, <1>7, <1>11
    <3> QED
      BY <1>4, <3>1
  <2>2. /\ end2 = end /\ ps2 = "OBJECT" /\ co2 = k /\ st2 = SubSeq(st, 1, Len(st) - 1)
        /\ start[k] = UNKNOWN => m2 = m /\ start2 = [start EXCEPT ![k] = start[co]]
        /\ start[k] # UNKNOWN => m2 = [m EXCEPT ![start[co]] = "s"] /\ start2 = [start EXCEPT ![k] = @]
    <3>1. CASE start[k] = UNKNOWN
      <4>1. Becomes(s, t, m, [start EXCEPT ![k] = start[co]], end, SubSeq(st, 1, Len(st) - 1), k, "OBJECT", cs)
        BY <1>5, <1>9, <1>11, <2>1, <3>1
      <4> QED
        BY <1>5, <3>1, <4>1 DEF Becomes
    <3>2. CASE start[k] # UNKNOWN
      <4>1. Becomes(s, t, [m EXCEPT ![start[co]] = "s"], [start EXCEPT ![k] = @], end,
                    SubSeq(st, 1, Len(st) - 1), k, "OBJECT", cs)
        BY <1>5, <1>9, <1>11, <2>1, <3>2
      <4> QED
        BY <1>5, <3>2, <4>1 DEF Becomes
    <3> QED
      BY <3>1, <3>2
  <2>3. Shorter(st, st2)
    <3>1. Len(st) # 0
      BY <1>4, <1>8, <2>1
    <3> QED
      BY ONLY <1>4, <2>2, <3>1, ShorterIs, ZenonT(60)
  <2>4. PICK V : V = R[<<"info", k>>] \union R[<<"info", co>>]
    OBVIOUS
  <2>5. PutsInfo(R, R2, w, k, V)
    BY <1>5, <1>11, <2>1, <2>4
  <2>6. /\ \A j \in 0..w : j # k => R2[<<"info", j>>] = R[<<"info", j>>]
        /\ \A c \in 0..w : R2[<<"store", c>>] = R[<<"store", c>>]
        /\ R2[<<"info", k>>] = V
    BY ONLY w \in Nat, <2>5, k \in 0..w, PutsOpen
  <2>7. /\ \A j \in 1..(co - 1) : R[<<"info", j>>] \subseteq R2[<<"info", j>>]
        /\ R[<<"info", co>>] \subseteq R2[<<"info", co - 1>>]
        /\ \A c \in 0..w : R[<<"store", c>>] \subseteq R2[<<"store", c>>]
    <3>1. \A j \in 1..(co - 1) : j \in 0..w
      <4>1. co \in 0..w
        BY <1>4
      <4> QED
        BY ONLY w \in Nat, <4>1
    <3> QED
      BY <2>1, <2>4, <2>6, <3>1
  <2>8. \A c \in 0..(Z - 1) : R[<<"store", c>>] \subseteq R2[<<"store", c>>]
    BY <1>4, <2>7
  <2>9. Sees(T, y, m2, start2, end, "OBJECT", co - 1, X, Z, R2)
    <3>1. Sees(T, y, m, start, end, "OBJECT", co, X, Z, R) /\ Past(m2, start2, end, "OBJECT", co - 1, X)
      BY <1>4, <1>6, <1>11, <2>1, <2>2
    <3>2. CASE start[k] = UNKNOWN
      <4>1. /\ m2 = m /\ start2[co - 1] = start[co] /\ \A j \in 1..(co - 2) : start2[j] = start[j]
        <5>1. start2[k] = start[co] /\ \A j \in 0..w : j # k => start2[j] = start[j]
          BY <1>4, <2>2, <3>2
        <5>2. \A j \in 1..(co - 2) : j \in 0..w /\ j # k
          <6>1. co \in 0..w /\ k = co - 1
            BY <1>4, <2>1
          <6> QED
            BY ONLY w \in Nat, <6>1
        <5> QED
          BY <2>1, <2>2, <3>2, <5>1, <5>2
      <4>2. co - 1 # 0 /\ co # 0 /\ start[co - 1] = UNKNOWN
        BY <2>1, <3>2
      <4>3. \A j \in 1..(co - 1) : R[<<"info", j>>] \subseteq R2[<<"info", j>>]
        BY <2>7
      <4>4. R[<<"info", co>>] \subseteq R2[<<"info", co - 1>>]
        BY <2>7
      <4>5. Sees(T, y, m2, start, end, "OBJECT", co, X, Z, R) /\ Past(m2, start2, end, "OBJECT", co - 1, X)
        BY <3>1, <4>1
      <4>6. start2[co - 1] = start[co] /\ \A j \in 1..(co - 2) : start2[j] = start[j]
        BY <4>1
      <4> QED
        BY ONLY <1>4, <2>8, <4>2, <4>3, <4>4, <4>5, <4>6, SeesUnited
    <3>3. CASE start[k] # UNKNOWN
      <4>1. /\ \A c \in 0..(X - 1) : c # start[co] => m2[c] = m[c]
            /\ m2[start[co]] = "s" /\ \A j \in 1..(co - 1) : start2[j] = start[j]
        <5>1. start[co] \in 0..w
          BY <1>4, <1>7, <1>11
        <5>2. m2[start[co]] = "s" /\ \A c \in 0..w : c # start[co] => m2[c] = m[c]
          BY <1>4, <2>2, <3>3, <5>1
        <5>3. \A j \in 0..w : start2[j] = start[j]
          BY <1>4, <2>2, <3>3
        <5>4. (\A c \in 0..(X - 1) : c \in 0..w) /\ \A j \in 1..(co - 1) : j \in 0..w
          <6>1. X \in 0..(w + 1) /\ co \in 0..w
            BY <1>4
          <6> QED
            BY ONLY w \in Nat, <6>1
        <5> QED
          BY <5>2, <5>3, <5>4
      <4>2. co - 1 # 0 /\ start[co - 1] # UNKNOWN
        BY <2>1, <3>3
      <4>3. \A j \in 1..(co - 1) : R[<<"info", j>>] \subseteq R2[<<"info", j>>]
        BY <2>7
      <4>4. R[<<"info", co>>] \subseteq R2[<<"info", co - 1>>]
        BY <2>7
      <4> QED
        <5>1. Relabels(m, m2, start[co], "s", X) /\ SameStarts(start, start2, co - 1)
          BY <4>1 DEF Relabels, SameStarts
        <5>2. Absorbs(R, R2, co, Z)
          BY <2>8, <4>3, <4>4 DEF Absorbs
        <5>3. co \in Nat /\ X \in Nat /\ Z \in 0..X
          BY <1>4
        <5> QED
          BY ONLY <3>1, <4>2, <5>1, <5>2, <5>3, SeesJoin
    <3> QED
      BY <3>2, <3>3
  <2>10. PICK yy, o : yy = y - 1 /\ o = "OBJECT"
    OBVIOUS
  <2>11. \A P, mark : Passes(st, ps, cs, co, R, st2, o, cs, co - 1, R2, mark, P)
    <3>1. co # 0 /\ co - 1 # 0 /\ ps = "COMPLETE"
      BY <1>11, <2>1
    <3>2. \A j \in 1..(co - 1) : R[<<"info", j>>] \subseteq R2[<<"info", j>>]
      BY <2>7
    <3> QED
      BY ONLY <1>4, <2>3, <3>1, <3>2, PassesClosed
  <2>12. Passes(st, ps, cs, co, R, st2, o, cs, co2, R2, mr[x], R[<<"store", x>>])
    BY <2>1, <2>2, <2>11
  <2>13. /\ Framed(st2, o, cs, co2) /\ Turn(mr[x], Len(st) - co, InSegment(ps), Len(st2) - co2, InSegment(o))
         /\ \A c \in (x + 1)..w : R[<<"store", c>>] \subseteq R2[<<"store", c>>]
    <3>1. Framed(st2, o, cs, co2) /\ Turn(mr[x], Len(st) - co, InSegment(ps), Len(st2) - co2, InSegment(o))
      <4>1. o = ps2
        BY <2>2, <2>10
      <4> QED
        BY <1>4, <4>1
    <3>2. \A c \in (x + 1)..w : c \in 0..w
      BY <1>4
    <3> QED
      BY <2>7, <3>1, <3>2
  <2>14. Recalls(T, yy, mr, st2, o, cs, co2, x + 1, w, R2)
    BY <1>4, <1>6, <2>10, <2>12, <2>13, RecallsStep
  <2>15. /\ Sees(T, y, m2, start2, end2, cs, co2, X, Z, R2)
         /\ Recalls(T, y - 1, mr, st2, ps2, cs, co2, x + 1, w, R2)
    <3>1. cs = "OBJECT" /\ co2 = co - 1 /\ end2 = end /\ ps2 = o /\ yy = y - 1
      BY <1>11, <2>1, <2>2, <2>10
    <3>2. Sees(T, y, m2, start2, end2, cs, co2, X, Z, R2)
      BY ONLY <2>9, <3>1
    <3>3. Recalls(T, y - 1, mr, st2, ps2, cs, co2, x + 1, w, R2)
      BY ONLY <2>14, <3>1
    <3> QED
      BY <3>2, <3>3
  <2> QED
    BY ONLY <1>5, <2>15 DEF Tells
<1> QED
  BY <1>10, <1>11

(* What is put where a region waits leaves what is open. *)
LEMMA PutsWaiting ==
  ASSUME NEW R, NEW R2, NEW w \in Nat, NEW k \in 0..w, NEW V, PutsStore(R, R2, w, k, V)
  PROVE  /\ \A j \in 0..w : R2[<<"info", j>>] = R[<<"info", j>>]
         /\ \A c \in 0..w : c # k => R2[<<"store", c>>] = R[<<"store", c>>]
         /\ R2[<<"store", k>>] = V
<1>1. PICK a : a = <<"store", k>>
  OBVIOUS
<1>2. Puts(R, R2, w, a, V)
  BY <1>1 DEF PutsStore
<1>3. /\ \A i \in 0..w : <<"info", i>> # a => R2[<<"info", i>>] = R[<<"info", i>>]
      /\ \A c \in 0..w : <<"store", c>> # a => R2[<<"store", c>>] = R[<<"store", c>>]
  BY <1>2, PutsHoldings
<1>4. R2[a] = V
  BY <1>2 DEF Puts
<1>5. (\A c : c # k => <<"store", c>> # a) /\ \A j : <<"info", j>> # a
  BY <1>1
<1> QED
  BY <1>1, <1>3, <1>4, <1>5

(* The line above ends a run. *)
TopCase(s) == s.cs = "NONOBJECT" /\ s.psstack[Len(s.psstack)] = "COMPLETE"

(* The last run of a region ends above: if it goes on, it waits at its     *)
(* column with its pixels.                                                 *)
LEMMA TellsMarkerF ==
  ASSUME NEW w \in Nat, NEW s, NEW t, NEW X, NEW Z, NEW x, NEW mr,
         Marked(s, t, w, X, Z, x, mr), mr[x] = "F",
         s.cs = "NONOBJECT" => X <= x, NEW minarea,
         NEW T, NEW y, NEW R, Tells(s, w, T, y, mr, X, Z, x, R), t = MarkerF(s, minarea),
         NEW R2, TopCase(s) /\ s.start[s.co] # UNKNOWN => PutsStore(R, R2, w, s.start[s.co], R[<<"info", s.co>>]),
                 ~(TopCase(s) /\ s.start[s.co] # UNKNOWN) => R2 = R
  PROVE  Tells(t, w, T, y, mr, X, Z, x + 1, R2)
<1>1. PICK m, start, end, st, ps, cs, co : IsLine(s, m, start, end, st, ps, cs, co)
  BY DEF IsLine
<1>2. PICK m2, start2, end2, st2, ps2, cs2, co2 : IsLine(t, m2, start2, end2, st2, ps2, cs2, co2)
  BY DEF IsLine
<1>3. /\ Goes(w, X, Z, x, mr, m, start, end, st, ps, cs, co, m2, start2, end2, st2, ps2, co2)
      /\ cs2 = cs /\ LineFields \subseteq DOMAIN s /\ s.wild = FALSE
  BY ONLY w \in Nat, Marked(s, t, w, X, Z, x, mr), <1>1, <1>2, MarkedFields
<1>4. /\ X \in 0..(w + 1) /\ X \in Nat /\ Z \in 0..X /\ x \in 0..w /\ x + 1 \in 0..(w + 1)
      /\ DOMAIN m = 0..w /\ DOMAIN start = 0..w /\ ps \in Gap \union {"OBJECT"} /\ cs \in {"OBJECT", "NONOBJECT"}
      /\ co \in 0..w /\ co \in Nat /\ IsStack(st) /\ Len(st) \in Nat /\ Framed(st, ps, cs, co)
      /\ co2 \in 0..w /\ co2 \in Nat /\ IsStack(st2) /\ Len(st2) \in Nat /\ Framed(st2, ps2, cs, co2)
      /\ Past(m, start, end, cs, co, X) /\ Past(m2, start2, end2, cs, co2, X)
      /\ Turn(mr[x], Len(st) - co, InSegment(ps), Len(st2) - co2, InSegment(ps2))
  BY <1>3 DEF Goes, Marked
<1>5. /\ s.marker = m /\ s.start = start /\ s.end = end /\ s.psstack = st /\ s.ps = ps /\ s.cs = cs /\ s.co = co
      /\ t.marker = m2 /\ t.start = start2 /\ t.end = end2 /\ t.psstack = st2 /\ t.ps = ps2 /\ t.cs = cs /\ t.co = co2
  BY <1>1, <1>2, <1>3 DEF IsLine
<1>6. Sees(T, y, m, start, end, cs, co, X, Z, R) /\ Recalls(T, y - 1, mr, st, ps, cs, co, x, w, R)
  BY <1>5 DEF Tells
<1>7. ps = "OBJECT" /\ ps # "COMPLETE"
  BY <1>4 DEF Turn, InSegment
<1>8. PICK st1, top : st1 = SubSeq(st, 1, Len(st) - 1) /\ top = st[Len(st)]
  OBVIOUS
<1>9. Len(st) # 0 /\ top \in Gap /\ co # 0
  BY <1>4, <1>7, <1>8, FramedPop
<1>10. IsStack(st1) /\ Shorter(st, st1)
  BY ONLY <1>4, <1>8, <1>9, ShorterIs, ZenonT(60)
<1>11. ASSUME cs = "NONOBJECT", start[co] # UNKNOWN
       PROVE  start[co] \in 0..(X - 1) /\ end[co] \in 0..(X - 1)
  BY <1>4, <1>9, <1>11, PastKnown
<1>12. cs = "NONOBJECT" /\ top = "COMPLETE" /\ start[co] # UNKNOWN => end[co] \in DOMAIN m /\ start[co] \in DOMAIN m
  BY <1>4, <1>11
<1>13. /\ ~(cs = "NONOBJECT" /\ top = "COMPLETE") => Becomes(s, t, m, start, end, st1, co, top, cs)
       /\ cs = "NONOBJECT" /\ top = "COMPLETE" /\ start[co] = UNKNOWN =>
            Becomes(s, t, m, start, end, SubSeq(st1, 1, Len(st1) - 1), co - 1, st1[Len(st1)], cs)
       /\ cs = "NONOBJECT" /\ top = "COMPLETE" /\ start[co] # UNKNOWN =>
            Becomes(s, t, [m EXCEPT ![end[co]] = "F"], start, end, SubSeq(st1, 1, Len(st1) - 1), co - 1, st1[Len(st1)], cs)
  <2>1. st1 = SubSeq(s.psstack, 1, Len(s.psstack) - 1) /\ top = s.psstack[Len(s.psstack)]
    BY <1>5, <1>8
  <2> QED
    BY <1>3, <1>5, <1>12, <2>1, MarkerFDoes
<1>14. PICK yy : yy = y - 1
  OBVIOUS
<1>15. TopCase(s) <=> cs = "NONOBJECT" /\ top = "COMPLETE"
  BY <1>5, <1>8 DEF TopCase
<1>16. CASE ~(cs = "NONOBJECT" /\ top = "COMPLETE")
  <2>1. m2 = m /\ start2 = start /\ end2 = end /\ st2 = st1 /\ co2 = co /\ ps2 = top /\ R2 = R
    BY <1>5, <1>13, <1>15, <1>16 DEF Becomes
  <2>2. \A P, mark : Passes(st, ps, cs, co, R, st2, ps2, cs, co, R, mark, P)
    <3>1. (\A j \in 1..co : R[<<"info", j>>] \subseteq R[<<"info", j>>]) /\ ps2 = st[Len(st)] /\ Shorter(st, st2)
      BY <1>8, <1>10, <2>1
    <3> QED
      BY ONLY <1>4, <1>7, <3>1, PassesPopped
  <2>3. Passes(st, ps, cs, co, R, st2, ps2, cs, co2, R, mr[x], R[<<"store", x>>])
    BY <2>1, <2>2
  <2>4. \A c \in (x + 1)..w : R[<<"store", c>>] \subseteq R[<<"store", c>>]
    OBVIOUS
  <2>5. Recalls(T, yy, mr, st2, ps2, cs, co2, x + 1, w, R)
    BY <1>4, <1>6, <1>14, <2>3, <2>4, RecallsStep
  <2> QED
    BY <1>5, <1>6, <1>14, <2>1, <2>5 DEF Tells
<1>17. ASSUME cs = "NONOBJECT", top = "COMPLETE"
       PROVE  /\ start2 = start /\ end2 = end /\ co2 = co - 1 /\ IsStack(st2) /\ Shorter(st1, st2) /\ ps2 = st1[Len(st1)]
              /\ start[co] = UNKNOWN => m2 = m
              /\ start[co] # UNKNOWN => m2 = [m EXCEPT ![end[co]] = "F"]
  <2>1. Len(st1) # 0
    <3>1. Framed(st1, "COMPLETE", "OBJECT", co)
      BY <1>4, <1>7, <1>8, <1>17, FramedPop
    <3> QED
      BY <1>4, <1>9, <1>10, <3>1, FramedCount
  <2>2. /\ start2 = start /\ end2 = end /\ co2 = co - 1 /\ st2 = SubSeq(st1, 1, Len(st1) - 1) /\ ps2 = st1[Len(st1)]
        /\ start[co] = UNKNOWN => m2 = m
        /\ start[co] # UNKNOWN => m2 = [m EXCEPT ![end[co]] = "F"]
    <3>1. CASE start[co] = UNKNOWN
      BY <1>5, <1>13, <1>17, <3>1 DEF Becomes
    <3>2. CASE start[co] # UNKNOWN
      BY <1>5, <1>13, <1>17, <3>2 DEF Becomes
    <3> QED
      BY <3>1, <3>2
  <2>3. IsStack(st2) /\ Shorter(st1, st2)
    BY ONLY <1>10, <2>1, <2>2, ShorterIs, ZenonT(60)
  <2> QED
    BY <2>2, <2>3
<1>18. ASSUME cs = "NONOBJECT", top = "COMPLETE", \A j \in 1..(co - 1) : R[<<"info", j>>] \subseteq R2[<<"info", j>>],
              \A c \in (x + 1)..w : R[<<"store", c>>] \subseteq R2[<<"store", c>>]
       PROVE  Recalls(T, yy, mr, st2, ps2, cs, co2, x + 1, w, R2)
  <2>1. Shorter(st, st1) /\ Shorter(st1, st2) /\ ps2 = st1[Len(st1)] /\ st[Len(st)] = "COMPLETE" /\ co2 = co - 1
    BY <1>8, <1>10, <1>17, <1>18
  <2>2. \A P, mark : Passes(st, ps, cs, co, R, st2, ps2, cs, co - 1, R2, mark, P)
    BY ONLY <1>4, <1>7, <1>9, <1>18, <2>1, PassesDropped
  <2>3. Passes(st, ps, cs, co, R, st2, ps2, cs, co2, R2, mr[x], R[<<"store", x>>])
    BY <2>1, <2>2
  <2> QED
    BY <1>4, <1>6, <1>14, <1>18, <2>3, RecallsStep
<1>19. CASE cs = "NONOBJECT" /\ top = "COMPLETE" /\ start[co] = UNKNOWN
  <2>1. m2 = m /\ start2 = start /\ end2 = end /\ co2 = co - 1 /\ R2 = R
    BY <1>5, <1>15, <1>17, <1>19
  <2>2. Recalls(T, yy, mr, st2, ps2, cs, co2, x + 1, w, R2)
    BY <1>18, <1>19, <2>1
  <2>3. Sees(T, y, m, start, end, cs, co2, X, Z, R)
    <3>1. StaysOpen(start, co, R, start, co2, R, Z)
      <4> SUFFICES ASSUME NEW j \in 1..co2, start[j] # UNKNOWN PROVE j \in 1..co
        BY DEF StaysOpen
      <4> QED
        BY <1>4, <2>1
    <3>2. StaysWaiting(m, start, co, R, m, start, co2, R, Z)
      <4> SUFFICES ASSUME NEW c \in 0..(Z - 1), Waits(c, m, start, co2) PROVE Waits(c, m, start, co)
        BY DEF StaysWaiting
      <4>1. \A i \in 1..co : start[i] # c
        <5> SUFFICES ASSUME NEW i \in 1..co PROVE start[i] # c
          OBVIOUS
        <5>1. CASE i = co
          BY <1>19, <5>1 DEF UNKNOWN
        <5>2. CASE i # co
          <6>1. i \in 1..co2
            BY <1>4, <2>1, <5>2
          <6> QED
            BY <6>1 DEF Waits
        <5> QED
          BY <5>1, <5>2
      <4> QED
        BY <4>1 DEF Waits
    <3>3. X <= X /\ \A c \in 0..(X - 1) : m[c] = m[c]
      BY <1>4
    <3>4. Past(m, start, end, cs, co2, X)
      BY <1>4, <2>1
    <3> QED
      BY ONLY <1>4, <1>6, <3>1, <3>2, <3>3, <3>4, SeesMore
  <2> QED
    BY <1>5, <1>14, <2>1, <2>2, <2>3 DEF Tells
<1>20. CASE cs = "NONOBJECT" /\ top = "COMPLETE" /\ start[co] # UNKNOWN
  <2>1. /\ m2 = [m EXCEPT ![end[co]] = "F"] /\ start2 = start /\ end2 = end /\ co2 = co - 1
        /\ PutsStore(R, R2, w, start[co], R[<<"info", co>>])
    BY <1>5, <1>15, <1>17, <1>20
  <2>2. PICK V : V = R[<<"info", co>>]
    OBVIOUS
  <2>3. PICK P \in 0..w : P = start[co] /\ V = R[<<"info", co>>] /\ P <= x - 1
    BY <1>4, <1>5, <1>11, <1>20, <2>2
  <2>4. PutsStore(R, R2, w, P, V)
    BY <2>1, <2>3
  <2>5. /\ \A j \in 0..w : R2[<<"info", j>>] = R[<<"info", j>>]
        /\ \A c \in 0..w : c # P => R2[<<"store", c>>] = R[<<"store", c>>]
        /\ R2[<<"store", P>>] = V
    BY <2>4, PutsWaiting
  <2>6. \A j \in 1..(co - 1) : R[<<"info", j>>] \subseteq R2[<<"info", j>>]
    <3>1. \A j \in 1..(co - 1) : j \in 0..w
      <4>1. co \in 0..w
        BY <1>4
      <4> QED
        BY ONLY w \in Nat, <4>1
    <3> QED
      BY <2>5, <3>1
  <2>7. \A c \in (x + 1)..w : R[<<"store", c>>] \subseteq R2[<<"store", c>>]
    <3>1. \A c \in (x + 1)..w : c \in 0..w /\ c # P
      BY <1>4, <2>3
    <3> QED
      BY <2>5, <3>1
  <2>8. Recalls(T, yy, mr, st2, ps2, cs, co2, x + 1, w, R2)
    BY <1>18, <1>20, <2>6, <2>7
  <2>9. Sees(T, y, m2, start, end, "NONOBJECT", co - 1, X, Z, R2)
    <3>1. Relabels(m, m2, end[co], "F", X)
      <4>1. end[co] \in 0..w /\ \A c \in 0..(X - 1) : c \in 0..w
        <5>1. X \in 0..(w + 1)
          BY <1>4
        <5>2. end[co] \in 0..(X - 1)
          BY <1>11, <1>20
        <5> QED
          BY ONLY w \in Nat, <5>1, <5>2
      <4> QED
        BY <1>4, <2>1, <4>1 DEF Relabels
    <3>2. Shelves(R, R2, co, start[co], Z)
      <4>1. \A c \in 0..(Z - 1) : c \in 0..w
        <5>1. X \in 0..(w + 1) /\ Z \in 0..X
          BY <1>4
        <5> QED
          BY ONLY w \in Nat, <5>1
      <4> QED
        BY <2>3, <2>5, <2>6, <4>1 DEF Shelves
    <3>3. Sees(T, y, m, start, end, "NONOBJECT", co, X, Z, R) /\ Past(m2, start, end, "NONOBJECT", co - 1, X)
      BY <1>4, <1>6, <1>20, <2>1
    <3> QED
      BY ONLY <1>4, <1>9, <1>20, <3>1, <3>2, <3>3, SeesSuspend
  <2> QED
    BY <1>5, <1>14, <1>20, <2>1, <2>8, <2>9 DEF Tells
<1> QED
  BY <1>16, <1>19, <1>20

(* What the marks of the line above change in the regions held: two become *)
(* one, one is opened again, one waits for the next line.                  *)
MarkerPuts(s, w, x, mark, R, R2) ==
  CASE mark = "S" /\ s.cs = "NONOBJECT" -> PutsInfo(R, R2, w, s.co + 1, R[<<"store", x>>])
    [] mark = "S" /\ s.cs # "NONOBJECT" -> PutsInfo(R, R2, w, s.co, R[<<"info", s.co>>] \union R[<<"store", x>>])
    [] mark = "s" /\ s.cs = "OBJECT" /\ s.ps = "COMPLETE" ->
         PutsInfo(R, R2, w, s.co - 1, R[<<"info", s.co - 1>>] \union R[<<"info", s.co>>])
    [] mark = "F" /\ TopCase(s) /\ s.start[s.co] # UNKNOWN ->
         PutsStore(R, R2, w, s.start[s.co], R[<<"info", s.co>>])
    [] OTHER -> R2 = R

(* What the mark changes can always be done. *)
LEMMA MarkerPutsExists == \A s, w, x, mark, R : \E R2 : MarkerPuts(s, w, x, mark, R, R2)
<1> SUFFICES ASSUME NEW s, NEW w, NEW x, NEW mark, NEW R PROVE \E R2 : MarkerPuts(s, w, x, mark, R, R2)
  OBVIOUS
<1>1. CASE mark = "S" /\ s.cs = "NONOBJECT"
  <2>1. PICK R2 : PutsInfo(R, R2, w, s.co + 1, R[<<"store", x>>])
    BY PutsExists DEF PutsInfo
  <2> QED
    BY <1>1, <2>1 DEF MarkerPuts
<1>2. CASE mark = "S" /\ s.cs # "NONOBJECT"
  <2>1. PICK R2 : PutsInfo(R, R2, w, s.co, R[<<"info", s.co>>] \union R[<<"store", x>>])
    BY PutsExists DEF PutsInfo
  <2> QED
    BY <1>2, <2>1 DEF MarkerPuts
<1>3. CASE mark = "s" /\ s.cs = "OBJECT" /\ s.ps = "COMPLETE"
  <2>1. PICK R2 : PutsInfo(R, R2, w, s.co - 1, R[<<"info", s.co - 1>>] \union R[<<"info", s.co>>])
    BY PutsExists DEF PutsInfo
  <2> QED
    BY <1>3, <2>1 DEF MarkerPuts
<1>4. CASE mark = "F" /\ TopCase(s) /\ s.start[s.co] # UNKNOWN
  <2>1. PICK R2 : PutsStore(R, R2, w, s.start[s.co], R[<<"info", s.co>>])
    BY PutsExists DEF PutsStore
  <2> QED
    BY <1>4, <2>1 DEF MarkerPuts
<1>5. CASE /\ ~(mark = "S" /\ s.cs = "NONOBJECT") /\ ~(mark = "S" /\ s.cs # "NONOBJECT")
           /\ ~(mark = "s" /\ s.cs = "OBJECT" /\ s.ps = "COMPLETE")
           /\ ~(mark = "F" /\ TopCase(s) /\ s.start[s.co] # UNKNOWN)
  <2>1. MarkerPuts(s, w, x, mark, R, R)
    BY <1>5 DEF MarkerPuts
  <2> QED
    BY <2>1
<1> QED
  BY <1>1, <1>2, <1>3, <1>4, <1>5

(* "Process new marker" keeps what is told of both lines. *)
LEMMA TellsMarker ==
  ASSUME NEW w \in Nat, NEW s, NEW t, NEW X, NEW Z, NEW x, NEW mr, Marked(s, t, w, X, Z, x, mr),
         s.cs = "NONOBJECT" => X <= x, s.cs # "OBJECT" /\ s.ps # "OBJECT" => s.co < w,
         NEW T, NEW y, NEW R, Tells(s, w, T, y, mr, X, Z, x, R),
         NEW minarea, t = NewMarker(s, mr[x], minarea), NEW R2, MarkerPuts(s, w, x, mr[x], R, R2)
  PROVE  Tells(t, w, T, y, mr, X, Z, x + 1, R2)
<1>1. /\ Inside(s, w) /\ X \in 0..(w + 1) /\ Z \in 0..X /\ Known(s, X) /\ x = s.x
  BY DEF Marked
<1>2. PICK g2, a2 : Turn(mr[x], Depth(s), Under(s), g2, a2) /\ Follows(s, t, w, X, g2, a2)
  BY DEF Marked
<1>3. mr[x] \in {"none", "S", "s", "f", "F"}
  BY <1>2 DEF Turn
<1>4. /\ LineFields \subseteq DOMAIN s /\ IsStack(s.psstack) /\ Framed(s.psstack, s.ps, s.cs, s.co) /\ s.co \in 0..w
      /\ s.cs \in {"OBJECT", "NONOBJECT"}
  BY <1>1 DEF Inside, HasLine
<1>5. PICK mark : mark = mr[x]
  OBVIOUS
<1>6. MarkerPuts(s, w, x, mark, R, R2)
  BY <1>5
<1>7. /\ mark = "S" /\ s.cs = "NONOBJECT" => PutsInfo(R, R2, w, s.co + 1, R[<<"store", x>>])
      /\ mark = "S" /\ s.cs # "NONOBJECT" =>
           PutsInfo(R, R2, w, s.co, R[<<"info", s.co>>] \union R[<<"store", x>>])
      /\ mark = "s" /\ s.cs = "OBJECT" /\ s.ps = "COMPLETE" =>
           PutsInfo(R, R2, w, s.co - 1, R[<<"info", s.co - 1>>] \union R[<<"info", s.co>>])
      /\ mark = "s" /\ ~(s.cs = "OBJECT" /\ s.ps = "COMPLETE") => R2 = R
      /\ mark = "F" /\ TopCase(s) /\ s.start[s.co] # UNKNOWN =>
           PutsStore(R, R2, w, s.start[s.co], R[<<"info", s.co>>])
      /\ mark = "F" /\ ~(TopCase(s) /\ s.start[s.co] # UNKNOWN) => R2 = R
      /\ mark \notin {"S", "s", "F"} => R2 = R
  BY ONLY <1>6 DEF MarkerPuts
<1>8. CASE mr[x] = "S"
  <2>1. t = MarkerS(s)
    BY <1>8 DEF NewMarker
  <2>2. Turn("S", Depth(s), Under(s), g2, a2)
    BY <1>2, <1>8
  <2>3. /\ s.cs = "NONOBJECT" => PutsInfo(R, R2, w, s.co + 1, R[<<"store", x>>])
        /\ s.cs # "NONOBJECT" => PutsInfo(R, R2, w, s.co, R[<<"info", s.co>>] \union R[<<"store", x>>])
    BY <1>8, <1>5, <1>7
  <2> QED
    BY <1>1, <1>8, <2>1, <2>2, <2>3, TellsMarkerS
<1>9. CASE mr[x] = "s"
  <2>1. t = MarkerInner(s)
    BY <1>9 DEF NewMarker
  <2>2. s.cs = "OBJECT" /\ s.ps = "COMPLETE" => s.co - 1 # 0
    <3> SUFFICES ASSUME s.cs = "OBJECT", s.ps = "COMPLETE" PROVE s.co - 1 # 0
      OBVIOUS
    <3>1. Len(s.psstack) - s.co # 0
      BY <1>2, <1>9 DEF Turn, Depth
    <3>2. s.co # 0 /\ s.co \in Nat
      BY <1>4, FramedCount
    <3> QED
      BY <1>4, <3>1, <3>2, FramedClose
  <2>3. /\ s.cs = "OBJECT" /\ s.ps = "COMPLETE" =>
             PutsInfo(R, R2, w, s.co - 1, R[<<"info", s.co - 1>>] \union R[<<"info", s.co>>])
        /\ ~(s.cs = "OBJECT" /\ s.ps = "COMPLETE") => R2 = R
    BY <1>9, <1>5, <1>7
  <2> QED
    BY <1>9, <2>1, <2>2, <2>3, TellsMarkerInner
<1>10. CASE mr[x] = "F"
  <2>1. t = MarkerF(s, minarea)
    BY <1>10 DEF NewMarker
  <2>2. /\ TopCase(s) /\ s.start[s.co] # UNKNOWN => PutsStore(R, R2, w, s.start[s.co], R[<<"info", s.co>>])
        /\ ~(TopCase(s) /\ s.start[s.co] # UNKNOWN) => R2 = R
    BY <1>10, <1>5, <1>7
  <2> QED
    BY <1>10, <2>1, <2>2, TellsMarkerF
<1>11. CASE mr[x] = "f"
  <2>1. t = [s EXCEPT !.ps = "INCOMPLETE"] /\ R2 = R
    BY <1>11, <1>5, <1>7 DEF NewMarker
  <2>2. PICK ps2 : ps2 = "INCOMPLETE"
    OBVIOUS
  <2>3. Becomes(s, t, s.marker, s.start, s.end, s.psstack, s.co, ps2, s.cs)
    BY <1>4, <2>1, <2>2 DEF Becomes, LineFields
  <2>4. s.ps # "COMPLETE" /\ ps2 # "COMPLETE"
    BY <1>2, <1>11, <2>2 DEF Turn, Under
  <2> QED
    BY <2>1, <2>3, <2>4, TellsTurned
<1>12. CASE mr[x] = "none"
  <2>1. t = s /\ R2 = R
    BY <1>12, <1>5, <1>7 DEF NewMarker
  <2>2. Becomes(s, t, s.marker, s.start, s.end, s.psstack, s.co, s.ps, s.cs)
    BY <2>1 DEF Becomes
  <2> QED
    BY <2>1, <2>2, TellsTurned
<1> QED
  BY <1>3, <1>8, <1>9, <1>10, <1>11, <1>12

(* What is told of the line goes on past a pixel once it is known. *)
LEMMA SeesOn ==
  ASSUME NEW T, NEW y, NEW m, NEW start, NEW end, NEW cs, NEW co \in Nat, NEW X \in Nat,
         NEW Z \in Nat, X = Z + 1,
         NEW R, Sees(T, y, m, start, end, cs, co, X, Z, R), <<Z, y>> \in T <=> cs = "OBJECT",
         cs = "OBJECT" => <<Z, y>> \in R[<<"info", co>>]
  PROVE  Sees(T, y, m, start, end, cs, co, X, X, R)
<1>1. (\A i \in 1..co : R[<<"info", i>>] \subseteq R[<<"info", i>>])
      /\ \A c \in 0..(Z - 1) : R[<<"store", c>>] \subseteq R[<<"store", c>>]
  OBVIOUS
<1> QED
  BY <1>1, SeesPixel

(* A lit pixel goes to the region of its run. *)
LEMMA TellsPixel ==
  ASSUME NEW w \in Nat, NEW s, Inside(s, w), NEW x \in 0..w,
         Known(s, x + 1), s.cs = "OBJECT", s.co # 0,
         NEW T, NEW y, <<x, y>> \in T, NEW mr, NEW R, Tells(s, w, T, y, mr, x + 1, x, x + 1, R),
         NEW t, Same(s, t), NEW R2,
         PutsInfo(R, R2, w, s.co, R[<<"info", s.co>>] \union {<<x, y>>})
  PROVE  Tells(t, w, T, y, mr, x + 1, x + 1, x + 1, R2)
<1>1. s.co \in 0..w /\ s.co \in Nat
  BY DEF Inside
<1>2. PICK X : X = x + 1 /\ X \in 0..(w + 1) /\ X \in Nat /\ x \in 0..X /\ x \in Nat
  OBVIOUS
<1>3. PICK co, V, p : co = s.co /\ p = <<x, y>> /\ V = R[<<"info", co>>] \union {p}
  OBVIOUS
<1>4. PutsInfo(R, R2, w, co, V)
  BY <1>3
<1>5. /\ \A j \in 0..w : j # co => R2[<<"info", j>>] = R[<<"info", j>>]
      /\ \A c \in 0..w : R2[<<"store", c>>] = R[<<"store", c>>]
      /\ R2[<<"info", co>>] = V
  <2>1. co \in 0..w
    BY <1>1, <1>3
  <2> QED
    BY <1>4, <2>1, PutsOpen
<1>6. Holdings(R, R2, w, s.co)
  <2>1. \A j \in 1..co : j \in 0..w
    BY <1>1, <1>3
  <2>2. \A j \in 1..co : R[<<"info", j>>] \subseteq R2[<<"info", j>>]
    <3> SUFFICES ASSUME NEW j \in 1..co PROVE R[<<"info", j>>] \subseteq R2[<<"info", j>>]
      OBVIOUS
    <3>1. CASE j = co
      BY <1>3, <1>5, <3>1
    <3>2. CASE j # co
      BY <1>5, <2>1, <3>2
    <3> QED
      BY <3>1, <3>2
  <2> QED
    BY <1>3, <1>5, <2>2 DEF Holdings
<1>7. Tells(t, w, T, y, mr, X, x, X, R2)
  <2>1. Tells(s, w, T, y, mr, X, x, X, R) /\ Known(s, X)
    BY <1>2
  <2> QED
    BY ONLY w \in Nat, Inside(s, w), <1>2, <1>6, <2>1, Same(s, t), TellsMore
<1>8. /\ Sees(T, y, t.marker, t.start, t.end, "OBJECT", co, X, x, R2)
      /\ Recalls(T, y - 1, mr, t.psstack, t.ps, t.cs, t.co, X, w, R2)
      /\ t.co = co /\ t.cs = "OBJECT"
  BY <1>3, <1>7 DEF Tells, Same, Becomes
<1>9. Sees(T, y, t.marker, t.start, t.end, "OBJECT", co, X, X, R2)
  <2>1. p \in R2[<<"info", co>>]
    BY <1>3, <1>5
  <2>2. <<x, y>> \in R2[<<"info", co>>] /\ co \in Nat
    BY <1>1, <1>3, <2>1
  <2> QED
    BY <1>2, <1>8, <2>2, SeesOn
<1> QED
  BY <1>2, <1>8, <1>9 DEF Tells

(* A region whose run ends and that has nothing more above waits. *)
EndPuts(s, w, R, R2) ==
  IF s.cs = "OBJECT" /\ s.ps = "COMPLETE" THEN PutsStore(R, R2, w, s.start[s.co], R[<<"info", s.co>>]) ELSE R2 = R

(* EndSegment keeps what is told of both lines. *)
LEMMA TellsEnd ==
  ASSUME NEW w \in Nat, NEW s, Inside(s, w), NEW x, x = s.x, Known(s, x), s.marker[x] = "none",
         NEW T, NEW y, <<x, y>> \notin T, NEW mr, NEW R, Tells(s, w, T, y, mr, x, x, x + 1, R),
         NEW t, t = EndSegment(s), NEW R2, EndPuts(s, w, R, R2)
  PROVE  Tells(t, w, T, y, mr, x + 1, x + 1, x + 1, R2)
<1>1. PICK m, start, end, st, ps, cs, co : IsLine(s, m, start, end, st, ps, cs, co)
  BY DEF IsLine
<1>2. PICK m2, start2, end2, st2, ps2, cs2, co2 : IsLine(t, m2, start2, end2, st2, ps2, cs2, co2)
  BY DEF IsLine
<1>3. PICK X : X = x + 1
  OBVIOUS
<1>4. /\ Inside(t, w) /\ Known(t, X) /\ t.cs = "NONOBJECT" /\ Depth(t) = Depth(s) /\ Under(t) = Under(s)
  BY <1>3, EndSegmentKeeps
<1>5. /\ x \in 0..w /\ x \in Nat /\ X \in Nat /\ X \in 0..(w + 1) /\ x <= X
      /\ DOMAIN m = 0..w /\ DOMAIN start = 0..w /\ ps \in Gap \union {"OBJECT"} /\ cs \in {"OBJECT", "NONOBJECT"}
      /\ co \in 0..w /\ co \in Nat /\ IsStack(st) /\ Framed(st, ps, cs, co) /\ m[x] = "none"
      /\ LineFields \subseteq DOMAIN s /\ s.wild = FALSE
  BY <1>1, <1>3 DEF Inside, HasLine, IsLine
<1>6. /\ co2 \in 0..w /\ co2 \in Nat /\ IsStack(st2) /\ Framed(st2, ps2, cs2, co2) /\ cs2 = "NONOBJECT"
  BY <1>2, <1>4 DEF Inside, HasLine, IsLine
<1>7. Past(m, start, end, cs, co, x) /\ Past(m2, start2, end2, cs2, co2, X)
  BY <1>1, <1>2, <1>4 DEF Known, IsLine
<1>8. Len(st) \in Nat /\ Len(st2) \in Nat
  BY <1>5, <1>6 DEF IsStack
<1>9. Len(st2) - co2 = Len(st) - co /\ InSegment(ps2) = InSegment(ps)
  BY <1>1, <1>2, <1>4 DEF IsLine, Depth, Under, InSegment
<1>10. PICK yy : yy = y - 1
  OBVIOUS
<1>11. Sees(T, y, m, start, end, cs, co, x, x, R) /\ Recalls(T, yy, mr, st, ps, cs, co, X, w, R)
  BY <1>1, <1>3, <1>10 DEF Tells, IsLine
<1>12. cs = "OBJECT" => start[co] \in 0..(x - 1) /\ co # 0 /\ start[co] \in DOMAIN m
  BY <1>5, <1>7, PastKnown
<1>13. /\ cs # "OBJECT" => Same(s, t)
       /\ cs = "OBJECT" /\ ps # "COMPLETE" =>
            Becomes(s, t, [m EXCEPT ![x] = "f"], start, [end EXCEPT ![co] = x], st, co, ps, "NONOBJECT")
       /\ cs = "OBJECT" /\ ps = "COMPLETE" =>
            Becomes(s, t, [m EXCEPT ![x] = "F"], start, end, SubSeq(st, 1, Len(st) - 1), co - 1, st[Len(st)], "NONOBJECT")
  <2>1. s.cs = "OBJECT" => s.start[s.co] \in DOMAIN s.marker
    BY <1>1, <1>12 DEF IsLine
  <2> QED
    BY <1>1, <1>5, <2>1, EndSegmentDoes DEF IsLine
<1>14. /\ start2 = start /\ \A c \in 0..(x - 1) : m2[c] = m[c]
       /\ ~(cs = "OBJECT" /\ ps = "COMPLETE") => st2 = st /\ ps2 = ps /\ co2 = co /\ R2 = R
       /\ cs = "OBJECT" /\ ps = "COMPLETE" =>
            /\ st2 = SubSeq(st, 1, Len(st) - 1) /\ ps2 = st[Len(st)] /\ co2 = co - 1
            /\ PutsStore(R, R2, w, start[co], R[<<"info", co>>])
  <2>1. /\ ~(cs = "OBJECT" /\ ps = "COMPLETE") => R2 = R
        /\ cs = "OBJECT" /\ ps = "COMPLETE" => PutsStore(R, R2, w, start[co], R[<<"info", co>>])
    BY <1>1 DEF IsLine, EndPuts
  <2>2. \A c \in 0..(x - 1) : c \in 0..w /\ c # x
    BY <1>5
  <2>3. CASE cs # "OBJECT"
    BY <1>1, <1>2, <1>13, <2>1, <2>3 DEF IsLine, Same, Becomes
  <2>4. CASE cs = "OBJECT" /\ ps # "COMPLETE"
    BY <1>2, <1>5, <1>13, <2>1, <2>2, <2>4 DEF IsLine, Becomes
  <2>5. CASE cs = "OBJECT" /\ ps = "COMPLETE"
    BY <1>2, <1>5, <1>13, <2>1, <2>2, <2>5 DEF IsLine, Becomes
  <2> QED
    BY <2>3, <2>4, <2>5
<1>15. ASSUME StaysOpen(start, co, R, start, co2, R2, x), StaysWaiting(m, start, co, R, m2, start, co2, R2, x)
       PROVE  Sees(T, y, m2, start2, end2, cs2, co2, X, X, R2)
  <2>1. x \in 0..x
    BY <1>5
  <2>2. Past(m2, start, end2, cs2, co2, X) /\ \A c \in 0..(x - 1) : m2[c] = m[c]
    BY <1>7, <1>14
  <2>3. Sees(T, y, m2, start, end2, cs2, co2, X, x, R2)
    BY ONLY <1>5, <1>6, <1>11, <1>15, <2>1, <2>2, SeesMore
  <2> QED
    BY <1>3, <1>5, <1>6, <1>14, <2>3, SeesOn
<1>16. CASE ~(cs = "OBJECT" /\ ps = "COMPLETE")
  <2>1. StaysOpen(start, co, R, start, co2, R2, x)
    BY <1>14, <1>16 DEF StaysOpen
  <2>2. StaysWaiting(m, start, co, R, m2, start, co2, R2, x)
    BY <1>14, <1>16 DEF StaysWaiting, Waits
  <2>3. Recalls(T, yy, mr, st2, ps2, cs2, co2, X, w, R2)
    <3>1. (\A j \in 1..co : R[<<"info", j>>] \subseteq R[<<"info", j>>])
          /\ \A c \in X..w : R[<<"store", c>>] \subseteq R[<<"store", c>>]
      OBVIOUS
    <3>2. \A P, mark : Passes(st, ps, cs, co, R, st, ps, cs2, co, R, mark, P)
      BY ONLY <1>5, <1>8, <3>1, PassesKept
    <3>3. Passes(st, ps, cs, co, R, st2, ps2, cs2, co2, R2, "none", {})
      BY <1>14, <1>16, <3>2
    <3>4. \A c \in X..w : R[<<"store", c>>] \subseteq R2[<<"store", c>>]
      BY <1>14, <1>16
    <3> QED
      BY <1>5, <1>6, <1>8, <1>9, <1>11, <3>3, <3>4, RecallsSame
  <2> QED
    BY <1>2, <1>3, <1>10, <1>15, <2>1, <2>2, <2>3 DEF Tells, IsLine
<1>17. CASE cs = "OBJECT" /\ ps = "COMPLETE"
  <2>1. PICK P, V : P = start[co] /\ P \in 0..w /\ P \in 0..(x - 1) /\ V = R[<<"info", co>>]
    BY <1>5, <1>12, <1>17
  <2>2. PutsStore(R, R2, w, P, V)
    BY <1>14, <1>17, <2>1
  <2>3. /\ \A j \in 0..w : R2[<<"info", j>>] = R[<<"info", j>>]
        /\ \A c \in 0..w : c # P => R2[<<"store", c>>] = R[<<"store", c>>]
        /\ R2[<<"store", P>>] = V
    BY <2>1, <2>2, PutsWaiting
  <2>4. PICK k : k = co - 1 /\ co2 = k
    BY <1>14, <1>17
  <2>5. \A j \in 1..k : R[<<"info", j>>] \subseteq R2[<<"info", j>>] /\ j \in 1..co
    <3>1. \A j \in 1..k : j \in 0..w /\ j \in 1..co
      BY <1>5, <2>4
    <3> QED
      BY <2>3, <3>1
  <2>6. StaysOpen(start, co, R, start, co2, R2, x)
    BY <2>4, <2>5 DEF StaysOpen
  <2>7. StaysWaiting(m, start, co, R, m2, start, co2, R2, x)
    <3> SUFFICES ASSUME NEW c \in 0..(x - 1), Waits(c, m2, start, co2)
                 PROVE  \/ Waits(c, m, start, co) /\ R[<<"store", c>>] \subseteq R2[<<"store", c>>]
                        \/ \E i \in 1..co : start[i] = c /\ R[<<"info", i>>] \subseteq R2[<<"store", c>>]
      BY DEF StaysWaiting
    <3>1. m[c] = "S" /\ \A i \in 1..k : start[i] # c
      BY <1>14, <2>4 DEF Waits
    <3>2. CASE c = P
      <4>1. co \in 1..co
        BY <1>5, <1>12, <1>17
      <4>2. start[co] = c /\ R[<<"info", co>>] = R2[<<"store", P>>]
        BY <2>1, <2>3, <3>2
      <4>3. R[<<"info", co>>] \subseteq R2[<<"store", c>>]
        BY <3>2, <4>2
      <4> QED
        BY <4>1, <4>2, <4>3
    <3>3. CASE c # P
      <4>1. \A i \in 1..co : i \in 1..k \/ i = co
        BY <1>5, <2>4
      <4>2. c \in 0..w
        BY <1>5
      <4> QED
        BY <2>1, <2>3, <3>1, <3>3, <4>1, <4>2 DEF Waits
    <3> QED
      BY <3>2, <3>3
  <2>8. Recalls(T, yy, mr, st2, ps2, cs2, co2, X, w, R2)
    <3>1. Shorter(st, st2)
      <4>1. Len(st) # 0
        BY <1>5, <1>12, <1>17, FramedClose
      <4> QED
        BY <1>5, <1>14, <1>17, <4>1, ShorterIs
    <3>2. \A j \in 1..(co - 1) : R[<<"info", j>>] \subseteq R2[<<"info", j>>]
      BY <2>4, <2>5
    <3>3. co # 0 /\ ps = "COMPLETE" /\ (ps2 = st[Len(st)] \/ co - 1 # 0)
      BY <1>12, <1>14, <1>17
    <3>4. \A PP, mark : Passes(st, ps, cs, co, R, st2, ps2, cs2, co - 1, R2, mark, PP)
      BY ONLY <1>5, <3>1, <3>2, <3>3, PassesClosed
    <3>5. Passes(st, ps, cs, co, R, st2, ps2, cs2, co2, R2, "none", {})
      BY <2>4, <3>4
    <3>6. \A c \in X..w : R[<<"store", c>>] \subseteq R2[<<"store", c>>]
      <4>1. \A c \in X..w : c \in 0..w /\ c # P
        BY <1>3, <1>5, <2>1
      <4> QED
        BY <2>3, <4>1
    <3> QED
      BY <1>5, <1>6, <1>8, <1>9, <1>11, <3>5, <3>6, RecallsSame
  <2> QED
    BY <1>2, <1>3, <1>10, <1>15, <2>6, <2>7, <2>8 DEF Tells, IsLine
<1> QED
  BY <1>16, <1>17

(* What is recalled of the line above depends on the marks not yet met. *)
LEMMA RecallsMarks ==
  ASSUME NEW T, NEW y, NEW mr, NEW w \in Nat, NEW x \in 0..(w + 1), NEW st, NEW ps, NEW cs,
         NEW co, NEW R,
         Recalls(T, y, mr, st, ps, cs, co, x, w, R), NEW m2, \A c \in x..w : m2[c] = mr[c]
  PROVE  Recalls(T, y, m2, st, ps, cs, co, x, w, R)
<1>1. PICK h, n, base :
        /\ Frame(st, ps, cs, co, base) /\ Ahead(mr, h, n, x, w)
        /\ h[x] = Len(st) - co /\ n[x] = InSegment(ps)
        /\ Drawn(T, y, n, x - 1, w)
        /\ OpenAbove(y, h, n, x, w, base, Len(st), co, R)
        /\ WaitAbove(y, mr, h, n, x, w, R)
  BY DEF Recalls
<1>2. Ahead(m2, h, n, x, w)
  <2>1. \A c \in x..(w + 1 - 1) : c \in x..w
    OBVIOUS
  <2> QED
    BY <1>1, <2>1 DEF Ahead, Reads
<1>3. WaitAbove(y, m2, h, n, x, w, R)
  BY <1>1 DEF WaitAbove
<1> QED
  BY <1>1, <1>2, <1>3 DEF Recalls

(* A line that is done is the line above of the next. *)
LEMMA RecallsFresh ==
  ASSUME NEW T, NEW y, <<-1, y>> \notin T, NEW mr, NEW w \in Nat, NEW h, NEW n,
         Line(mr, w + 1, h, n),
         h[w + 1] = 0, n[w + 1] = 0, Drawn(T, y, n, 0, w), NEW st, Len(st) = 0, NEW R,
         \A c \in 0..w : mr[c] = "S" => Bracket(y, c, w, h, n, R[<<"store", c>>])
  PROVE  Recalls(T, y, mr, st, "COMPLETE", "NONOBJECT", 0, 0, w, R)
<1> DEFINE base == [j \in {0} |-> 1]
<1>1. base[0] = 1 /\ (\A j \in 0..0 : j = 0) /\ \A j \in 1..0 : FALSE
  OBVIOUS
<1> HIDE DEF base
<1>2. Frame(st, "COMPLETE", "NONOBJECT", 0, base)
  <2>1. Bases(0, base)
    BY <1>1 DEF Bases
  <2>2. Word(st, 0, base) /\ Top(st, "COMPLETE", "NONOBJECT", 0, base)
    BY <1>1 DEF Word, Top
  <2> QED
    BY <2>1, <2>2 DEF Frame
<1>3. Ahead(mr, h, n, 0, w)
  BY LineReads DEF Ahead
<1>4. h[0] = Len(st) - 0 /\ n[0] = InSegment("COMPLETE")
  BY DEF Line, InSegment
<1>5. Drawn(T, y, n, 0 - 1, w)
  <2> SUFFICES ASSUME NEW c \in (0 - 1)..w PROVE <<c, y>> \in T <=> n[c + 1] = 1
    BY DEF Drawn
  <2>1. CASE c = -1
    <3>1. n[0] = 0 /\ c + 1 = 0
      BY <2>1 DEF Line
    <3> QED
      BY <2>1, <3>1
  <2>2. CASE c # -1
    BY <2>2 DEF Drawn
  <2> QED
    BY <2>1, <2>2
<1>6. OpenAbove(y, h, n, 0, w, base, Len(st), 0, R)
  BY <1>1 DEF OpenAbove
<1>7. WaitAbove(y, mr, h, n, 0, w, R)
  BY DEF WaitAbove
<1> QED
  BY <1>2, <1>3, <1>4, <1>5, <1>6, <1>7 DEF Recalls

(* Nothing is known of a line that begins. *)
LEMMA SeesNothing == \A T, y, m, start, end, R : Sees(T, y, m, start, end, "NONOBJECT", 0, 0, 0, R)
<1> SUFFICES ASSUME NEW T, NEW y, NEW m, NEW start, NEW end, NEW R
             PROVE  Sees(T, y, m, start, end, "NONOBJECT", 0, 0, 0, R)
  OBVIOUS
<1>1. PICK h, n, lev : Draws(m, start, end, "NONOBJECT", 0, 0, h, n, lev)
  BY PastStart DEF Past, Draws
<1>2. (\A c \in 0..(0 - 1) : FALSE) /\ \A j \in 1..0 : FALSE
  OBVIOUS
<1>3. Drawn(T, y, n, 0, 0 - 1) /\ OpenHere(y, start, 0, 0, h, n, lev, R) /\ WaitHere(y, m, start, 0, 0, h, n, R)
  BY <1>2 DEF Drawn, OpenHere, WaitHere
<1> QED
  BY <1>1, <1>3 DEF Sees

(* The next column, or the next line. *)
LEMMA TellsAdvance ==
  ASSUME NEW w \in Nat \ {0}, NEW v, Inside(v, w), "y" \in DOMAIN v, v.y \in Int,
         Known(v, v.x + 1),
         Rest(v.marker, Depth(v), Under(v), v.x + 1, w), v.x = w => v.cs = "NONOBJECT",
         NEW T, <<-1, v.y>> \notin T, NEW mr, \A c \in (v.x + 1)..w : v.marker[c] = mr[c], NEW R,
         Tells(v, w, T, v.y, mr, v.x + 1, v.x + 1, v.x + 1, R),
         NEW next, next = Advance(v, w)
  PROVE  Tells(next, w, T, next.y, next.marker, next.x, next.x, next.x, R)
<1>1. /\ v.x \in 0..w /\ w \in Nat /\ LineFields \subseteq DOMAIN v
  BY DEF Inside, HasLine
<1>2. CASE v.x < w
  <2>1. next = [v EXCEPT !.x = v.x + 1]
    BY <1>2 DEF Advance
  <2>2. PICK X : X = v.x + 1 /\ X \in 0..(w + 1)
    BY <1>1
  <2>3. /\ next.x = X /\ next.y = v.y
        /\ next.marker = v.marker /\ next.start = v.start /\ next.end = v.end
        /\ next.psstack = v.psstack /\ next.co = v.co /\ next.ps = v.ps /\ next.cs = v.cs
    BY <1>1, <2>1, <2>2 DEF LineFields
  <2>4. PICK yy : yy = v.y - 1
    OBVIOUS
  <2>5. Recalls(T, yy, mr, v.psstack, v.ps, v.cs, v.co, X, w, R) /\ \A c \in X..w : v.marker[c] = mr[c]
    BY <2>2, <2>4 DEF Tells
  <2>6. Recalls(T, yy, v.marker, v.psstack, v.ps, v.cs, v.co, X, w, R)
    BY ONLY w \in Nat, <2>2, <2>5, RecallsMarks
  <2> QED
    BY <2>2, <2>3, <2>4, <2>6 DEF Tells
<1>3. CASE ~(v.x < w)
  <2>1. v.x = w
    BY <1>1, <1>3
  <2>2. /\ v.co = 0 /\ v.ps = "COMPLETE" /\ Len(v.psstack) = 0 /\ v.cs = "NONOBJECT"
    BY <2>1, LineDone
  <2>3. next = [v EXCEPT !.x = 0, !.y = v.y + 1, !.ps = "COMPLETE", !.cs = "NONOBJECT"]
    BY <1>3 DEF Advance
  <2>4. /\ next.x = 0 /\ next.y = v.y + 1
        /\ next.marker = v.marker /\ next.start = v.start /\ next.end = v.end
        /\ next.psstack = v.psstack /\ next.co = 0 /\ next.ps = "COMPLETE" /\ next.cs = "NONOBJECT"
    BY <1>1, <2>2, <2>3 DEF LineFields
  <2>5. PICK X, y : X = w + 1 /\ y = v.y
    OBVIOUS
  <2>6. Sees(T, y, v.marker, v.start, v.end, "NONOBJECT", 0, X, X, R)
    BY <2>1, <2>2, <2>5 DEF Tells
  <2>7. PICK h, n, lev :
          /\ Draws(v.marker, v.start, v.end, "NONOBJECT", 0, X, h, n, lev)
          /\ Drawn(T, y, n, 0, X - 1)
          /\ WaitHere(y, v.marker, v.start, 0, X, h, n, R)
    BY <2>6 DEF Sees
  <2>8. Line(v.marker, w + 1, h, n) /\ h[w + 1] = 0 /\ n[w + 1] = 0
    BY <2>5, <2>7 DEF Draws, Regions, Levels, InRun
  <2>9. X - 1 = w
    BY <2>5
  <2>10. Drawn(T, y, n, 0, w)
    BY <2>7, <2>9
  <2>11. \A c \in 0..w : v.marker[c] = "S" => Bracket(y, c, w, h, n, R[<<"store", c>>])
    <3>1. \A c : v.marker[c] = "S" => Waits(c, v.marker, v.start, 0)
      BY DEF Waits
    <3> QED
      BY <2>7, <2>9, <3>1 DEF WaitHere
  <2>12. Recalls(T, y, v.marker, v.psstack, "COMPLETE", "NONOBJECT", 0, 0, w, R)
    BY <2>2, <2>5, <2>8, <2>10, <2>11, RecallsFresh
  <2>13. Sees(T, next.y, next.marker, next.start, next.end, "NONOBJECT", 0, 0, 0, R)
    BY SeesNothing
  <2>14. next.y - 1 = y
    BY <2>4, <2>5
  <2> QED
    BY <2>4, <2>12, <2>13, <2>14 DEF Tells
<1> QED
  BY <1>2, <1>3

(* A call begins with nothing told. *)
LEMMA TellsNew ==
  ASSUME NEW w \in Nat \ {0}, NEW n, NEW s, s = NewScan(w, n), NEW T, \A c : <<c, -1>> \notin T,
         NEW R
  PROVE  Tells(s, w, T, s.y, s.marker, s.x, s.x, s.x, R)
<1>1. PICK m : m = [i \in 0..w |-> "none"]
  OBVIOUS
<1>2. /\ s.x = 0 /\ s.y = 0 /\ s.marker = m /\ s.psstack = <<>> /\ s.ps = "COMPLETE" /\ s.cs = "NONOBJECT" /\ s.co = 0
  BY <1>1 DEF NewScan
<1> DEFINE z == [c \in 0..(w + 1) |-> 0]
<1>3. /\ \A c \in 0..(w + 1) : z[c] = 0
      /\ \A c \in 0..w : m[c] = "none" /\ z[c] = 0 /\ z[c + 1] = 0
      /\ 0 \in 0..(w + 1) /\ w + 1 \in 0..(w + 1)
  BY <1>1
<1> HIDE DEF z
<1>4. Line(m, w + 1, z, z) /\ z[w + 1] = 0
  <2>1. \A c \in 0..w : Turn(m[c], z[c], z[c], z[c + 1], z[c + 1])
    BY <1>3 DEF Turn
  <2>2. \A c \in 0..(w + 1 - 1) : c \in 0..w
    OBVIOUS
  <2> QED
    BY <1>3, <2>1, <2>2 DEF Line
<1>5. ASSUME NEW yy, yy = -1 PROVE Drawn(T, yy, z, 0, w)
  <2> SUFFICES ASSUME NEW c \in 0..w PROVE <<c, yy>> \in T <=> z[c + 1] = 1
    BY DEF Drawn
  <2>1. z[c + 1] = 0
    BY <1>3
  <2>2. <<c, yy>> \notin T
    BY <1>5
  <2> QED
    BY <2>1, <2>2
<1>6. \A c \in 0..w : m[c] # "S"
  BY <1>3
<1>7. Recalls(T, -1, m, <<>>, "COMPLETE", "NONOBJECT", 0, 0, w, R)
  <2>1. PICK yy : yy = -1
    OBVIOUS
  <2>2. <<-1, yy>> \notin T /\ Drawn(T, yy, z, 0, w)
    BY <1>5, <2>1
  <2>3. PICK st : st = <<>> /\ Len(st) = 0
    OBVIOUS
  <2>4. Recalls(T, yy, m, st, "COMPLETE", "NONOBJECT", 0, 0, w, R)
    BY <1>4, <1>6, <2>2, <2>3, RecallsFresh
  <2> QED
    BY <2>1, <2>3, <2>4
<1>8. Sees(T, s.y, s.marker, s.start, s.end, "NONOBJECT", 0, 0, 0, R)
  BY SeesNothing
<1> QED
  BY <1>2, <1>7, <1>8 DEF Tells

(* The pixel before this one, if it is lit, is in the region of the run. *)
LEMMA LastInRun ==
  ASSUME NEW T, NEW y, NEW m, NEW start, NEW end, NEW co \in Nat, NEW X \in Nat,
         NEW Z \in Nat \ {0}, X = Z \/ X = Z + 1,
         NEW R, Sees(T, y, m, start, end, "OBJECT", co, X, Z, R), <<Z - 1, y>> \in T
  PROVE  <<Z - 1, y>> \in R[<<"info", co>>]
<1>1. PICK h, n, lev :
        /\ Draws(m, start, end, "OBJECT", co, X, h, n, lev)
        /\ Drawn(T, y, n, 0, Z - 1)
        /\ OpenHere(y, start, co, Z, h, n, lev, R)
  BY DEF Sees
<1>2. PICK d : d = Z - 1 /\ d \in 0..(Z - 1) /\ d + 1 = Z /\ d \in Nat
  OBVIOUS
<1>3. n[Z] = 1
  BY <1>1, <1>2 DEF Drawn
<1>4. /\ h[X] = lev[co] /\ n[X] = 1 /\ co # 0 /\ start[co] # UNKNOWN /\ co \in 1..co
      /\ Begun(co, m, start, X, h, lev)
  <2>1. co # 0
    BY <1>1 DEF Draws, Regions
  <2>2. co \in 1..co
    BY <2>1
  <2> QED
    BY <1>1, <2>1, <2>2 DEF Draws, Regions, InRun
<1>5. /\ start[co] \in 0..(X - 1) /\ m[start[co]] = "S"
  BY <1>4 DEF Begun
<1>6. h[Z] = lev[co] /\ start[co] <= d
  <2>1. CASE X = Z
    BY <1>2, <1>4, <1>5, <2>1
  <2>2. CASE X = Z + 1
    <3>1. Turn(m[Z], h[Z], n[Z], h[Z + 1], n[Z + 1]) /\ n[Z + 1] = 1 /\ h[Z + 1] = lev[co]
      <4>1. Z \in 0..(X - 1)
        BY <2>2
      <4> QED
        BY <1>1, <1>4, <2>2, <4>1 DEF Draws, Line
    <3>2. m[Z] = "none" /\ h[Z] = lev[co]
      BY <1>3, <3>1 DEF Turn
    <3>3. start[co] # Z
      BY <1>5, <3>2
    <3> QED
      BY <1>2, <1>5, <2>2, <3>2, <3>3
  <2> QED
    BY <2>1, <2>2
<1>7. d \in start[co]..(Z - 1)
  BY <1>2, <1>5, <1>6
<1> QED
  BY <1>1, <1>2, <1>3, <1>4, <1>6, <1>7 DEF OpenHere

(* The pixel above the one before this one is in the region of its run. *)
LEMMA LastAbove ==
  ASSUME NEW T, NEW y, NEW mr, NEW w \in Nat, NEW x \in 0..(w + 1), NEW st, IsStack(st), NEW ps,
         NEW cs, NEW co \in Nat,
         NEW R, Recalls(T, y, mr, st, ps, cs, co, x, w, R)
  PROVE  /\ <<x - 1, y>> \in T <=> ps = "OBJECT"
         /\ ps = "OBJECT" => <<x - 1, y>> \in R[<<"info", co>>]
<1>1. PICK h, n, base :
        /\ Frame(st, ps, cs, co, base)
        /\ h[x] = Len(st) - co /\ n[x] = InSegment(ps)
        /\ Drawn(T, y, n, x - 1, w)
        /\ OpenAbove(y, h, n, x, w, base, Len(st), co, R)
  BY DEF Recalls
<1>2. PICK d : d = x - 1 /\ d \in (x - 1)..w /\ d + 1 = x
  OBVIOUS
<1>3. <<d, y>> \in T <=> n[x] = 1
  BY <1>1, <1>2 DEF Drawn
<1>4. ASSUME ps = "OBJECT" PROVE <<d, y>> \in R[<<"info", co>>]
  <2>1. Len(st) \in Nat
    BY DEF IsStack
  <2>2. Framed(st, ps, cs, co)
    BY <1>1 DEF Frame, Framed
  <2>3. co # 0
    BY <1>4, <2>2, FramedCount
  <2>4. base[co] \in Nat /\ base[co] <= Len(st)
    BY <1>1, <1>4, <2>1, TopBase
  <2>5. Owns(base, co, h[x], co, Len(st))
    BY <1>1, <2>1, <2>3, <2>4 DEF Owns
  <2>6. Within(h, x, x, h[x])
    BY <1>1, <2>1 DEF Within
  <2>7. n[x] = 1 /\ co \in 1..co
    BY <1>1, <1>4, <2>3 DEF InSegment
  <2> QED
    BY <1>1, <1>2, <2>5, <2>6, <2>7 DEF OpenAbove
<1> QED
  BY <1>1, <1>2, <1>3, <1>4 DEF InSegment

(* What the line above has at this column. *)
LEMMA MarkAbove ==
  ASSUME NEW T, NEW y, NEW mr, NEW w \in Nat, NEW x \in 0..w, NEW st, IsStack(st), NEW ps,
         NEW cs, NEW co \in Nat,
         NEW R, Recalls(T, y, mr, st, ps, cs, co, x, w, R)
  PROVE  /\ mr[x] = "S" => <<x, y>> \in R[<<"store", x>>] /\ ps # "OBJECT"
         /\ mr[x] = "s" /\ ps = "COMPLETE" /\ co # 0 /\ co - 1 # 0 => <<x, y>> \in R[<<"info", co - 1>>]
         /\ <<x, y>> \notin T => mr[x] \in {"none", "f", "F"} /\ (mr[x] = "none" => ps # "OBJECT")
<1>1. PICK h, n, base :
        /\ Frame(st, ps, cs, co, base) /\ Ahead(mr, h, n, x, w)
        /\ h[x] = Len(st) - co /\ n[x] = InSegment(ps)
        /\ Drawn(T, y, n, x - 1, w)
        /\ OpenAbove(y, h, n, x, w, base, Len(st), co, R)
        /\ WaitAbove(y, mr, h, n, x, w, R)
  BY DEF Recalls
<1>2. x \in (x - 1)..w /\ x \in x..w /\ x + 1 \in x..(w + 1) /\ x \in x..(w + 1 - 1)
  OBVIOUS
<1>3. /\ Turn(mr[x], h[x], n[x], h[x + 1], n[x + 1])
      /\ h[x] \in Nat /\ h[x + 1] \in Nat
  BY <1>1, <1>2 DEF Ahead, Reads
<1>4. <<x, y>> \in T <=> n[x + 1] = 1
  BY <1>1, <1>2 DEF Drawn
<1>5. ASSUME mr[x] = "S" PROVE <<x, y>> \in R[<<"store", x>>] /\ ps # "OBJECT"
  <2>1. n[x + 1] = 1 /\ h[x + 1] = h[x] + 1 /\ n[x] = 0
    BY <1>3, <1>5 DEF Turn
  <2>2. Within(h, x + 1, x + 1, h[x] + 1)
    BY <1>3, <2>1 DEF Within
  <2>3. Bracket(y, x, w, h, n, R[<<"store", x>>])
    BY <1>1, <1>2, <1>5 DEF WaitAbove
  <2> QED
    BY <1>1, <1>2, <2>1, <2>2, <2>3 DEF Bracket, InSegment
<1>6. ASSUME mr[x] = "s", ps = "COMPLETE", co # 0, co - 1 # 0 PROVE <<x, y>> \in R[<<"info", co - 1>>]
  <2>1. n[x + 1] = 1 /\ h[x + 1] = h[x]
    BY <1>3, <1>6 DEF Turn
  <2>2. Within(h, x, x + 1, h[x + 1])
    BY <1>3, <2>1 DEF Within
  <2>3. Len(st) \in Nat
    BY DEF IsStack
  <2>4. /\ base[co] = Len(st) + 1 /\ co - 1 \in 0..co /\ base[co - 1] + 2 <= base[co] /\ base[co - 1] \in Nat
    <3>1. co - 1 \in 0..co
      BY <1>6
    <3> QED
      BY <1>1, <1>6, <2>3, <3>1, TopBase
  <2>5. PICK k : k = co - 1 /\ k \in 1..co /\ k # co /\ k + 1 = co
    BY <1>6
  <2>6. Owns(base, k, h[x + 1], co, Len(st))
    BY <1>1, <2>1, <2>3, <2>4, <2>5 DEF Owns
  <2>7. <<x, y>> \in R[<<"info", k>>]
    BY <1>1, <1>2, <2>1, <2>2, <2>5, <2>6 DEF OpenAbove
  <2> QED
    BY <2>5, <2>7
<1>7. ASSUME <<x, y>> \notin T PROVE mr[x] \in {"none", "f", "F"} /\ (mr[x] = "none" => ps # "OBJECT")
  <2>1. n[x + 1] # 1
    BY <1>4, <1>7
  <2> QED
    BY <1>1, <1>3, <2>1 DEF Turn, InSegment
<1> QED
  BY <1>5, <1>6, <1>7

(* Every lit pixel of this line is in a region that is held. *)
LEMMA HereIsHeld ==
  ASSUME NEW T, NEW y, NEW w \in Nat, NEW m, NEW start, NEW end, NEW cs, NEW co \in Nat,
         NEW X \in 0..(w + 1), NEW Z \in 0..X, Z <= w + 1,
         NEW R, Sees(T, y, m, start, end, cs, co, X, Z, R), NEW d \in 0..(Z - 1), <<d, y>> \in T
  PROVE  \E at \in GrowingAt(w, m, start, co) : <<d, y>> \in R[at]
<1>1. PICK h, n, lev :
        /\ Draws(m, start, end, cs, co, X, h, n, lev)
        /\ Drawn(T, y, n, 0, Z - 1)
        /\ OpenHere(y, start, co, Z, h, n, lev, R)
        /\ WaitHere(y, m, start, co, Z, h, n, R)
  BY DEF Sees
<1>2. /\ X \in Nat /\ d \in Nat /\ d + 1 \in 0..X /\ d \in 0..w /\ d \in Int
  OBVIOUS
<1>3. Reads(m, h, n, 0, X) /\ \A c \in 0..X : n[c] = 1 => h[c] # 0
  BY <1>1, <1>2, LineReads DEF Draws
<1>4. PICK g : g = h[d + 1]
  OBVIOUS
<1>5. n[d + 1] = 1 /\ g \in Nat /\ g # 0 /\ h[0] = 0
  BY <1>1, <1>2, <1>3, <1>4 DEF Drawn, Reads, Draws, Line
<1>6. ~Within(h, 0, d + 1, g) /\ g <= h[d + 1]
  <2>1. 0 \in 0..(d + 1)
    BY <1>2
  <2> QED
    BY <1>4, <1>5, <2>1 DEF Within
<1>7. PICK e \in 0..d : m[e] = "S" /\ h[e] + 1 = g /\ h[e] \in Nat /\ Within(h, e + 1, d + 1, g)
  <2>1. PICK a, k : a = 0 /\ k = d + 1
    OBVIOUS
  <2>2. /\ a \in Nat /\ X \in Nat
        /\ Reads(m, h, n, a, X)
        /\ k \in a..X
        /\ g \in Nat
        /\ g <= h[k]
        /\ ~Within(h, a, k, g)
    BY <1>2, <1>3, <1>5, <1>6, <2>1
  <2>3. BeganBelow(m, h, n, a, k, g)
    BY ONLY <2>2, LastBelow
  <2> QED
    BY <1>2, <2>1, <2>3 DEF BeganBelow
<1>8. e \in 0..(Z - 1) /\ d \in e..(Z - 1) /\ e \in 0..w
  BY <1>2, <1>7
<1>9. CASE Waits(e, m, start, co)
  <2>1. Bracket(y, e, Z - 1, h, n, R[<<"store", e>>])
    BY <1>1, <1>8, <1>9 DEF WaitHere
  <2>2. h[d + 1] = h[e] + 1 /\ Within(h, e + 1, d + 1, h[e] + 1)
    BY <1>4, <1>7
  <2>3. <<d, y>> \in R[<<"store", e>>]
    BY <1>5, <1>8, <2>1, <2>2 DEF Bracket
  <2>4. <<"store", e>> \in GrowingAt(w, m, start, co)
    BY <1>8, <1>9, GrowingPlaces
  <2> QED
    BY <2>3, <2>4
<1>10. CASE ~Waits(e, m, start, co)
  <2>1. PICK j \in 1..co : start[j] = e
    BY <1>7, <1>10 DEF Waits
  <2>2. start[j] # UNKNOWN
    BY <1>8, <2>1 DEF UNKNOWN
  <2>3. Begun(j, m, start, X, h, lev)
    BY <1>1, <2>2 DEF Draws, Regions
  <2>4. h[d + 1] = lev[j]
    BY <1>4, <1>7, <2>1, <2>3 DEF Begun
  <2>5. <<d, y>> \in R[<<"info", j>>]
    BY <1>1, <1>5, <1>8, <2>1, <2>2, <2>4 DEF OpenHere
  <2>6. <<"info", j>> \in GrowingAt(w, m, start, co)
    BY GrowingPlaces
  <2> QED
    BY <2>5, <2>6
<1> QED
  BY <1>9, <1>10

(* A pixel of the line above is in an open region, or in one it tells waits. *)
HeldAbove(p, mr, co, x, w, R) ==
  \/ \E j \in 1..co : p \in R[<<"info", j>>]
  \/ \E c \in x..w : mr[c] = "S" /\ p \in R[<<"store", c>>]

(* Every lit pixel of the line above that is not past is in a region held: *)
(* an open one, or one of which that line tells that it waits.             *)
LEMMA AboveIsHeld ==
  ASSUME NEW T, NEW y, NEW mr, NEW w \in Nat, NEW x \in 0..(w + 1), NEW st, IsStack(st), NEW ps,
         NEW cs, NEW co \in Nat,
         NEW R, Recalls(T, y, mr, st, ps, cs, co, x, w, R), NEW d \in (x - 1)..w, <<d, y>> \in T
  PROVE  HeldAbove(<<d, y>>, mr, co, x, w, R)
<1>1. PICK h, n, base :
        /\ Frame(st, ps, cs, co, base) /\ Ahead(mr, h, n, x, w)
        /\ h[x] = Len(st) - co /\ n[x] = InSegment(ps)
        /\ Drawn(T, y, n, x - 1, w)
        /\ OpenAbove(y, h, n, x, w, base, Len(st), co, R)
        /\ WaitAbove(y, mr, h, n, x, w, R)
  BY DEF Recalls
<1>2. x \in Nat /\ w + 1 \in Nat /\ d \in Int /\ d + 1 \in x..(w + 1) /\ Len(st) \in Nat
  BY DEF IsStack
<1>3. Reads(mr, h, n, x, w + 1)
  BY <1>1 DEF Ahead
<1>4. n[x] = 1 => h[x] # 0
  <2> SUFFICES ASSUME n[x] = 1 PROVE h[x] # 0
    OBVIOUS
  <2>1. ps = "OBJECT"
    BY <1>1 DEF InSegment
  <2>2. Framed(st, ps, cs, co)
    BY <1>1 DEF Frame, Framed
  <2>3. co # 0 /\ 2 * co <= Len(st)
    BY <2>1, <2>2, FramedCount
  <2> QED
    BY <1>1, <1>2, <2>3
<1>5. \A c \in x..(w + 1) : n[c] = 1 => h[c] # 0
  BY <1>2, <1>3, <1>4, RunsAbove
<1>6. PICK g : g = h[d + 1]
  OBVIOUS
<1>7. n[d + 1] = 1 /\ g \in Nat /\ g # 0
  BY <1>1, <1>2, <1>3, <1>5, <1>6 DEF Drawn, Reads
<1>8. CASE Within(h, x, d + 1, g)
  <2>1. x \in x..(d + 1)
    BY <1>2
  <2>2. g <= h[x]
    BY <1>8, <2>1 DEF Within
  <2>3. g \in Nat \ {0} /\ g <= Len(st) - co
    BY <1>1, <1>7, <2>2
  <2>4. PICK j \in 1..co : Owns(base, j, g, co, Len(st))
    BY <1>1, <1>2, <2>3, OwnerIs
  <2>5. <<d, y>> \in R[<<"info", j>>]
    BY <1>1, <1>6, <1>7, <1>8, <2>4 DEF OpenAbove
  <2> QED
    BY <2>5 DEF HeldAbove
<1>9. CASE ~Within(h, x, d + 1, g)
  <2>1. g <= h[d + 1]
    BY <1>6, <1>7
  <2>2. PICK e \in x..d : mr[e] = "S" /\ h[e] + 1 = g /\ h[e] \in Nat /\ Within(h, e + 1, d + 1, g)
    <3>1. PICK b, k : b = w + 1 /\ k = d + 1
      OBVIOUS
    <3>2. /\ x \in Nat /\ b \in Nat
          /\ Reads(mr, h, n, x, b)
          /\ k \in x..b
          /\ g \in Nat
          /\ g <= h[k]
          /\ ~Within(h, x, k, g)
      BY <1>2, <1>3, <1>7, <1>9, <2>1, <3>1
    <3>3. BeganBelow(mr, h, n, x, k, g)
      BY ONLY <3>2, LastBelow
    <3> QED
      BY <1>2, <3>1, <3>3 DEF BeganBelow
  <2>3. e \in x..w /\ d \in e..w
    BY <1>2, <2>2
  <2>4. Bracket(y, e, w, h, n, R[<<"store", e>>])
    BY <1>1, <2>2, <2>3 DEF WaitAbove
  <2>5. h[d + 1] = h[e] + 1 /\ Within(h, e + 1, d + 1, h[e] + 1)
    BY <1>6, <2>2
  <2>6. <<d, y>> \in R[<<"store", e>>]
    BY <1>7, <2>3, <2>4, <2>5 DEF Bracket
  <2> QED
    BY <2>2, <2>3, <2>6 DEF HeldAbove
<1> QED
  BY <1>8, <1>9

(* What waits on the line above still waits. *)
LEMMA StillWaits ==
  ASSUME NEW m, NEW start, NEW end, NEW cs, NEW co \in Nat, NEW X \in Nat,
         Past(m, start, end, cs, co, X),
         NEW c \in Nat, X <= c, m[c] = "S"
  PROVE  Waits(c, m, start, co)
<1>1. PICK h, n, lev : Regions(m, start, end, cs, co, X, h, n, lev)
  BY DEF Past
<1> SUFFICES ASSUME NEW i \in 1..co PROVE start[i] # c
  BY DEF Waits
<1>2. start[i] = UNKNOWN \/ start[i] \in 0..(X - 1)
  BY <1>1 DEF Regions, Begun
<1> QED
  BY <1>2 DEF UNKNOWN

(* So both lines are covered. *)
LEMMA TellsHeld ==
  ASSUME NEW w \in Nat, NEW s, Inside(s, w), NEW X \in 0..(w + 1), Known(s, X), NEW Z \in 0..X,
         NEW x \in 0..(w + 1), X <= x,
         NEW T, NEW y, NEW mr, \A c \in x..w : s.marker[c] = mr[c], NEW R,
         Tells(s, w, T, y, mr, X, Z, x, R)
  PROVE  /\ \A d \in 0..(Z - 1) : <<d, y>> \in T => \E at \in GrowingIn(w, s) : <<d, y>> \in R[at]
         /\ \A d \in (x - 1)..w : <<d, y - 1>> \in T => \E at \in GrowingIn(w, s) : <<d, y - 1>> \in R[at]
<1>1. PICK m, start, end, st, ps, cs, co : IsLine(s, m, start, end, st, ps, cs, co)
  BY DEF IsLine
<1>2. co \in Nat /\ IsStack(st) /\ X \in Nat /\ x \in Nat /\ Z <= w + 1
  BY <1>1 DEF Inside, IsLine
<1>3. PICK yy : yy = y - 1
  OBVIOUS
<1>4. /\ Sees(T, y, m, start, end, cs, co, X, Z, R) /\ Recalls(T, yy, mr, st, ps, cs, co, x, w, R)
      /\ GrowingIn(w, s) = GrowingAt(w, m, start, co) /\ Past(m, start, end, cs, co, X)
      /\ \A c \in x..w : m[c] = mr[c]
  BY <1>1, <1>3 DEF Tells, IsLine, GrowingIn, Known
<1>5. ASSUME NEW d \in 0..(Z - 1), <<d, y>> \in T PROVE \E at \in GrowingAt(w, m, start, co) : <<d, y>> \in R[at]
  BY <1>2, <1>4, <1>5, HereIsHeld
<1>6. ASSUME NEW d \in (x - 1)..w, <<d, yy>> \in T PROVE \E at \in GrowingAt(w, m, start, co) : <<d, yy>> \in R[at]
  <2>1. HeldAbove(<<d, yy>>, mr, co, x, w, R)
    <3>1. /\ x \in 0..(w + 1)
          /\ IsStack(st)
          /\ co \in Nat
          /\ Recalls(T, yy, mr, st, ps, cs, co, x, w, R)
          /\ d \in (x - 1)..w
          /\ <<d, yy>> \in T
      BY <1>2, <1>4, <1>6
    <3> QED
      BY <3>1, AboveIsHeld, ZenonT(60)
  <2>2. CASE \E j \in 1..co : <<d, yy>> \in R[<<"info", j>>]
    BY <2>2, GrowingPlaces
  <2>3. CASE \E c \in x..w : mr[c] = "S" /\ <<d, yy>> \in R[<<"store", c>>]
    <3>1. PICK c \in x..w : mr[c] = "S" /\ <<d, yy>> \in R[<<"store", c>>]
      BY <2>3
    <3>2. c \in Nat /\ X <= c /\ c \in 0..w /\ m[c] = "S"
      BY <1>2, <1>4, <3>1
    <3>3. Waits(c, m, start, co)
      BY <1>2, <1>4, <3>2, StillWaits
    <3>4. <<"store", c>> \in GrowingAt(w, m, start, co)
      BY <3>2, <3>3, GrowingPlaces
    <3> QED
      BY <3>1, <3>4
  <2> QED
    BY <2>1, <2>2, <2>3 DEF HeldAbove
<1> QED
  BY <1>3, <1>4, <1>5, <1>6
=============================================================================
