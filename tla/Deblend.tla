------------------------------ MODULE Deblend ------------------------------
(***************************************************************************)
(* Deblending of one detection: deblend() of sep_src/deblend.c.            *)
(*                                                                         *)
(* The detection is thresholded again at levels between its own threshold  *)
(* and its peak, equidistant in the exponent.  The regions found at a      *)
(* level inside a region of the level below are its sons: a tree.  From    *)
(* the top down, a region with two or more sons that stand out by a share  *)
(* MinCont of the whole flux is cut, and those sons become objects; the    *)
(* pixels that no object has are given to one of them each.                *)
(*                                                                         *)
(* Pixel values are powers: class u stands for 2^(NThresh * u), so that    *)
(* every level and every flux is an integer.                               *)
(***************************************************************************)
EXTENDS PixelGrid

CONSTANTS
  NThresh,  \* deblend_nthresh
  MinCont,  \* deblend_mincont, as <<numerator, denominator>>
  MinArea,  \* minarea
  SubLimit  \* nsonmax

ASSUME DeblendAssumption ==
  /\ NThresh \in Nat \ {0} /\ MinArea \in Nat \ {0} /\ SubLimit \in Nat \ {0}
  /\ MinCont \in Nat \X (Nat \ {0})

MAXDEBAREA == 3

(* 2^n *)
TwoTo(n) == LET Power[k \in 0..n] == IF k = 0 THEN 1 ELSE 2 * Power[k - 1] IN Power[n]

Intensity(u) == TwoTo(NThresh * u)

(* The threshold of level k for a detection above class t with its peak in class u. *)
LevelAt(k, t, u) == TwoTo(NThresh * t + k * (u - t))

Peak(S, val) == Max({val[p] : p \in S})
Flux(S, val) == MapThenSumSet(LAMBDA p : Intensity(val[p]), S)

SonArea == IF MinArea < MAXDEBAREA THEN MinArea ELSE MAXDEBAREA

(* lutz(): the regions of the detection above the level in the box of a region. *)
LutzRegions(parent, detection, val, level) ==
  {S \in Components({p \in InBoxOf(parent, detection) : Intensity(val[p]) > level}) :
     Cardinality(S) >= SonArea}

(* belong(): decided by one pixel, which is enough for regions. *)
Belong(S, parent) == (CHOOSE p \in S : TRUE) \in parent

(* A region of the tree and the region of the level below it is a son of. *)
Root(S) == [pix |-> S, up |-> {}]

SonsOf(o, detection, val, level) ==
  {[pix |-> S, up |-> o.pix] : S \in {R \in LutzRegions(o.pix, detection, val, level) :
                                        Belong(R, o.pix)}}

(* The tree, level by level, from the detection itself at level 0. *)
Tree(S, val, t) ==
  LET u == Peak(S, val)
      Level[k \in 0..NThresh-1] ==
        IF k = 0 THEN {Root(S)}
        ELSE LET below == Level[k - 1]
             IN  UNION {SonsOf(o, S, val, LevelAt(k, t, u)) : o \in below}
  IN  [k \in 0..NThresh-1 |-> Level[k]]

(* More sub-objects on a level than there is room for. *)
Overflows(tree) ==
  \E k \in 1..NThresh-1 : \/ Cardinality(tree[k - 1]) >= SubLimit
                          \/ Cardinality(tree[k]) > SubLimit

Sons(o, tree, k) == {s \in tree[k + 1] : s.up = o.pix}

(* A region stands out: its flux above its level is more than MinCont of all. *)
StandsOut(o, level, S, val) ==
  (Flux(o.pix, val) - level * Cardinality(o.pix)) * MinCont[2] > Flux(S, val) * MinCont[1]

(* Mutant: a region is cut although a region above it has been cut. *)
CutTwice(S, val, t) ==
  LET tree == Tree(S, val, t)
      u == Peak(S, val)
      Over(o, k) == {s \in Sons(o, tree, k) : StandsOut(s, LevelAt(k + 1, t, u), S, val)}
      Parts(k) == UNION {Over(o, k) : o \in {r \in tree[k] : Cardinality(Over(r, k)) > 1}}
      all == UNION {Parts(k) : k \in 0..NThresh-2}
  IN  [uncut |-> all = {}, parts |-> all]

(***************************************************************************)
(* "Cut the right branches (top->down)".  Uncut[k]: the regions of level k *)
(* with ok still set, that is, neither they nor any region above them has  *)
(* been cut.                                                               *)
(***************************************************************************)
Cut(S, val, t) ==
  LET tree == Tree(S, val, t)
      u == Peak(S, val)
      Over(o, k) == {s \in Sons(o, tree, k) : StandsOut(s, LevelAt(k + 1, t, u), S, val)}
      Uncut[k \in 0..NThresh-1] ==
        IF k = NThresh - 1 THEN tree[k]
        ELSE LET above == Uncut[k + 1]
             IN  {o \in tree[k] : Sons(o, tree, k) \subseteq above /\ Cardinality(Over(o, k)) <= 1}
      Parts(k) == UNION {Over(o, k) \intersect Uncut[k + 1] :
                           o \in {r \in tree[k] : Cardinality(Over(r, k)) > 1}}
  IN  [uncut |-> Root(S) \in Uncut[0], parts |-> UNION {Parts(k) : k \in 0..NThresh-2}]

(* An object of the output: what was cut out and what it was given. *)
Object(o, pix) == [pix |-> pix, core |-> o.pix]

(* Mutant: pixels that no object has are dropped. *)
GatheredCoresOnly(S, parts) == {{Object(o, o.pix) : o \in parts} : x \in {S}}

(***************************************************************************)
(* gatherup(): each pixel left over goes to one of the objects, drawn by   *)
(* rand_r with weights that fall with the distance: any of them.           *)
(***************************************************************************)
Gathered(S, parts) ==
  LET left == S \ UNION {o.pix : o \in parts}
  IN  {{Object(o, o.pix \union {p \in left : f[p] = o}) : o \in parts} :
         f \in [left -> parts]}

(* What deblend() can return for detection S above class t. *)
Deblended(S, val, t) ==
  IF Overflows(Tree(S, val, t)) THEN {}
  ELSE LET c == Cut(S, val, t)
       IN  IF c.uncut THEN {{Object(Root(S), S)}} ELSE Gathered(S, c.parts)
=============================================================================
