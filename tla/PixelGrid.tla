----------------------------- MODULE PixelGrid -----------------------------
(***************************************************************************)
(* Images, regions and 8-connectivity: the reference the detection engines *)
(* are compared with.  An image is a record of its width, its height and   *)
(* the brightness class of each pixel; a pixel is <<x, y>>, 0-based.       *)
(***************************************************************************)
EXTENDS Integers, FiniteSets, FiniteSetsExt

Pixels(w, h) == (0..w-1) \X (0..h-1)

Near(i, j) == i - j \in {-1, 0, 1}

(* Pixels that touch by an edge or a corner; a pixel touches itself. *)
Touch(p, q) == Near(p[1], q[1]) /\ Near(p[2], q[2])

Around(S, T) == {q \in T : \E p \in S : Touch(p, q)}

(* The pixels of T that can be reached from p in T. *)
RegionOf(p, T) ==
  LET Grown[S \in SUBSET T] ==
        LET more == Around(S, T) IN IF more = S THEN S ELSE Grown[more]
  IN  Grown[{p}]

(* The 8-connected components of T. *)
Components(T) ==
  LET Split[S \in SUBSET T] ==
        IF S = {} THEN {}
        ELSE LET region == RegionOf(CHOOSE p \in S : TRUE, S)
             IN  {region} \union Split[S \ region]
  IN  Split[T]

Connected(S) == \A p \in S : RegionOf(p, S) = S

Columns(S) == {p[1] : p \in S}
Rows(S)    == {p[2] : p \in S}

(* The pixels of T in the bounding box of S. *)
InBoxOf(S, T) ==
  {q \in T : /\ q[1] \in Min(Columns(S))..Max(Columns(S))
             /\ q[2] \in Min(Rows(S))..Max(Rows(S))}

OnBorder(p, w, h) == p[1] \in {0, w - 1} \/ p[2] \in {0, h - 1}

Disjoint(family) == \A S, T \in family : S # T => S \intersect T = {}
=============================================================================
