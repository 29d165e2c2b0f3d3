---------------------------- MODULE MCExtraction ----------------------------
(* Images: every combination of two classes on a small one, every row of    *)
(* four classes drawn two pixels high, where regions have up to three peaks *)
(* one inside the other, and some shapes that wind round each other.        *)
EXTENDS Extraction, TLC

Binary(w, h) == {[w |-> w, h |-> h, val |-> v] : v \in [Pixels(w, h) -> 0..1]}
Striped(w)   == {[w |-> w, h |-> 2, val |-> [p \in Pixels(w, 2) |-> v[p[1]]]] :
                   v \in [0..w-1 -> 0..3]}
Drawn(rows)  == LET w == Len(rows[1])
                    h == Len(rows)
                IN  [w |-> w, h |-> h,
                     val |-> [p \in Pixels(w, h) |-> rows[p[2] + 1][p[1] + 1]]]

Spiral == << <<1, 1, 1, 1, 1>>,
             <<0, 0, 0, 0, 1>>,
             <<1, 1, 1, 0, 1>>,
             <<1, 0, 0, 0, 1>>,
             <<1, 1, 1, 1, 1>> >>
Nested == << <<1, 0, 0, 0, 0, 0, 1>>,
             <<1, 0, 1, 0, 1, 0, 1>>,
             <<1, 0, 1, 1, 1, 0, 1>>,
             <<1, 0, 0, 0, 0, 0, 1>>,
             <<1, 1, 1, 1, 1, 1, 1>> >>
Comb   == << <<1, 0, 1, 0, 1, 0, 1>>,
             <<1, 0, 1, 0, 1, 0, 1>>,
             <<1, 1, 1, 0, 1, 1, 1>>,
             <<0, 0, 1, 0, 1, 0, 0>>,
             <<0, 0, 0, 1, 0, 0, 0>> >>
Ring   == << <<0, 1, 1, 1, 1, 0>>,
             <<1, 0, 0, 0, 0, 1>>,
             <<1, 0, 1, 1, 0, 1>>,
             <<1, 0, 0, 0, 0, 1>>,
             <<0, 1, 1, 1, 1, 0>> >>
Hook   == << <<2, 2, 2, 2>>,
             <<2, 1, 1, 1>>,
             <<2, 1, 3, 3>> >>

MCImages == Binary(4, 3) \union Striped(5)
              \union {Drawn(Spiral), Drawn(Nested), Drawn(Comb), Drawn(Ring), Drawn(Hook)}
MCStacks == {4, 26}
MCMinCont == <<1, 10>>
=============================================================================
