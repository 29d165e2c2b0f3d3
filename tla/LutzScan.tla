------------------------------ MODULE LutzScan ------------------------------
(***************************************************************************)
(* The one-pass extraction of 8-connected regions (R. K. Lutz) as          *)
(* sep_extract() of sep_src/extract.c runs it: every pixel of the image,   *)
(* and of one empty line and column after it, is visited once; what is     *)
(* known of the regions that may still grow is kept in arrays as wide as   *)
(* the image.  A region's pixels are a linked list of cells; a region that *)
(* can grow no more is handed over and its cells go back to the free list. *)
(*                                                                         *)
(* A scan is a record: the arrays and scalars of the function at the top   *)
(* of an iteration of its inner loop.  x, y is the pixel to be visited     *)
(* next.  Each operator below is one part of the loop body.                *)
(***************************************************************************)
EXTENDS PixelGrid, Sequences

None    == -1   \* end of a list, no cell
UNKNOWN == -1   \* a region that began on an earlier line
Nowhere == <<>> \* a cell that was never used

(* infostruct: a region, by its list of cells. *)
Blank == [pixnb |-> 0, flag |-> FALSE, first |-> None, last |-> None]

NewScan(w, n) ==
  [x |-> 0, y |-> 0,
   marker |-> [i \in 0..w |-> "none"],
   info |-> [i \in 0..w |-> Blank], store |-> [i \in 0..w |-> Blank],
   start |-> [i \in 0..w |-> 0], end |-> [i \in 0..w |-> 0],
   psstack |-> <<>>, co |-> 0, ps |-> "COMPLETE", cs |-> "NONOBJECT",
   nextpix |-> [c \in 0..n-1 |-> IF c = n - 1 THEN None ELSE c + 1],
   pix |-> [c \in 0..n-1 |-> Nowhere],
   free |-> 0, curpix |-> Blank, ready |-> Blank, object |-> <<>>, wild |-> FALSE]

(* The cells of a list, from its first one. *)
CellsFrom(s, cell) ==
  LET From[c \in {None} \union DOMAIN s.nextpix] ==
        IF c = None THEN <<>> ELSE <<c>> \o From[s.nextpix[c]]
  IN  From[cell]

PixelsOf(s, i) == LET c == CellsFrom(s, i.first) IN [k \in DOMAIN c |-> s.pix[c[k]]]

(* An index that is no column: the access would fall outside the arrays. *)
Column(s, i) == i \in DOMAIN s.marker
Checked(s, i) == [s EXCEPT !.wild = @ \/ ~Column(s, i)]

(* psstack *)
Push(s, status) == [s EXCEPT !.psstack = Append(@, status)]
Popped(s) == [s EXCEPT !.psstack = SubSeq(@, 1, Len(@) - 1)]
Pop(s) == [Popped(s) EXCEPT !.ps = s.psstack[Len(s.psstack)]]

(* Mutant: the last cell of a grown list is not moved on. *)
JoinedLosingLast(a, b) ==
  [pixnb |-> a.pixnb + b.pixnb, flag |-> a.flag \/ b.flag,
   first |-> IF a.first = None THEN b.first ELSE a.first,
   last  |-> IF a.first = None THEN b.last ELSE a.last]

(* Mutant: the flag of the joined region is forgotten. *)
JoinedLosingFlag(a, b) ==
  [pixnb |-> a.pixnb + b.pixnb, flag |-> a.flag,
   first |-> IF a.first = None THEN b.first ELSE a.first,
   last  |-> IF a.first = None \/ b.last # None THEN b.last ELSE a.last]

(* update(): region b is appended to region a ... *)
Joined(a, b) ==
  [pixnb |-> a.pixnb + b.pixnb, flag |-> a.flag \/ b.flag,
   first |-> IF a.first = None THEN b.first ELSE a.first,
   last  |-> IF a.first = None \/ b.last # None THEN b.last ELSE a.last]

(* ... here the one at level i of the open regions, whose list is linked on. *)
Update(s, i, b) ==
  LET a == s.info[i] IN
  [s EXCEPT !.info[i] = Joined(a, b),
            !.nextpix = IF a.first # None /\ b.last # None
                        THEN [@ EXCEPT ![a.last] = b.first] ELSE @]

(* A pixel above the threshold takes the first free cell. *)
TakeCell(s, truncated) ==
  LET cn == s.free IN
  [s EXCEPT !.free = s.nextpix[cn], !.nextpix[cn] = None, !.pix[cn] = <<s.x, s.y>>,
            !.curpix = [pixnb |-> 1, flag |-> truncated, first |-> cn, last |-> cn]]

(* Mutant: a region of the line above stays marked as not met on this line. *)
StartSegmentUnmet(s) ==
  IF s.cs = "OBJECT" THEN s
  ELSE IF s.ps = "OBJECT" THEN [s EXCEPT !.cs = "OBJECT", !.marker[s.x] = "s"]
  ELSE [Push(s, s.ps) EXCEPT !.cs = "OBJECT", !.marker[s.x] = "S", !.co = s.co + 1,
          !.start[s.co + 1] = s.x, !.ps = "COMPLETE", !.info[s.co + 1] = Blank]

(* "Start segment": the first pixel of a run on this line. *)
StartSegment(s) ==
  IF s.cs = "OBJECT" THEN s
  ELSE LET t == [s EXCEPT !.cs = "OBJECT"]
           p == Push(t, s.ps)
       IN  IF s.ps # "OBJECT"
           THEN [p EXCEPT !.marker[s.x] = "S", !.co = s.co + 1, !.start[s.co + 1] = s.x,
                          !.ps = "COMPLETE", !.info[s.co + 1] = Blank]
           ELSE IF s.start[s.co] = UNKNOWN
           THEN [t EXCEPT !.marker[s.x] = "S", !.start[s.co] = s.x]
           ELSE [t EXCEPT !.marker[s.x] = "s"]

-----------------------------------------------------------------------------
(* "Process new marker": what the line above left at this column. *)

(* The line above began a region here. *)
MarkerS(s) ==
  LET p == Push(s, s.ps) IN
  IF s.cs = "NONOBJECT"
  THEN [Push(p, "COMPLETE") EXCEPT !.co = s.co + 1, !.info[s.co + 1] = s.store[s.x],
                                   !.start[s.co + 1] = UNKNOWN, !.ps = "OBJECT"]
  ELSE [Update(p, s.co, s.store[s.x]) EXCEPT !.ps = "OBJECT"]

(* Mutant: two regions that meet stay two. *)
MarkerInnerNeverJoins(s) == [s EXCEPT !.ps = "OBJECT"]

(* The line above went on with a region here: the run joins it. *)
MarkerInner(s) ==
  IF s.cs = "OBJECT" /\ s.ps = "COMPLETE"
  THEN LET u == Checked(Update(Popped(s), s.co - 1, s.info[s.co]), s.start[s.co])
           outer == s.start[s.co - 1]
       IN  [u EXCEPT !.co = s.co - 1, !.ps = "OBJECT",
                     !.start[s.co - 1] = IF outer = UNKNOWN THEN s.start[s.co] ELSE @,
                     !.marker = IF outer = UNKNOWN THEN @ ELSE [@ EXCEPT ![s.start[s.co]] = "s"]]
  ELSE [s EXCEPT !.ps = "OBJECT"]

(* Mutant: cells are only given back when the region is large enough. *)
CompleteKeepsSmall(s, minarea) ==
  LET i == s.info[s.co] IN
  IF i.pixnb >= minarea
  THEN [s EXCEPT !.ready = i, !.object = PixelsOf(s, i), !.nextpix[i.last] = s.free, !.free = i.first]
  ELSE s

(* Mutant: a region of exactly minarea pixels is not handed over. *)
CompleteAboveMinarea(s, minarea) ==
  LET i == s.info[s.co]
      big == i.pixnb > minarea
  IN  [s EXCEPT !.ready = IF big THEN i ELSE @, !.object = IF big THEN PixelsOf(s, i) ELSE @,
                !.nextpix[i.last] = s.free, !.free = i.first]

(* The region is complete: handed over if large enough, its cells freed. *)
Complete(s, minarea) ==
  LET i == s.info[s.co]
      big == i.pixnb >= minarea
  IN  [s EXCEPT !.ready = IF big THEN i ELSE @, !.object = IF big THEN PixelsOf(s, i) ELSE @,
                !.nextpix[i.last] = s.free, !.free = i.first]

(* The region goes on with the next line. *)
Suspend(s) ==
  [Checked(Checked(s, s.end[s.co]), s.start[s.co]) EXCEPT
     !.marker[s.end[s.co]] = "F", !.store[s.start[s.co]] = s.info[s.co]]

(* The line above ended a region here. *)
MarkerF(s, minarea) ==
  LET p == Pop(s) IN
  IF s.cs = "NONOBJECT" /\ p.ps = "COMPLETE"
  THEN LET q == IF s.start[s.co] = UNKNOWN THEN Complete(p, minarea) ELSE Suspend(p)
       IN  Pop([q EXCEPT !.co = s.co - 1])
  ELSE p

NewMarker(s, mark, minarea) ==
  CASE mark = "S" -> MarkerS(s)
    [] mark = "s" -> MarkerInner(s)
    [] mark = "f" -> [s EXCEPT !.ps = "INCOMPLETE"]
    [] mark = "F" -> MarkerF(s, minarea)
    [] OTHER -> s

(* "End segment": the first pixel after a run on this line. *)
EndSegment(s) ==
  IF s.cs # "OBJECT" THEN s
  ELSE LET t == [s EXCEPT !.cs = "NONOBJECT"]
           p == Checked(Pop(t), s.start[s.co])
       IN  IF s.ps # "COMPLETE"
           THEN [t EXCEPT !.marker[s.x] = "f", !.end[s.co] = s.x]
           ELSE [p EXCEPT !.marker[s.x] = "F", !.store[s.start[s.co]] = s.info[s.co],
                          !.co = s.co - 1]

(* The next iteration; a line begins with nothing known of it. *)
Advance(s, w) ==
  IF s.x < w THEN [s EXCEPT !.x = s.x + 1]
  ELSE [s EXCEPT !.x = 0, !.y = s.y + 1, !.ps = "COMPLETE", !.cs = "NONOBJECT"]

(***************************************************************************)
(* One iteration of the inner loop.  lit: the pixel is above the threshold *)
(* (never in the column or line after the image); truncated: it lies on    *)
(* the border.                                                             *)
(***************************************************************************)
Visited(s, lit, truncated, minarea, w) ==
  LET mark == s.marker[s.x]
      c == [s EXCEPT !.marker[s.x] = "none", !.ready = Blank, !.object = <<>>]
      t == IF lit THEN StartSegment(TakeCell(c, truncated)) ELSE c
      u == NewMarker(t, mark, minarea)
      v == IF lit THEN Update(u, u.co, u.curpix) ELSE EndSegment(u)
  IN  Advance(v, w)

(* Mutant: the stack counts as full one cell too early. *)
TwoCellsLeft(s, n) == s.nextpix[s.nextpix[s.free]] = n - 1

(* Taking a cell leaves one free cell: the pixel stack counts as full. *)
LastCellLeft(s, n) == s.nextpix[s.free] = n - 1
=============================================================================
