----------------------------- MODULE Extraction -----------------------------
(***************************************************************************)
(* Source detection of the C program: main() of                            *)
(* src/ds9/library/ds9_sextract.c runs sep_extract() (sep_src/extract.c)   *)
(* and, whenever that fails, runs it again with a higher threshold.        *)
(* sep_extract() visits the pixels one by one (LutzScan), splits every     *)
(* region that is complete (Deblend) and fails when a line of pixels finds *)
(* the pixel stack full or a region has too many sub-objects.              *)
(*                                                                         *)
(* The threshold is a brightness class: a pixel is detected when its class *)
(* is above Threshold, and a retry (threshold * 1.5) raises it by one.     *)
(***************************************************************************)
EXTENDS LutzScan, Deblend

CONSTANTS
  Images,     \* the images a run may be given: [w, h, val]
  Stacks,     \* the sizes the pixel stack may have
  MaxRetries  \* max_retries

ASSUME ExtractionAssumption ==
  /\ \A i \in Images : /\ i.w \in Nat \ {0} /\ i.h \in Nat \ {0}
                       /\ i.val \in [Pixels(i.w, i.h) -> Nat]
  /\ Stacks \subseteq Nat \ {0, 1}
  /\ MaxRetries \in Nat

VARIABLES
  img,     \* the image
  stack,   \* mem_pixstack: the number of cells
  retry,   \* the number of calls of sep_extract() that failed
  status,  \* scanning | a sep_status of a call that failed | done | failed
  scan,    \* the state of the call
  found    \* finalobjlist: the regions handed over, with their objects

vars == <<img, stack, retry, status, scan, found>>

Threshold == retry
Grid      == Pixels(img.w, img.h)
Bright    == {p \in Grid : img.val[p] > Threshold}
Lit       == <<scan.x, scan.y>> \in Bright
Truncated == OnBorder(<<scan.x, scan.y>>, img.w, img.h)
Scanned   == scan.y > img.h

Region(s, i) == LET p == PixelsOf(s, i) IN {p[k] : k \in DOMAIN p}

Init ==
  /\ img \in Images /\ stack \in Stacks
  /\ retry = 0 /\ status = "scanning" /\ found = <<>>
  /\ scan = NewScan(img.w, stack)

(* sep_extract() gives up when only one cell is left. *)
StackFull ==
  /\ status = "scanning" /\ ~Scanned
  /\ Lit /\ LastCellLeft(scan, stack)
  /\ status' = "PIXSTACK_FULL"
  /\ scan' = TakeCell(scan, Truncated)
  /\ UNCHANGED <<img, stack, retry, found>>

NextScan == Visited(scan, Lit, Truncated, MinArea, img.w)
Ready(s) == s.ready # Blank
Handed(s) == {s.object[k] : k \in DOMAIN s.object}

CanVisit ==
  /\ status = "scanning" /\ ~Scanned
  /\ ~(Lit /\ LastCellLeft(scan, stack))

(* A pixel that completes no region worth handing over. *)
Visit ==
  /\ CanVisit /\ ~Ready(NextScan)
  /\ scan' = NextScan
  /\ UNCHANGED <<img, stack, retry, status, found>>

(* sortit(): the region is split and its objects are added. *)
Sortit ==
  /\ CanVisit /\ Ready(NextScan)
  /\ scan' = NextScan
  /\ \E parts \in Deblended(Handed(NextScan), img.val, Threshold) :
       found' = Append(found, [root |-> NextScan.object, flag |-> NextScan.ready.flag,
                               parts |-> parts])
  /\ UNCHANGED <<img, stack, retry, status>>

(* sortit(): there are too many sub-objects, the whole call fails. *)
DeblendOverflow ==
  /\ CanVisit /\ Ready(NextScan)
  /\ Deblended(Handed(NextScan), img.val, Threshold) = {}
  /\ status' = "DEBLEND_OVERFLOW"
  /\ UNCHANGED <<img, stack, retry, scan, found>>

(* convert_to_catalog() *)
Finish ==
  /\ status = "scanning" /\ Scanned
  /\ status' = "done"
  /\ UNCHANGED <<img, stack, retry, scan, found>>

Failed == status \in {"PIXSTACK_FULL", "DEBLEND_OVERFLOW"}

(* Mutant: what an earlier call found is kept. *)
RetryKeepsFound ==
  /\ Failed /\ retry < MaxRetries
  /\ retry' = retry + 1 /\ status' = "scanning"
  /\ scan' = NewScan(img.w, stack)
  /\ UNCHANGED <<img, stack, found>>

(* Mutant: the threshold of the next call is not raised and calls do not end. *)
RetryForever ==
  /\ Failed
  /\ status' = "scanning" /\ found' = <<>>
  /\ scan' = NewScan(img.w, stack)
  /\ UNCHANGED <<img, stack, retry>>

(* main() calls again; whatever the failed call had found is gone. *)
Retry ==
  /\ Failed /\ retry < MaxRetries
  /\ retry' = retry + 1 /\ status' = "scanning" /\ found' = <<>>
  /\ scan' = NewScan(img.w, stack)
  /\ UNCHANGED <<img, stack>>

GiveUp ==
  /\ Failed /\ retry = MaxRetries
  /\ status' = "failed"
  /\ UNCHANGED <<img, stack, retry, scan, found>>

Stopped == status \in {"done", "failed"} /\ UNCHANGED vars

Next ==
  \/ StackFull \/ Visit \/ Sortit \/ DeblendOverflow \/ Finish
  \/ Retry \/ GiveUp \/ Stopped

Spec == Init /\ [][Next]_vars
-----------------------------------------------------------------------------
RootOf(f) == {f.root[k] : k \in DOMAIN f.root}
Roots == {RootOf(found[j]) : j \in DOMAIN found}

(* Every list of cells that may still grow, by the place that names it. *)
Opened(s)  == {<<"info", i>> : i \in 1..s.co}
Waiting(s) == {<<"store", x>> : x \in {c \in DOMAIN s.marker :
                 s.marker[c] = "S" /\ \A i \in 1..s.co : s.start[i] # c}}
ListAt(s, at) == IF at[1] = "info" THEN s.info[at[2]] ELSE s.store[at[2]]
Growing(s) == Opened(s) \union Waiting(s)
Held(s) == UNION {Region(s, ListAt(s, at)) : at \in Growing(s)}

(* Positions the scan has yet to visit, the empty line and column included. *)
Unvisited == {p \in Pixels(img.w + 1, img.h + 1) :
                p[2] > scan.y \/ (p[2] = scan.y /\ p[1] >= scan.x)}
SeenBright == Bright \ Unvisited

(* Types and array bounds: no step of sep_extract() reads or writes outside *)
(* the w + 1 entries of psstack, info, store, marker, start and end, and a   *)
(* line leaves no region open, although pstop and co are only reset once.    *)
TypeOK ==
  /\ img.val \in [Grid -> Nat] /\ stack \in Stacks /\ retry \in 0..MaxRetries
  /\ status \in {"scanning", "PIXSTACK_FULL", "DEBLEND_OVERFLOW", "done", "failed"}
  /\ scan.x \in 0..img.w /\ scan.y \in 0..img.h + 1 /\ scan.co \in 0..img.w
  /\ ~scan.wild /\ Len(scan.psstack) <= img.w + 1
  /\ scan.x = 0 => scan.co = 0 /\ scan.psstack = <<>>

(* The regions found are those of the definition.  What is handed over is an *)
(* 8-connected region of at least minarea pixels above the threshold; and    *)
(* when sep_extract() returns a catalog, it was made of each of these, once, *)
(* however they wind round each other, and a region is flagged SEP_OBJ_TRUNC *)
(* ("object truncated at image boundary", sep.h:40) exactly when it reaches  *)
(* the border.                                                               *)
CatalogIsComponents ==
  LET regions == {C \in Components(Bright) : Cardinality(C) >= MinArea} IN
  /\ Roots \subseteq regions
  /\ status = "done" =>
       /\ Roots = regions
       /\ Len(found) = Cardinality(Roots)
       /\ \A j \in DOMAIN found :
            found[j].flag = (\E p \in RootOf(found[j]) : OnBorder(p, img.w, img.h))

(* Some level separates two cores of a region. *)
Separate(C, D, root) ==
  \E k \in 1..NThresh-1 :
    LET level == LevelAt(k, Threshold, Peak(root, img.val))
        parts == Components({p \in root : Intensity(img.val[p]) > level})
    IN  \E A \in parts : C \subseteq A /\ D \intersect A = {}

(* No pixel is counted twice or lost by deblending, and nothing is split     *)
(* that has one peak: the objects of a region share out its pixels, their    *)
(* cores are connected and of at least min(minarea, 3) pixels, and for any   *)
(* two of them there is a level at which they are apart, so that no object   *)
(* is a part of another (deblend(), its ok flags, belong() and gatherup()).  *)
DeblendPartitions ==
  \A j \in DOMAIN found :
    LET f == found[j] IN
    /\ UNION {o.pix : o \in f.parts} = RootOf(f)
    /\ \A a, b \in f.parts : a # b => /\ a.pix \intersect b.pix = {}
                                      /\ Separate(a.core, b.core, RootOf(f))
    /\ \A o \in f.parts : /\ o.core \subseteq o.pix
                           /\ Connected(o.core)
                           /\ Cardinality(o.core) >= SonArea

(* Pixel cells are neither lost nor shared: every cell is on the free list   *)
(* or in the list of one region, and each list ends where its record says    *)
(* (update() and "free the chain-list").                                     *)
CellsAccounted ==
  status = "scanning" =>
    LET free == CellsFrom(scan, scan.free)
        cells(at) == CellsFrom(scan, ListAt(scan, at).first)
    IN  /\ Len(free) + MapThenSumSet(LAMBDA at : Len(cells(at)), Growing(scan)) = stack
        /\ UNION ({{c[k] : k \in DOMAIN c} : c \in {cells(at) : at \in Growing(scan)}}
                    \union {{free[k] : k \in DOMAIN free}}) = 0..stack-1
        /\ \A at \in Growing(scan) :
             LET l == ListAt(scan, at) IN
             l.first # None /\ Len(cells(at)) = l.pixnb /\ cells(at)[l.pixnb] = l.last

(* Cells are held as long as needed and no longer: the pixels still held are *)
(* those of the regions seen so far that touch a position not yet visited;   *)
(* and the stack is only reported full when these and the new pixel leave    *)
(* one cell.                                                                 *)
HeldAsNeeded ==
  /\ status = "scanning" =>
       Held(scan) = UNION {C \in Components(SeenBright) : Around(C, Unvisited) # {}}
  /\ status = "PIXSTACK_FULL" => Cardinality(Held(scan)) + 2 = stack

(* What is left to do: calls, then positions, then the end of a call. *)
Remaining ==
  LET positions == (img.w + 1) * (img.h + 1)
      visited   == scan.y * (img.w + 1) + scan.x
      stage     == CASE status = "scanning" -> 2 [] Failed -> 1 [] OTHER -> 0
  IN  (MaxRetries - retry) * (positions + 3) + (positions - visited) + stage

(* The program ends, with a catalog or with an error, whatever fails: every  *)
(* step brings the end nearer (and, as no deadlock is found, it is reached). *)
(* The retries of main() are bounded and each call visits a position once.   *)
EndsNearer == [][0 <= Remaining' /\ Remaining' < Remaining]_vars
=============================================================================
