--------------------------- MODULE FrameCatalogs ----------------------------
(***************************************************************************)
(* Which catalog the panel shows while the user creates, visits and        *)
(* deletes image frames and registers them as bands: frame.tcl's frame     *)
(* lists, the hooks it calls in catalog_io.tcl, and the band registry of   *)
(* bands.tcl, whose frames share one catalog.                              *)
(*                                                                         *)
(* Frames are named Frame1, Frame2, ...: a frame is its number.  Catalogs  *)
(* are versions: every analysis makes a new one, 0 is the empty catalog.   *)
(***************************************************************************)
EXTENDS Naturals, Sequences, SequencesExt

CONSTANTS
  MaxFrames,   \* bound: frame numbers in use
  MaxWork,     \* bound: catalogs made
  FrameOps,    \* subset of {"delete", "deleteAll", "number"}
  BandOps      \* subset of {"register", "remove"}

ASSUME BoundsAssumption == MaxFrames \in Nat \ {0} /\ MaxWork \in Nat
ASSUME OpsAssumption ==
  FrameOps \subseteq {"delete", "deleteAll", "number"} /\ BandOps \subseteq {"register", "remove"}

VARIABLES
  frames,    \* ds9(frames), in order of creation
  seq,       \* ds9(seq): the number of the next frame
  frame,     \* current(frame)
  alldata,   \* the catalog on display
  saved,     \* catpanel_fdata
  bands,     \* the frames registered as bands
  made,      \* history: catalogs made so far
  latest,    \* history: the catalog last made for each frame
  used,      \* history: the numbers given to frames
  plain      \* history: no band registered, no "delete all" and no number
             \* given again yet

vars == <<frames, seq, frame, alldata, saved, bands, made, latest, used, plain>>

Numbers  == 1 .. MaxFrames
NoFrame  == 0
NotSaved == MaxWork + 1
Catalogs == 0 .. MaxWork

INSTANCE FrameState WITH Frames <- Numbers, Empty <- 0

\* OGFBandsShareCatalog
Share(registry, a, b) == Cardinality(registry) >= 2 /\ {a, b} \subseteq registry

\* The frames that show the catalog of frame f.
Group(registry, f) == IF Share(registry, f, f) THEN registry ELSE {f}

\* The user made cat the catalog of frame f.
Now(registry, f, cat) ==
  [g \in Numbers |-> IF g \in Group(registry, f) THEN cat ELSE latest[g]]

Init ==
  /\ frames = <<>> /\ seq = 1 /\ frame = NoFrame
  /\ alldata = 0 /\ saved = [f \in Numbers |-> NotSaved]
  /\ bands = {} /\ made = 0 /\ latest = [f \in Numbers |-> 0]
  /\ used = {} /\ plain = TRUE

-----------------------------------------------------------------------------
(* Frames. *)

Swap(new) ==
  LET s == FrameChanged(alldata, saved, frame, new, Share(bands, frame, new))
  IN  /\ alldata' = s.alldata
      /\ saved' = s.saved
      /\ frame' = new

\* CreateNameNumberFrame: the new frame becomes the current one.
NewFrame(n) ==
  /\ n \in Numbers \ ToSet(frames)
  /\ frames' = Append(frames, n)
  /\ Swap(n)
  /\ latest' = [latest EXCEPT ![n] = 0]
  /\ used' = used \cup {n}
  /\ plain' = (plain /\ n \notin used)
  /\ UNCHANGED <<bands, made>>

\* CreateNamedFrame: the next number.
CreateFrame ==
  /\ NewFrame(seq)
  /\ seq' = seq + 1

\* CreateGotoFrame, for a number no frame has: it may be one that a deleted
\* frame had.  Bound: seq stops at MaxFrames + 2.
CreateGotoFrame(n) ==
  /\ "number" \in FrameOps /\ seq <= MaxFrames + 1
  /\ NewFrame(n)
  /\ seq' = IF n + 1 < seq THEN seq + 1 ELSE n + 1

\* GotoFrame
GotoFrame(f) ==
  /\ f \in ToSet(frames) \ {frame}
  /\ Swap(f)
  /\ UNCHANGED <<frames, seq, bands, made, latest, used, plain>>

\* The place of f in list; list without f.
Place(list, f)   == CHOOSE i \in DOMAIN list : list[i] = f
Without(list, f) == RemoveAt(list, Place(list, f))

\* Mutant: deleting the last frame leaves the panel as it is.
DeletedLeavesPanel(s, f) ==
  LET kept == Forget(s.saved, f)
      ii   == Place(s.active, f)
      new  == IF ii > 1 THEN s.active[ii - 1] ELSE s.active[2]
      move == s.frame = f /\ Len(s.active) > 1
      swap == FrameChanged(s.alldata, kept, f, new, FALSE)
  IN  [frames |-> Without(s.frames, f), active |-> s.active, bands |-> s.bands \ {f},
       frame |-> IF move THEN new ELSE s.frame,
       alldata |-> IF move THEN swap.alldata ELSE s.alldata,
       saved |-> IF move THEN swap.saved ELSE kept]

\* DeleteFrame f, as it changes the state s: the frame is taken off the band
\* registry, its kept catalog is dropped and, when it is the current one, the
\* panel moves to the frame before it or, for the first one, after it, and is
\* cleared when there is no other.  The first entry of the active list is not
\* removed from it here.
Deleted(s, f) ==
  LET registry == s.bands \ {f}
      kept     == Forget(s.saved, f)
      ii       == Place(s.active, f)
      new      == IF ii > 1 THEN s.active[ii - 1] ELSE s.active[2]
      swapped  == FrameChanged(s.alldata, kept, f, new, Share(registry, f, new))
      moves    == s.frame = f /\ Len(s.active) > 1
      clears   == s.frame = f /\ Len(s.active) <= 1
  IN  [frames  |-> Without(s.frames, f),
       active  |-> IF ii > 1 THEN Without(s.active, f) ELSE s.active,
       bands   |-> registry,
       frame   |-> IF moves THEN new ELSE s.frame,
       alldata |-> IF moves THEN swapped.alldata ELSE IF clears THEN 0 ELSE s.alldata,
       saved   |-> IF moves THEN swapped.saved ELSE kept]

State == [frames |-> frames, active |-> frames, bands |-> bands, frame |-> frame,
          alldata |-> alldata, saved |-> saved]

\* UpdateActiveFrames, with every frame active.
Settled(s) ==
  /\ frames' = s.frames
  /\ frame' = IF s.frames = <<>> THEN NoFrame
              ELSE IF s.frame \in ToSet(s.frames) THEN s.frame ELSE s.frames[1]
  /\ alldata' = s.alldata
  /\ saved' = s.saved
  /\ bands' = s.bands

\* DeleteSingleFrame
DeleteSingleFrame(f) ==
  /\ "delete" \in FrameOps
  /\ f \in ToSet(frames)
  /\ Settled(Deleted(State, f))
  /\ UNCHANGED <<seq, made, latest, used, plain>>

\* DeleteAllFrames: one after the other, then the numbering starts again.
DeleteAllFrames ==
  /\ "deleteAll" \in FrameOps
  /\ frames # <<>>
  /\ Settled(FoldLeft(Deleted, State, frames))
  /\ seq' = 1
  /\ plain' = FALSE
  /\ UNCHANGED <<made, latest, used>>

-----------------------------------------------------------------------------
(* Catalogs and bands. *)

\* An analysis of the current frame's image gives the panel a new catalog.
Analyse ==
  /\ frame # NoFrame /\ made < MaxWork
  /\ made' = made + 1
  /\ alldata' = made + 1
  /\ latest' = Now(bands, frame, made + 1)
  /\ UNCHANGED <<frames, seq, frame, saved, bands, used, plain>>

\* CatalogPanelClear
Clear ==
  /\ frame # NoFrame
  /\ alldata' = 0
  /\ latest' = Now(bands, frame, 0)
  /\ UNCHANGED <<frames, seq, frame, saved, bands, made, used, plain>>

\* CatalogPanelBandsRegisterFrame on the current frame.
RegisterBand ==
  /\ "register" \in BandOps
  /\ frame # NoFrame
  /\ bands' = bands \cup {frame}
  /\ latest' = Now(bands', frame, alldata)
  /\ plain' = FALSE
  /\ UNCHANGED <<frames, seq, frame, alldata, saved, made, used>>

\* CatalogPanelBandsRemove
RemoveBand(f) ==
  /\ "remove" \in BandOps
  /\ f \in bands
  /\ bands' = bands \ {f}
  /\ UNCHANGED <<frames, seq, frame, alldata, saved, made, latest, used, plain>>

Next ==
  \/ CreateFrame
  \/ \E f \in Numbers : \/ CreateGotoFrame(f) \/ GotoFrame(f)
                        \/ DeleteSingleFrame(f) \/ RemoveBand(f)
  \/ DeleteAllFrames
  \/ Analyse \/ Clear \/ RegisterBand

Spec == Init /\ [][Next]_vars

-----------------------------------------------------------------------------
(* Properties. *)

\* The panel shows the catalog last made for the current frame (for a band
\* frame: for any band frame), an empty one for a new frame, whatever frames
\* were visited, created and deleted since (catalog_io.tcl:577-701).
ShownIsLatest == frame # NoFrame => alldata = latest[frame]

\* The same for a user who registers no bands, deletes frames singly and gives
\* no deleted frame's number to a new frame; and with the last frame the
\* panel's catalog goes too (frame.tcl:445-448).
PlainShownIsLatest ==
  plain => alldata = IF frame = NoFrame THEN 0 ELSE latest[frame]

\* Going to another frame never loses the catalog on display: it stays on
\* display or is kept for a frame that exists (catalog_io.tcl:690-701).
NothingLostOnTheWay ==
  [][frames' = frames /\ frame' # frame =>
       alldata \in {alldata'} \cup {saved'[f] : f \in ToSet(frames)}]_vars
=============================================================================
