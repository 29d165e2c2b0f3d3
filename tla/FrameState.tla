----------------------------- MODULE FrameState -----------------------------
(***************************************************************************)
(* The catalog panel and the image frames (catalog_io.tcl): the panel      *)
(* shows one catalog; the catalogs of the other frames are kept aside and  *)
(* swapped in when the user goes to another frame.                         *)
(***************************************************************************)

CONSTANTS
  Frames,      \* the names a frame can have
  Empty,       \* a catalog without sources
  NotSaved,    \* no state is kept for a frame
  NoFrame      \* there is no current frame

ASSUME EmptyAssumption == Empty # NotSaved
ASSUME NoFrameAssumption == NoFrame \notin Frames

\* CatalogPanelSaveFrameState
Save(kept, f, cat) == [kept EXCEPT ![f] = cat]

\* Mutant: the saved value is read without asking whether there is one.
RestoreBlindly(kept, f) == kept[f]

\* CatalogPanelRestoreFrameState: a frame without kept state starts empty.
Restore(kept, f) == IF kept[f] = NotSaved THEN Empty ELSE kept[f]

\* Mutant: the catalog on display is not saved first.
FrameChangedUnsaved(cat, kept, old, new, share) ==
  IF old # NoFrame /\ share
  THEN [alldata |-> cat, saved |-> kept]
  ELSE [alldata |-> Restore(kept, new), saved |-> kept]

\* Mutant: the catalog on display is saved after the other one is restored,
\* under the frame gone to.
FrameChangedSavesLate(cat, kept, old, new, share) ==
  IF old # NoFrame /\ share
  THEN [alldata |-> cat, saved |-> kept]
  ELSE [alldata |-> Restore(kept, new), saved |-> Save(kept, new, Restore(kept, new))]

\* Mutant: the new frame takes over the catalog on display.
FrameChangedTakesOver(cat, kept, old, new, share) ==
  [alldata |-> IF kept[new] = NotSaved THEN cat ELSE kept[new],
   saved   |-> IF old \notin {NoFrame, new} THEN Save(kept, old, cat) ELSE kept]

\* CatalogPanelFrameChanged, from frame old to frame new: the catalog on
\* display and the ones kept aside afterwards.
FrameChanged(cat, kept, old, new, share) ==
  IF old # NoFrame /\ share
  THEN [alldata |-> cat, saved |-> kept]
  ELSE LET now == IF old \notin {NoFrame, new} THEN Save(kept, old, cat) ELSE kept
       IN  [alldata |-> Restore(now, new), saved |-> now]

\* CatalogPanelDeleteFrameState
Forget(kept, f) == [kept EXCEPT ![f] = NotSaved]
=============================================================================
