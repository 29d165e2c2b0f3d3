---------------------------- MODULE FieldPromise ----------------------------
(***************************************************************************)
(* What the batch runner promises about one field, with no word about      *)
(* snapshots, keys or state.json: whoever starts a run on an image and a   *)
(* recipe and is told "ok" holds the catalog that executing the whole      *)
(* recipe on that image produces.  A run may also fail, or be cut short,   *)
(* and then delivers nothing.  BatchField is shown to implement this.      *)
(***************************************************************************)
EXTENDS Naturals, Sequences

CONSTANTS
  Images,      \* the contents the field's image can have
  Recipes,     \* the recipes the user may run on it
  Nothing      \* no catalog has been delivered for the current inputs

VARIABLES image, recipe, running, delivered

pvars == <<image, recipe, running, delivered>>

(***************************************************************************)
(* The catalog left by the first n steps of recipe r on image im: each     *)
(* step is a function of the image, its arguments and the catalog before   *)
(* it, so the catalog is the sequence of the (image, step) pairs applied.  *)
(***************************************************************************)
Fresh(im, r, n) == [j \in 1..n |-> <<im, r[j]>>]

PInit == /\ image \in Images
         /\ recipe \in Recipes
         /\ running = FALSE
         /\ delivered = Nothing

PChangeInputs == /\ ~running
                 /\ image' \in Images
                 /\ recipe' \in Recipes
                 /\ delivered' = Nothing
                 /\ UNCHANGED running

PStart == /\ ~running
          /\ running' = TRUE
          /\ delivered' = Nothing
          /\ UNCHANGED <<image, recipe>>

PEnd == /\ running
        /\ running' = FALSE
        /\ delivered' \in {Nothing, Fresh(image, recipe, Len(recipe))}
        /\ UNCHANGED <<image, recipe>>

PNext == PChangeInputs \/ PStart \/ PEnd

PSpec == PInit /\ [][PNext]_pvars
=============================================================================
