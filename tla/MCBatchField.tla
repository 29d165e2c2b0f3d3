---------------------------- MODULE MCBatchField ----------------------------
(* Small instances of BatchField for TLC. *)
EXTENDS BatchField

CONSTANTS im1, im2, det, den, a, b

MCDigest == [im \in Images |-> <<"digest", im>>]

S(l, x) == [label |-> l, args |-> x]

(* A recipe, its first or its second step edited, and the second step alone. *)
Edited == {<<S(det, a), S(den, a)>>, <<S(det, b), S(den, a)>>,
           <<S(det, a), S(den, b)>>, <<S(den, a)>>}

(* One recipe that is never edited. *)
Fixed == {<<S(det, a), S(den, a)>>}

AnyPoint  == Phases \ {"idle"}
SafePoints == AnyPoint \ {"fill", "recordOk"}
=============================================================================
