--------------------------- MODULE MCSessionResume ---------------------------
EXTENDS SessionResume, TLC

CONSTANTS a, b, c, d

(* extract, grow the mask, measure, grow the mask again *)
MCKinds == <<"set", "grow", "add", "grow">>

(* An option that every step hashes is changed, which may leave steps out or  *)
(* with nothing to do, or only the input of a catalog step is.                *)
MCChoices == {<<a, a, a, a>>, <<b, b, b, Void>>, <<c, Off, c, c>>, <<a, a, b, a>>,
              <<d, Void, d, d>>}

(* Only the input of the last step is changed. *)
MCLastChanged == {<<a, a, a, a>>, <<a, a, a, b>>}
=============================================================================
