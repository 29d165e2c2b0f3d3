----------------------------- MODULE MCAIBridge -----------------------------
EXTENDS AIBridge, TLC

CONSTANTS p, q

(* Three objects in batches of two, or two of them that make up another batch. *)
MCSelections == {{1, 2, 3}, {2, 3}}

MCCutFails == {{}, {1}}

(* The second object's bool is never given: read again it is false, then true. The *)
(* third may lack a number.                                                        *)
MCNoBool == [o \in Objects |-> IF o = 2 THEN "no bool" ELSE "plain"]
MCCells == {MCNoBool, [MCNoBool EXCEPT ![3] = "no number"]}

Interchangeable == Permutations({p, q})
=============================================================================
