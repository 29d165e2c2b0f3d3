---------------------------- MODULE MCJobSession ----------------------------
(***************************************************************************)
(* JobSession for TLC.  Frames and detectors are interchangeable: no       *)
(* action or invariant tells one from another.                             *)
(***************************************************************************)
EXTENDS JobSession, TLC

Interchangeable == Permutations(Frames) \cup Permutations(Detectors)
=============================================================================
