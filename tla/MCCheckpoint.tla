---------------------------- MODULE MCCheckpoint ----------------------------
EXTENDS Checkpoint, TLC

CONSTANTS w1, w2, a, b

(* Two versions of an output: a mixture of both is neither. *)
MCVersions == {<<a, a>>, <<b, b>>}

Alike == Permutations({w1, w2}) \union Permutations({a, b})
=============================================================================
