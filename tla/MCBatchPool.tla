---------------------------- MODULE MCBatchPool ----------------------------
(* Two fields, of which a run lists any and selects all or one.          *)
EXTENDS BatchPool, TLC

CONSTANTS A, B, w1, w2

MCNames == {A, B}
MCWorkers == {w1, w2}
MCOnlys == {{}, {A}}

=============================================================================
