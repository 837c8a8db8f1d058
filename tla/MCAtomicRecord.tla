-------------------------- MODULE MCAtomicRecord --------------------------
(* Values of one byte fit in the cell, values of two take a block; with    *)
(* two blocks the heap can be exhausted.                                   *)
EXTENDS AtomicRecord, TLC

CONSTANTS k1, k2, b1, b2

OneOrTwo == {1, 2}
=============================================================================
