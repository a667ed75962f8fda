------------------------------- MODULE MCHeap -------------------------------
(***************************************************************************)
(* Small instances of Heap.                                                *)
(***************************************************************************)
EXTENDS Heap, TLC

CONSTANTS a1, a2, d1, m, g1

MCSymmetry == Permutations({a1, a2})
=============================================================================
