----------------------------- MODULE MCUpvalues -----------------------------
(***************************************************************************)
(* Small instances of Upvalues.                                            *)
(***************************************************************************)
EXTENDS Upvalues, TLC

CONSTANTS k1, k2, k3, m, g

MCSymmetry == Permutations({k1, k2}) 
=============================================================================
