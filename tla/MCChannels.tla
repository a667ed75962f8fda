----------------------------- MODULE MCChannels -----------------------------
(***************************************************************************)
(* Instances of Channels for TLC.  Goroutines that are no hotkeys, and     *)
(* values, are interchangeable.                                            *)
(***************************************************************************)
EXTENDS Channels, TLC

Symmetry == Permutations(Goroutine \ Hotkey) \cup Permutations(Value)
=============================================================================
