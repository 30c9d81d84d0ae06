--------------------------- MODULE MCControlCentre ---------------------------
(* The control centre alone, with clients that call it in any order.        *)
EXTENDS ControlCentre, TLC

Symmetry == Permutations(HorseJockeys) \cup Permutations(Spectators)
==============================================================================
