--------------------------- MODULE MCBettingCentre ---------------------------
(* The betting centre alone.                                                *)
EXTENDS BettingCentre, TLC

Symmetry == Permutations(HorseJockeys) \cup Permutations(Spectators)
==============================================================================
