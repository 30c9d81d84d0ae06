---------------------------- MODULE MCRacingTrack ----------------------------
(* The racing track alone, with clients that call it in any order.          *)
EXTENDS RacingTrack, TLC

Symmetry == Permutations(HorseJockeys)
==============================================================================
