------------------------------ MODULE MCStable ------------------------------
(* The stable alone, with clients that call its methods in any order.       *)
EXTENDS Stable, TLC

Symmetry == Permutations(HorseJockeys)
=============================================================================
