---------------------------- MODULE MCHippodrome ----------------------------
(* The whole simulation, with messages of any delay.                        *)
EXTENDS HippodromeSafety, TLC

Symmetry == Permutations(HorseJockeys) \cup Permutations(Spectators)

(* A quarter of the money is bet.                                           *)
MCPortions == {<<1, 4>>}
=============================================================================
