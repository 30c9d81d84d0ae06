------------------------- MODULE MCLoggedHippodrome -------------------------
(* The timely simulation with its log.                                      *)
EXTENDS LoggedHippodrome, TLC

Symmetry == Permutations(HorseJockeys) \cup Permutations(Spectators)
MCPortions == {<<1, 4>>}

NobodyLate == {"arrive before the summons", "line up before the start",
               "watch before the finish", "parade before the appraisal",
               "leave before the return"}
=============================================================================
