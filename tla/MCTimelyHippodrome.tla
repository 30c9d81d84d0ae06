------------------------- MODULE MCTimelyHippodrome -------------------------
(* The timely simulation with all its assumptions, or without one of them.  *)
EXTENDS TimelyHippodrome, TLC

Symmetry == Permutations(HorseJockeys) \cup Permutations(Spectators)
MCPortions == {<<1, 4>>}

NobodyLate == {"arrive before the summons", "line up before the start",
               "watch before the finish", "parade before the appraisal",
               "leave before the return"}
LateForTheFinish == NobodyLate \ {"watch before the finish"}
=============================================================================
