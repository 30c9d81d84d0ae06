---------------------------- MODULE RaceMeeting ----------------------------
(***************************************************************************)
(* What the event is for those who watch it: in each race the horses leave *)
(* the paddock, the spectators that have seen them bet, the race is        *)
(* started when all have, and its winner, the first horse to finish, is    *)
(* reported when the last one has.                                         *)
(***************************************************************************)
EXTENDS SimulationConfigurations

VARIABLES
  current,     \* the race to come, or that is run
  runners,     \* its horses that have left the paddock
  bettors,     \* the spectators that have bet on it
  running,     \* it has been started
  finishers,   \* the horses that have finished
  first,       \* the first of them
  winner       \* the winner that was reported last

vars == <<current, runners, bettors, running, finishers, first, winner>>

Init ==
  /\ current = 0
  /\ runners = {}
  /\ bettors = {}
  /\ running = FALSE
  /\ finishers = {}
  /\ first = NoHorse
  /\ winner = NoHorse

LeavePaddock(h) ==
  /\ current \in Races
  /\ h \notin runners
  /\ runners' = runners \cup {h}
  /\ UNCHANGED <<current, bettors, running, finishers, first, winner>>

Bet(s) ==
  /\ runners = HorseJockeys
  /\ s \notin bettors
  /\ bettors' = bettors \cup {s}
  /\ UNCHANGED <<current, runners, running, finishers, first, winner>>

Start ==
  /\ ~running
  /\ bettors = Spectators
  /\ running' = TRUE
  /\ UNCHANGED <<current, runners, bettors, finishers, first, winner>>

Finish(h) ==
  /\ running
  /\ h \notin finishers
  /\ finishers' = finishers \cup {h}
  /\ first' = IF finishers = {} THEN h ELSE first
  /\ UNCHANGED <<current, runners, bettors, running, winner>>

Report ==
  /\ finishers = HorseJockeys
  /\ winner' = first
  /\ current' = current + 1
  /\ runners' = {}
  /\ bettors' = {}
  /\ running' = FALSE
  /\ finishers' = {}
  /\ first' = NoHorse

Next ==
  \/ \E h \in HorseJockeys : LeavePaddock(h) \/ Finish(h)
  \/ \E s \in Spectators : Bet(s)
  \/ Start \/ Report

(* Every race of the event is run.                                         *)
Spec == Init /\ [][Next]_vars /\ WF_vars(Next)
=============================================================================
