----------------------------- MODULE Bookmaker -----------------------------
(***************************************************************************)
(* What the event promises to those who bet, with nothing of how it is     *)
(* done: one race after the other, a bet is taken before the bets of its   *)
(* race are closed, and paid out once, if its horse has won that race, at  *)
(* the odds at which the bets were accepted.                               *)
(***************************************************************************)
EXTENDS SimulationConfigurations

VARIABLES
  current,    \* the race the bets are taken for
  phase,      \* "betting", "accepting" at odds that are fixed, or "closed"
  odds,
  stake,      \* spectator -> its last bet, [horse, amount]
  bettors,    \* the spectators that have bet on the current race
  winner,     \* of the last race that was decided
  settled,    \* spectator -> the races it has got its gains of
  money       \* spectator -> what it has left

vars == <<current, phase, odds, stake, bettors, winner, settled, money>>

Init ==
  /\ current = 0
  /\ phase = "betting"
  /\ odds \in [HorseJockeys -> Nat]
  /\ stake \in [Spectators -> [horse : HorseJockeys \cup {NoHorse}, amount : Nat]]
  /\ bettors = {}
  /\ winner = NoHorse
  /\ settled = [s \in Spectators |-> 0]
  /\ money \in [Spectators -> Nat]

(* A spectator bets once on a race, with money it has, and after it has    *)
(* got its gains of the race before.                                       *)
Bet(s) ==
  /\ current \in Races
  /\ phase # "closed"
  /\ s \notin bettors
  /\ settled[s] = current
  /\ \E horse \in HorseJockeys, amount \in 0 .. money[s] :
       /\ stake' = [stake EXCEPT ![s] = [horse |-> horse, amount |-> amount]]
       /\ money' = [money EXCEPT ![s] = @ - amount]
  /\ bettors' = bettors \cup {s}
  /\ UNCHANGED <<current, phase, odds, winner, settled>>

(* New odds, when nobody is to be paid at the old ones.                    *)
EvaluateOdds ==
  /\ phase = "betting"
  /\ \A s \in Spectators : settled[s] = current
  /\ odds' \in [HorseJockeys -> Nat]
  /\ phase' = IF bettors = Spectators THEN "closed" ELSE "accepting"
  /\ UNCHANGED <<current, stake, bettors, winner, settled, money>>

Close ==
  /\ phase = "accepting"
  /\ bettors = Spectators
  /\ phase' = "closed"
  /\ UNCHANGED <<current, odds, stake, bettors, winner, settled, money>>

(* The race is run; the bets are for the next one.                         *)
Decide ==
  /\ phase = "closed"
  /\ winner' \in HorseJockeys \cup {NoHorse}
  /\ current' = current + 1
  /\ bettors' = {}
  /\ phase' = "betting"
  /\ UNCHANGED <<odds, stake, settled, money>>

Gains(s) ==
  IF stake[s].horse = winner THEN stake[s].amount * odds[winner] ELSE 0

Settle(s) ==
  /\ settled[s] < current
  /\ settled' = [settled EXCEPT ![s] = @ + 1]
  /\ money' = [money EXCEPT ![s] = @ + Gains(s)]
  /\ UNCHANGED <<current, phase, odds, stake, bettors, winner>>

Next ==
  \/ \E s \in Spectators : Bet(s) \/ Settle(s)
  \/ EvaluateOdds \/ Close \/ Decide

Spec == Init /\ [][Next]_vars
=============================================================================
