-------------------------- MODULE HippodromeSafety --------------------------
(***************************************************************************)
(* What the simulation guarantees whatever the delays of its requests.     *)
(***************************************************************************)
EXTENDS Hippodrome

(* The phases of the three life cycles, from the order of the calls.       *)
BeforeThePaddock == {"unborn", "bettingCentre.setAbility", "stable.proceedToStable(int)",
                     "controlCentre.proceedToPaddock"}
OnTheTrack == {"racingTrack.proceedToStartLine", "racingTrack.hasFinishLineBeenCrossed",
               "racingTrack.makeAMove"}
OffTheTrack == {"controlCentre.makeAMove", "stable.proceedToStable()", "deceased"}

(* s has handed in its bet for race r: placeABet recorded it, even if the  *)
(* call has not returned yet.                                              *)
HasBetFor(s, r) ==
  \/ spectatorRace[s] > r
  \/ /\ spectatorRace[s] = r
     /\ \/ spectatorPc[s] = "bettingCentre.placeABet" /\ bettingCall[s] # "none"
        \/ spectatorPc[s] \in {"controlCentre.goWatchTheRace", "bettingCentre.haveIWon",
                               "bettingCentre.goCollectTheGains"}

-----------------------------------------------------------------------------
(* The ranges of what the clients and the paddock keep; the other regions  *)
(* are checked on their own.                                               *)
TypeOK ==
  /\ paddock!TypeOK
  /\ brokerRace \in Races
  /\ brokerWinner \in HorseJockeys \cup {NoHorse}
  /\ spectatorRace \in [Spectators -> 0 .. NUMBER_OF_RACES]
  /\ isLastSpectator \in [Spectators -> BOOLEAN]
  /\ money \in [Spectators -> Nat]
  /\ horseRace \in [HorseJockeys -> Races]
  /\ horseAbility \in [HorseJockeys -> Abilities]
  /\ batch \in Races

(* No thread sleeps in wait() once what it waits for has come true, in any *)
(* region: the flags are cleared by one method and set again by another,   *)
(* and every method that ends a while loop's condition calls notifyAll().  *)
NoMissedSignal ==
  /\ stable!NoMissedSignal
  /\ controlCentre!NoMissedSignal
  /\ paddock!NoMissedSignal
  /\ racingTrack!NoMissedSignal
  /\ bettingCentre!NoMissedSignal

(* The broker starts a race only when every spectator has bet on that very *)
(* race: the count of the queue in acceptTheBets is never made up by bets  *)
(* of another race, although placeABet stops blocking after the first one. *)
AcceptedMeansAllBet ==
  brokerPc \in {"racingTrack.startTheRace", "controlCentre.startTheRace",
                "controlCentre.reportResults", "bettingCentre.areThereAnyWinners",
                "bettingCentre.honourTheBets"}
    => \A s \in Spectators : HasBetFor(s, brokerRace)

(* No horse advances on the track before every spectator has bet on its    *)
(* race: the start order of a race is withdrawn by its finishers           *)
(* (hasFinishLineBeenCrossed) before a horse of the next one lines up.     *)
RaceAfterTheBets ==
  [][\A h \in HorseJockeys : currentHorsesPositions'[h] > currentHorsesPositions[h]
       => \A s \in Spectators : HasBetFor(s, batch)]_currentHorsesPositions

(* The broker is released to honour the bets exactly when as many winners  *)
(* have come as the race has (goCollectTheGains counts them), also when    *)
(* the flag and the count still stand from the race before.                *)
HonouredMeansAllArrived ==
  ~allWinnersAreNotOnBettingCentre => winnersArrived = Cardinality(winners)

(* The odds are evaluated from the abilities of the horses that will run:  *)
(* all of this batch have set theirs, and it is the batch of this race.    *)
(* In particular evaluateOdds() never divides by a missing ability.        *)
OddsOfTheRunners ==
  brokerPc = "bettingCentre.acceptTheBets"
    => /\ batch = brokerRace
       /\ horsesAbilities = horseAbility
       /\ bettingCall[Broker] # "failed"

(* The paddock counts a horse once when it arrives and once when it leaves *)
(* and starts from 0 when the last one has left (currentNumberOfHorses).   *)
PaddockCountsHorses ==
  LET parading == {h \in HorseJockeys :
                     \/ horsePc[h] = "paddock.proceedToPaddock" /\ paddockCall[h] # "none"
                     \/ horsePc[h] = "paddock.proceedToStartLine"}
      gone == {h \in HorseJockeys : horsePc[h] \in OnTheTrack \cup OffTheTrack}
  IN currentNumberOfHorses =
       IF gone = HorseJockeys THEN 0 ELSE Cardinality(parading) + 2 * Cardinality(gone)

-----------------------------------------------------------------------------
(* The betting as its participants see it: the promise of the bookmaker    *)
(* behind the flags, queues and counts of the five regions.                *)

(* The broker is done with its race: it is the next one that comes.        *)
IsDecided ==
  brokerPc \in {"bettingCentre.areThereAnyWinners", "bettingCentre.honourTheBets",
               "racingTrack.setRace", "controlCentre.entertainTheGuests",
               "playing host at the bar"}

RaceToCome == IF IsDecided THEN brokerRace + 1 ELSE brokerRace

BetsPhase ==
  CASE brokerPc = "bettingCentre.acceptTheBets" /\ bettingCall[Broker] # "none" -> "accepting"
    [] brokerPc \in {"racingTrack.startTheRace", "controlCentre.startTheRace",
                     "controlCentre.reportResults"} -> "closed"
    [] OTHER -> "betting"

(* What a spectator has left when its bet is recorded: the money is taken  *)
(* from it when placeABet returns.                                         *)
MoneyLeft(s) ==
  IF spectatorPc[s] = "bettingCentre.placeABet" /\ bettingCall[s] # "none"
  THEN money[s] - bets[s].amount ELSE money[s]

bookmaker == INSTANCE Bookmaker WITH
  current <- RaceToCome,
  phase <- BetsPhase,
  odds <- horsesOdds,
  stake <- bets,
  bettors <- {s \in Spectators : HasBetFor(s, RaceToCome)},
  winner <- brokerWinner,
  settled <- spectatorRace,
  money <- [s \in Spectators |-> MoneyLeft(s)]

(* However late the messages are, every bet is recorded before its race is *)
(* started, at most once and with money its spectator has, and paid once,  *)
(* for the right race, at the odds of that race, if its horse was reported *)
(* as the winner (placeABet, acceptTheBets, areThereAnyWinners, haveIWon,  *)
(* goCollectTheGains).                                                     *)
BetsAreSettled == bookmaker!Spec

-----------------------------------------------------------------------------
(* The clients use the regions as the regions' own specifications assume,  *)
(* so that what holds of a region alone holds of it in the simulation.     *)

(* Each race is summoned after the one before, and a batch arrives once.   *)
StableUse == stable!Spec

(* Nobody bets twice for one acceptance, and only winners collect, once.   *)
BettingCentreUse == bettingCentre!Spec
=============================================================================
