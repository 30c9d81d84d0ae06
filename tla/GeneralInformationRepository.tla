-------------------- MODULE GeneralInformationRepository --------------------
(***************************************************************************)
(* The general repository of information: what the regions and the clients *)
(* report, kept for the lines of the log.  Every method is synchronized    *)
(* and none blocks, so that a method is a function from the records before *)
(* it to the records after it.                                             *)
(***************************************************************************)
EXTENDS SimulationConfigurations

(* A state is known by its initials, as rollfilm and setBrokerStatus       *)
(* abbreviate its name; the constructors of the broker and the spectators  *)
(* report the first ones before anybody runs.                              *)
BrokerStates == {"OTE", "ANR", "WFB", "STR", "SA", "PHATB"}
SpectatorStates == {"WFRTS", "ATH", "PB", "WR", "CTG", "C"}
HorseJockeyStates == {"---", "ATS", "ATP", "ATSL", "R", "ATFL"}

NoSelection == [betSelection |-> NoHorse, betAmount |-> 0]
NoRun == [ability |-> 0, probabilityToWin |-> 0, numberOfIncrementsDid |-> 0,
          positionOnTrack |-> 0, finalStandPosition |-> 0]

RepositoryOf(race, money) ==
  [brokerStatus |-> "OTE",
   spectatorStatus |-> [s \in Spectators |-> "WFRTS"],
   amountOfMoney |-> money,
   spectators |-> [s \in Spectators |-> NoSelection],
   temporarySpectators |-> [s \in Spectators |-> NoSelection],
   horseJockeyStatus |-> [h \in HorseJockeys |-> "---"],
   horseJockeys |-> [h \in HorseJockeys |-> NoRun],
   currentRace |-> race]

-----------------------------------------------------------------------------

(* setRaceNumber(), setRaceDistance(): always called one after the other.  *)
setRace(log, race) == [log EXCEPT !.currentRace = race]

setBrokerStatus(log, status) == [log EXCEPT !.brokerStatus = status]

setSpectatorStatus(log, s, status) == [log EXCEPT !.spectatorStatus[s] = status]

setSpectatorAmountOfMoney(log, s, amount) == [log EXCEPT !.amountOfMoney[s] = amount]

(* setSpectatorBetAmount(), setSpectatorBetSelection(): with a copy that   *)
(* outlives the race.                                                      *)
setSpectatorBet(log, s, horse, amount) ==
  LET bet == [betSelection |-> horse, betAmount |-> amount]
  IN [log EXCEPT !.spectators[s] = bet, !.temporarySpectators[s] = bet]

setHorseJockeyStatus(log, h, status) == [log EXCEPT !.horseJockeyStatus[h] = status]

setHorseJockeyAbility(log, h, ability) == [log EXCEPT !.horseJockeys[h].ability = ability]

(* setHorseJockeyProbabilityToWin(), called for some horses in a row.      *)
setHorseJockeyProbabilitiesToWin(log, horses, odds) ==
  [log EXCEPT !.horseJockeys = [h \in HorseJockeys |->
    IF h \in horses THEN [@[h] EXCEPT !.probabilityToWin = odds[h]] ELSE @[h]]]

(* setHorseJockeyPositionOnTrack() and, of the number it had read before,  *)
(* setHorseJockeyNumberOfIncrementsDid().                                  *)
setHorseJockeyMove(log, h, position) ==
  [log EXCEPT !.horseJockeys[h].positionOnTrack = position,
              !.horseJockeys[h].numberOfIncrementsDid = @ + 1]

setHorseJockeyFinalStandPosition(log, h, position) ==
  [log EXCEPT !.horseJockeys[h].finalStandPosition = position]

(* Mutant: the copies of the bets go with the bets.                        *)
raceIsForgotten(log) ==
  [log EXCEPT !.spectators = [s \in Spectators |-> NoSelection],
              !.temporarySpectators = [s \in Spectators |-> NoSelection],
              !.horseJockeys = [h \in HorseJockeys |-> NoRun]]

(* Mutant: the increments of the next race add to those of this one.       *)
raceIsOverButTheIncrements(log) ==
  [log EXCEPT !.spectators = [s \in Spectators |-> NoSelection],
              !.horseJockeys = [h \in HorseJockeys |->
                [NoRun EXCEPT !.numberOfIncrementsDid = log.horseJockeys[h].numberOfIncrementsDid]]]

raceIsOver(log) ==
  [log EXCEPT !.spectators = [s \in Spectators |-> NoSelection],
              !.horseJockeys = [h \in HorseJockeys |-> NoRun]]

-----------------------------------------------------------------------------
(* newSnapshot(): the columns BS and BA of a line.  A bet that the end of  *)
(* the race has removed is still printed while its spectator watches or    *)
(* collects.                                                               *)

PrintsCopy(log, s) == log.spectatorStatus[s] \in {"CTG", "WR"}

PrintedSelection(log, s) ==
  IF log.spectators[s].betSelection = NoHorse /\ PrintsCopy(log, s)
  THEN log.temporarySpectators[s].betSelection ELSE log.spectators[s].betSelection

PrintedAmount(log, s) ==
  IF log.spectators[s].betAmount = 0 /\ PrintsCopy(log, s)
  THEN log.temporarySpectators[s].betAmount ELSE log.spectators[s].betAmount

(* The columns N and Ps are printed.                                       *)
PrintsRun(log, h) ==
  \/ log.horseJockeyStatus[h] \in {"R", "ATSL", "ATFL"}
  \/ log.horseJockeys[h].finalStandPosition # 0

TypeOK(log) ==
  /\ log.brokerStatus \in BrokerStates
  /\ log.spectatorStatus \in [Spectators -> SpectatorStates]
  /\ log.amountOfMoney \in [Spectators -> Nat]
  /\ \A bets \in {log.spectators, log.temporarySpectators} :
       bets \in [Spectators -> [betSelection : HorseJockeys \cup {NoHorse}, betAmount : Nat]]
  /\ log.horseJockeyStatus \in [HorseJockeys -> HorseJockeyStates]
  /\ log.horseJockeys \in [HorseJockeys ->
       [ability : Nat, probabilityToWin : Nat, numberOfIncrementsDid : Nat,
        positionOnTrack : Nat, finalStandPosition : 0 .. NUMBER_OF_PAIRS_HORSE_JOCKEY]]
  /\ log.currentRace.identification \in Races
=============================================================================
