----------------------------- MODULE Hippodrome -----------------------------
(***************************************************************************)
(* The whole simulation: the broker, the spectators, the batches of horses *)
(* and their launcher, calling the five regions over the network.          *)
(*                                                                         *)
(* A region is a monitor on a server of its own.  A client is sequential:  *)
(* it sends a request, the region's method runs in a service agent, and    *)
(* the client goes on when the reply arrives.  So a client's pc names the  *)
(* method it is about to call or is blocked in; any delay of a request or  *)
(* of a reply is time the client spends before its next step.              *)
(***************************************************************************)
EXTENDS SimulationConfigurations, Sequences

CONSTANTS
  Distances,       \* the lengths a race can have
  Abilities,       \* the abilities a horse can have
  InitialMoney,    \* the amounts a spectator can start with
  Portions,        \* the portions of its money a spectator bets: <<1, 4>> is 1/4
  MaxMoney         \* bound on a bet and on moneyOnSafe

(* A track is longer than a horse's longest step (50 or more against 4 or  *)
(* less): with a horse that crosses the line in one move, the others could *)
(* miss the start order it withdraws in hasFinishLineBeenCrossed.          *)
ASSUME HippodromeAssumption ==
  /\ Distances \subseteq Nat \ {0}
  /\ Abilities \subseteq Nat \ {0}
  /\ \A d \in Distances, a \in Abilities : a < d
  /\ InitialMoney \subseteq Nat
  /\ Portions \subseteq Nat \X (Nat \ {0})
  /\ \A p \in Portions : p[1] <= p[2]
  /\ MaxMoney \in Nat

VARIABLES
  (* Stable *)
  currentRaceNumber, numberOfHorsesOnStable, horsesAreNotAvailable,
  thisIsAfterTheLastRun, brokerDidNotSaidToAdvance, argument,
  stableCall, stableWaitSet,
  (* ControlCentre *)
  numberOfHorseJockeysOnPaddock, finishedHorses, announcing,
  lastHorseJockeyHasNotArrivedOnPaddock, thereIsStillHorsesToFinishRace,
  brokerDidNotReportResults, raceWinner, centreCall, centreWaitSet,
  (* Paddock *)
  currentNumberOfHorses, currentNumberOfSpectators,
  lastHorseDidNotProceedToStartLine, lastSpectatorHasNotArrivedOnPaddock,
  paddockCall, paddockWaitSet,
  (* RacingTrack *)
  race, horsesToRun, numberOfFinishedHorses, currentHorsesPositions, winner,
  hasFirstHorseCrossedTheFinishLine, brokerDidNotOrderToStartTheRace,
  raceIsAboutToEnd, trackCall, trackWaitSet,
  (* BettingCentre *)
  bettingQueue, bets, winners, moneyOnSafe, horsesOdds, horsesAbilities,
  brokerHaveNotAcceptedTheBet, winnersMustNotReceiveTheirMoney,
  allWinnersAreNotOnBettingCentre, brokerDoesNotAllowToProceedToHaveIWon,
  winnersArrived, bettingCall, bettingWaitSet,
  (* Broker.run *)
  brokerPc, brokerRace, brokerWinner,
  (* Spectator.run *)
  spectatorPc, spectatorRace, isLastSpectator, money,
  (* HorseJockey.run and the launcher of the horses *)
  horsePc, horseRace, horseAbility, batch

stable == INSTANCE Stable WITH call <- stableCall, waitSet <- stableWaitSet

(* The control centre has a flag of the same name as the paddock's; here   *)
(* it is called announcing, after the broker's state while it holds.       *)
controlCentre == INSTANCE ControlCentre WITH
  lastSpectatorHasNotArrivedOnPaddock <- announcing,
  call <- centreCall, waitSet <- centreWaitSet

paddock == INSTANCE Paddock WITH call <- paddockCall, waitSet <- paddockWaitSet

racingTrack == INSTANCE RacingTrack WITH call <- trackCall, waitSet <- trackWaitSet

bettingCentre == INSTANCE BettingCentre WITH
  BetAmounts <- 0 .. MaxMoney, MaxMoneyOnSafe <- MaxMoney,
  call <- bettingCall, waitSet <- bettingWaitSet

stableVars == <<currentRaceNumber, numberOfHorsesOnStable, horsesAreNotAvailable,
                thisIsAfterTheLastRun, brokerDidNotSaidToAdvance, argument,
                stableCall, stableWaitSet>>
centreVars == <<numberOfHorseJockeysOnPaddock, finishedHorses, announcing,
                lastHorseJockeyHasNotArrivedOnPaddock, thereIsStillHorsesToFinishRace,
                brokerDidNotReportResults, raceWinner, centreCall, centreWaitSet>>
paddockVars == <<currentNumberOfHorses, currentNumberOfSpectators,
                 lastHorseDidNotProceedToStartLine, lastSpectatorHasNotArrivedOnPaddock,
                 paddockCall, paddockWaitSet>>
trackVars == <<race, horsesToRun, numberOfFinishedHorses, currentHorsesPositions, winner,
               hasFirstHorseCrossedTheFinishLine, brokerDidNotOrderToStartTheRace,
               raceIsAboutToEnd, trackCall, trackWaitSet>>
bettingVars == <<bettingQueue, bets, winners, moneyOnSafe, horsesOdds, horsesAbilities,
                 brokerHaveNotAcceptedTheBet, winnersMustNotReceiveTheirMoney,
                 allWinnersAreNotOnBettingCentre, brokerDoesNotAllowToProceedToHaveIWon,
                 winnersArrived, bettingCall, bettingWaitSet>>
brokerVars == <<brokerPc, brokerRace, brokerWinner>>
spectatorVars == <<spectatorPc, spectatorRace, isLastSpectator, money>>
horseVars == <<horsePc, horseRace, horseAbility, batch>>
vars == <<stableVars, centreVars, paddockVars, trackVars, bettingVars,
          brokerVars, spectatorVars, horseVars>>

Init ==
  /\ stable!Init
  /\ controlCentre!Init
  /\ paddock!Init
  /\ racingTrack!Init
  /\ bettingCentre!Init
  /\ brokerPc = "stable.summonHorsesToPaddock"
  /\ brokerRace = 0
  /\ brokerWinner = NoHorse
  /\ spectatorPc = [s \in Spectators |-> "controlCentre.waitForTheNextRace"]
  /\ spectatorRace = [s \in Spectators |-> 0]
  /\ isLastSpectator = [s \in Spectators |-> FALSE]
  /\ money \in [Spectators -> InitialMoney]
  /\ horsePc = [h \in HorseJockeys |-> "unborn"]
  /\ horseRace = [h \in HorseJockeys |-> 0]
  /\ horseAbility \in [HorseJockeys -> Abilities]
  /\ batch = 0

-----------------------------------------------------------------------------
(* A step takes place in one region and leaves the others alone.           *)

InStable == UNCHANGED <<centreVars, paddockVars, trackVars, bettingVars>>
InControlCentre == UNCHANGED <<stableVars, paddockVars, trackVars, bettingVars>>
InPaddock == UNCHANGED <<stableVars, centreVars, trackVars, bettingVars>>
InRacingTrack == UNCHANGED <<stableVars, centreVars, paddockVars, bettingVars>>
InBettingCentre == UNCHANGED <<stableVars, centreVars, paddockVars, trackVars>>
InNoRegion == InStable /\ UNCHANGED stableVars

(* The stubs: a method sends its request, blocks until the region's answer *)
(* has come, and lets its client go on.  There is an answer when the       *)
(* region's method has returned, and none when it has failed.              *)

StableAnswers(client) == stableCall'[client] = "none"
ControlCentreAnswers(client) == centreCall'[client] = "none"
PaddockAnswers(client) == paddockCall'[client] = "none"
RacingTrackAnswers(client) == trackCall'[client] = "none"
BettingCentreAnswers(client) == bettingCall'[client] = "none"

-----------------------------------------------------------------------------
(* Broker.run                                                              *)

(* The broker moves on to next if its call has returned.                   *)
BrokerReturns(pc, returned, next) ==
  /\ brokerPc = pc
  /\ brokerPc' = IF returned THEN next ELSE pc
  /\ UNCHANGED <<spectatorVars, horseVars>>

BrokerSummonsHorses ==
  /\ \/ stable!summonHorsesToPaddock(brokerRace)
     \/ stable!resumeSummonHorsesToPaddock
  /\ BrokerReturns("stable.summonHorsesToPaddock", StableAnswers(Broker),
                   "controlCentre.summonHorsesToPaddock")
  /\ InStable /\ UNCHANGED <<brokerRace, brokerWinner>>

BrokerAnnouncesRace ==
  /\ \/ controlCentre!summonHorsesToPaddock
     \/ controlCentre!resumeSummonHorsesToPaddock
  /\ BrokerReturns("controlCentre.summonHorsesToPaddock", ControlCentreAnswers(Broker),
                   "bettingCentre.acceptTheBets")
  /\ InControlCentre /\ UNCHANGED <<brokerRace, brokerWinner>>

BrokerAcceptsBets ==
  /\ \/ bettingCentre!acceptTheBets
     \/ bettingCentre!acceptTheBetsFails
     \/ bettingCentre!resumeAcceptTheBets
  /\ BrokerReturns("bettingCentre.acceptTheBets", BettingCentreAnswers(Broker),
                   "racingTrack.startTheRace")
  /\ InBettingCentre /\ UNCHANGED <<brokerRace, brokerWinner>>

BrokerStartsRace ==
  /\ racingTrack!startTheRace
  /\ BrokerReturns("racingTrack.startTheRace", TRUE, "controlCentre.startTheRace")
  /\ InRacingTrack /\ UNCHANGED <<brokerRace, brokerWinner>>

BrokerSupervisesRace ==
  /\ \/ controlCentre!startTheRace
     \/ controlCentre!resumeStartTheRace
  /\ BrokerReturns("controlCentre.startTheRace", ControlCentreAnswers(Broker),
                   "controlCentre.reportResults")
  /\ InControlCentre /\ UNCHANGED <<brokerRace, brokerWinner>>

BrokerReportsResults ==
  /\ controlCentre!reportResults
  /\ BrokerReturns("controlCentre.reportResults", TRUE, "bettingCentre.areThereAnyWinners")
  /\ brokerWinner' = raceWinner
  /\ InControlCentre /\ UNCHANGED brokerRace

(* Mutant: one race too many.                                              *)
AfterAnyBets ==
  IF brokerRace < NUMBER_OF_RACES
  THEN "racingTrack.setRace" ELSE "controlCentre.entertainTheGuests"

(* After its bets, the broker sets the next race on the track, if any.     *)
AfterTheBets ==
  IF brokerRace < NUMBER_OF_RACES - 1
  THEN "racingTrack.setRace" ELSE "controlCentre.entertainTheGuests"

BrokerLooksForWinners ==
  /\ bettingCentre!areThereAnyWinners(brokerWinner)
  /\ BrokerReturns("bettingCentre.areThereAnyWinners", TRUE,
                   IF winners' # {} THEN "bettingCentre.honourTheBets" ELSE AfterTheBets)
  /\ InBettingCentre /\ UNCHANGED <<brokerRace, brokerWinner>>

BrokerHonoursBets ==
  /\ \/ bettingCentre!honourTheBets
     \/ bettingCentre!resumeHonourTheBets
  /\ BrokerReturns("bettingCentre.honourTheBets", BettingCentreAnswers(Broker), AfterTheBets)
  /\ InBettingCentre /\ UNCHANGED <<brokerRace, brokerWinner>>

(* Mutant: the broker calls for the same race again.                       *)
BrokerRepeatsRace ==
  /\ \E d \in Distances : racingTrack!setRace(racingTrack!RaceOf(brokerRace + 1, d))
  /\ BrokerReturns("racingTrack.setRace", TRUE, "stable.summonHorsesToPaddock")
  /\ InRacingTrack /\ UNCHANGED <<brokerRace, brokerWinner>>

BrokerSetsRace ==
  /\ \E d \in Distances : racingTrack!setRace(racingTrack!RaceOf(brokerRace + 1, d))
  /\ BrokerReturns("racingTrack.setRace", TRUE, "stable.summonHorsesToPaddock")
  /\ brokerRace' = brokerRace + 1
  /\ InRacingTrack /\ UNCHANGED brokerWinner

(* controlCentre.entertainTheGuests() only records the broker's state.     *)
BrokerEntertainsGuests ==
  /\ BrokerReturns("controlCentre.entertainTheGuests", TRUE, "playing host at the bar")
  /\ InNoRegion /\ UNCHANGED <<brokerRace, brokerWinner>>

BrokerNext ==
  \/ BrokerSummonsHorses \/ BrokerAnnouncesRace \/ BrokerAcceptsBets
  \/ BrokerStartsRace \/ BrokerSupervisesRace \/ BrokerReportsResults
  \/ BrokerLooksForWinners \/ BrokerHonoursBets \/ BrokerSetsRace
  \/ BrokerEntertainsGuests

-----------------------------------------------------------------------------
(* Spectator.run                                                           *)

SpectatorReturns(s, pc, returned, next) ==
  /\ spectatorPc[s] = pc
  /\ spectatorPc' = [spectatorPc EXCEPT ![s] = IF returned THEN next ELSE pc]
  /\ UNCHANGED <<brokerVars, horseVars>>

SpectatorWaitsForRace(s) ==
  /\ \/ controlCentre!waitForTheNextRace(s)
     \/ controlCentre!resumeWaitForTheNextRace(s)
  /\ SpectatorReturns(s, "controlCentre.waitForTheNextRace", ControlCentreAnswers(s),
                      "paddock.goCheckHorses()")
  /\ InControlCentre /\ UNCHANGED <<spectatorRace, isLastSpectator, money>>

SpectatorIsCounted(s) ==
  /\ paddock!countSpectator(s)
  /\ isLastSpectator' = [isLastSpectator EXCEPT ![s] = paddock!IsLastSpectator]
  /\ SpectatorReturns(s, "paddock.goCheckHorses()", TRUE,
                      IF paddock!IsLastSpectator THEN "controlCentre.goCheckHorses"
                                                 ELSE "paddock.goCheckHorses(boolean)")
  /\ InPaddock /\ UNCHANGED <<spectatorRace, money>>

LastSpectatorTellsBroker(s) ==
  /\ controlCentre!goCheckHorses
  /\ SpectatorReturns(s, "controlCentre.goCheckHorses", TRUE, "paddock.goCheckHorses(boolean)")
  /\ InControlCentre /\ UNCHANGED <<spectatorRace, isLastSpectator, money>>

SpectatorAppraisesHorses(s) ==
  /\ \/ paddock!goCheckHorses(s, isLastSpectator[s])
     \/ paddock!resumeGoCheckHorses(s)
  /\ SpectatorReturns(s, "paddock.goCheckHorses(boolean)", PaddockAnswers(s),
                      "bettingCentre.placeABet")
  /\ InPaddock /\ UNCHANGED <<spectatorRace, isLastSpectator, money>>

(* bet(): a random portion of the money, rounded down.                     *)
BetsOf(s) == {(money[s] * p[1]) \div p[2] : p \in Portions}

SpectatorPlacesBet(s) ==
  /\ \/ \E amount \in BetsOf(s), horse \in HorseJockeys :
          bettingCentre!placeABet(s, amount, horse)
     \/ bettingCentre!resumePlaceABet(s)
  /\ SpectatorReturns(s, "bettingCentre.placeABet", BettingCentreAnswers(s),
                      "controlCentre.goWatchTheRace")
  /\ money' = IF BettingCentreAnswers(s)
              THEN [money EXCEPT ![s] = @ - bets'[s].amount] ELSE money
  /\ InBettingCentre /\ UNCHANGED <<spectatorRace, isLastSpectator>>

SpectatorWatchesRace(s) ==
  /\ \/ controlCentre!goWatchTheRace(s)
     \/ controlCentre!resumeGoWatchTheRace(s)
  /\ SpectatorReturns(s, "controlCentre.goWatchTheRace", ControlCentreAnswers(s),
                      "bettingCentre.haveIWon")
  /\ InControlCentre /\ UNCHANGED <<spectatorRace, isLastSpectator, money>>

(* The end of the loop: the last race, or the next one.                    *)
AfterTheRace(s) ==
  IF spectatorRace[s] + 1 = NUMBER_OF_RACES
  THEN "controlCentre.relaxABit" ELSE "controlCentre.waitForTheNextRace"

GoToNextRace(s, goes) ==
  spectatorRace' = IF goes THEN [spectatorRace EXCEPT ![s] = @ + 1] ELSE spectatorRace

(* Mutant: the losers go and collect.                                      *)
HasLost(s) == ~bettingCentre!Won(s)

HasWon(s) == bettingCentre!Won(s)

SpectatorAsksResult(s) ==
  LET returned == BettingCentreAnswers(s)
  IN /\ \/ bettingCentre!haveIWon(s)
        \/ bettingCentre!resumeHaveIWon(s)
     /\ SpectatorReturns(s, "bettingCentre.haveIWon", returned,
                         IF HasWon(s) THEN "bettingCentre.goCollectTheGains" ELSE AfterTheRace(s))
     /\ GoToNextRace(s, returned /\ ~HasWon(s))
     /\ InBettingCentre /\ UNCHANGED <<isLastSpectator, money>>

SpectatorCollectsGains(s) ==
  LET returned == BettingCentreAnswers(s)
  IN /\ \/ bettingCentre!goCollectTheGains(s)
        \/ bettingCentre!resumeGoCollectTheGains(s)
     /\ SpectatorReturns(s, "bettingCentre.goCollectTheGains", returned, AfterTheRace(s))
     /\ money' = IF returned
                 THEN [money EXCEPT ![s] = @ + bettingCentre!Gains(s)] ELSE money
     /\ GoToNextRace(s, returned)
     /\ InBettingCentre /\ UNCHANGED isLastSpectator

(* controlCentre.relaxABit() only records the spectator's state.           *)
SpectatorRelaxes(s) ==
  /\ SpectatorReturns(s, "controlCentre.relaxABit", TRUE, "celebrating")
  /\ InNoRegion /\ UNCHANGED <<spectatorRace, isLastSpectator, money>>

SpectatorNext(s) ==
  \/ SpectatorWaitsForRace(s) \/ SpectatorIsCounted(s) \/ LastSpectatorTellsBroker(s)
  \/ SpectatorAppraisesHorses(s) \/ SpectatorPlacesBet(s) \/ SpectatorWatchesRace(s)
  \/ SpectatorAsksResult(s) \/ SpectatorCollectsGains(s) \/ SpectatorRelaxes(s)

-----------------------------------------------------------------------------
(* HorseJockey.run                                                         *)

HorseReturns(h, pc, returned, next) ==
  /\ horsePc[h] = pc
  /\ horsePc' = [horsePc EXCEPT ![h] = IF returned THEN next ELSE pc]
  /\ UNCHANGED <<brokerVars, spectatorVars, batch>>

HorseSetsAbility(h) ==
  /\ bettingCentre!setAbility(h, horseAbility[h])
  /\ HorseReturns(h, "bettingCentre.setAbility", TRUE, "stable.proceedToStable(int)")
  /\ InBettingCentre /\ UNCHANGED <<horseRace, horseAbility>>

HorseArrivesAtStable(h) ==
  /\ \/ stable!proceedToStableForRace(h, horseRace[h])
     \/ stable!resumeProceedToStableForRace(h)
  /\ HorseReturns(h, "stable.proceedToStable(int)", StableAnswers(h),
                  "controlCentre.proceedToPaddock")
  /\ InStable /\ UNCHANGED <<horseRace, horseAbility>>

HorseLeavesForPaddock(h) ==
  /\ controlCentre!proceedToPaddock
  /\ HorseReturns(h, "controlCentre.proceedToPaddock", TRUE, "paddock.proceedToPaddock")
  /\ InControlCentre /\ UNCHANGED <<horseRace, horseAbility>>

HorseParades(h) ==
  /\ \/ paddock!proceedToPaddock(h)
     \/ paddock!resumeProceedToPaddock(h)
  /\ HorseReturns(h, "paddock.proceedToPaddock", PaddockAnswers(h),
                  "paddock.proceedToStartLine")
  /\ InPaddock /\ UNCHANGED <<horseRace, horseAbility>>

HorseLeavesPaddock(h) ==
  /\ paddock!proceedToStartLine(h)
  /\ HorseReturns(h, "paddock.proceedToStartLine", TRUE, "racingTrack.proceedToStartLine")
  /\ InPaddock /\ UNCHANGED <<horseRace, horseAbility>>

HorseLinesUp(h) ==
  /\ \/ racingTrack!proceedToStartLine(h)
     \/ racingTrack!resumeProceedToStartLine(h)
  /\ HorseReturns(h, "racingTrack.proceedToStartLine", RacingTrackAnswers(h),
                  "racingTrack.hasFinishLineBeenCrossed")
  /\ InRacingTrack /\ UNCHANGED <<horseRace, horseAbility>>

(* Mutant: the horse runs on whatever the answer.                          *)
HorseRunsOn(h) ==
  /\ racingTrack!hasFinishLineBeenCrossed(h)
  /\ HorseReturns(h, "racingTrack.hasFinishLineBeenCrossed", TRUE, "racingTrack.makeAMove")
  /\ InRacingTrack /\ UNCHANGED <<horseRace, horseAbility>>

HorseChecksFinishLine(h) ==
  /\ racingTrack!hasFinishLineBeenCrossed(h)
  /\ HorseReturns(h, "racingTrack.hasFinishLineBeenCrossed", TRUE,
                  IF racingTrack!HasCrossed(h) THEN "controlCentre.makeAMove"
                                               ELSE "racingTrack.makeAMove")
  /\ InRacingTrack /\ UNCHANGED <<horseRace, horseAbility>>

HorseMoves(h) ==
  /\ \/ racingTrack!makeAMove(h, horseAbility[h])
     \/ racingTrack!resumeMakeAMove(h, horseAbility[h])
  /\ HorseReturns(h, "racingTrack.makeAMove", RacingTrackAnswers(h),
                  "racingTrack.hasFinishLineBeenCrossed")
  /\ InRacingTrack /\ UNCHANGED <<horseRace, horseAbility>>

HorseFinishes(h) ==
  /\ controlCentre!makeAMove(h)
  /\ HorseReturns(h, "controlCentre.makeAMove", TRUE, "stable.proceedToStable()")
  /\ InControlCentre /\ UNCHANGED <<horseRace, horseAbility>>

HorseGoesToRest(h) ==
  /\ \/ stable!proceedToStable(h)
     \/ stable!resumeProceedToStable(h)
  /\ HorseReturns(h, "stable.proceedToStable()", StableAnswers(h), "deceased")
  /\ InStable /\ UNCHANGED <<horseRace, horseAbility>>

HorseNext(h) ==
  \/ HorseSetsAbility(h) \/ HorseArrivesAtStable(h) \/ HorseLeavesForPaddock(h)
  \/ HorseParades(h) \/ HorseLeavesPaddock(h) \/ HorseLinesUp(h)
  \/ HorseChecksFinishLine(h) \/ HorseMoves(h) \/ HorseFinishes(h) \/ HorseGoesToRest(h)

-----------------------------------------------------------------------------
(* ClientLauncher: the horses of a batch are constructed and started one   *)
(* after the other, and the next batch when all of them have ended.  The   *)
(* constructor asks the track for the race its horse will run in.          *)

LaunchHorse(h) ==
  /\ horsePc[h] = "unborn"
  /\ \E ability \in Abilities : horseAbility' = [horseAbility EXCEPT ![h] = ability]
  /\ horseRace' = [horseRace EXCEPT ![h] = race.identification]
  /\ horsePc' = [horsePc EXCEPT ![h] = "bettingCentre.setAbility"]
  /\ InNoRegion /\ UNCHANGED <<batch, brokerVars, spectatorVars>>

LaunchNextBatch ==
  /\ \A h \in HorseJockeys : horsePc[h] = "deceased"
  /\ batch + 1 < NUMBER_OF_RACES
  /\ batch' = batch + 1
  /\ horsePc' = [h \in HorseJockeys |-> "unborn"]
  /\ InNoRegion /\ UNCHANGED <<horseRace, horseAbility, brokerVars, spectatorVars>>

LauncherNext == LaunchNextBatch \/ \E h \in HorseJockeys : LaunchHorse(h)

-----------------------------------------------------------------------------

Next ==
  \/ BrokerNext
  \/ \E s \in Spectators : SpectatorNext(s)
  \/ \E h \in HorseJockeys : HorseNext(h)
  \/ LauncherNext

Spec == Init /\ [][Next]_vars
=============================================================================
