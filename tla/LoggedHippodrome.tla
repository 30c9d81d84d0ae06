-------------------------- MODULE LoggedHippodrome --------------------------
(***************************************************************************)
(* The simulation with its log.  A method of a region reports while it     *)
(* holds the region's lock and before it waits, so that its reports are    *)
(* part of its first step; what the broker reports of the end of a race is *)
(* a request of its own, after which it goes on.                           *)
(***************************************************************************)
EXTENDS TimelyHippodrome

repository == INSTANCE GeneralInformationRepository

VARIABLES
  log,          \* the records of the general repository of information
  raceToEnd     \* the broker still has to report the end of the race

loggedVars == <<vars, log, raceToEnd>>

LoggedInit ==
  /\ Init
  /\ log = repository!RepositoryOf(race, money)
  /\ raceToEnd = FALSE

-----------------------------------------------------------------------------

Silently == UNCHANGED log

(* The reports of a method that may wait: made when it is called, not when *)
(* it is resumed.                                                          *)
OnEntry(call, entry) == log' = IF call = "none" THEN entry ELSE log

(* evaluateOdds() reports the odds of each horse as it replaces them.      *)
LogOdds ==
  \/ bettingCall[Broker] # "none" /\ Silently
  \/ /\ bettingCall[Broker] = "none" /\ bettingCentre!AbilitiesKnown
     /\ log' = repository!setHorseJockeyProbabilitiesToWin(
                  repository!setBrokerStatus(log, "WFB"), HorseJockeys, horsesOdds')
  \/ /\ bettingCall[Broker] = "none" /\ ~bettingCentre!AbilitiesKnown
     /\ \E before \in SUBSET bettingCentre!WithAbility :
          /\ bettingCentre!evaluateOdds(before)
          /\ log' = repository!setHorseJockeyProbabilitiesToWin(log, before, horsesOdds')

(* The last statement of the broker's loop is raceIsOver().                *)
RaceHasEnded ==
  /\ brokerPc' # brokerPc
  /\ brokerPc' \in {"stable.summonHorsesToPaddock", "controlCentre.entertainTheGuests"}

LoggedBroker ==
  /\ ~raceToEnd
  /\ ArriveBeforeTheSummons /\ LineUpBeforeTheStart /\ WatchBeforeTheSupervision
  /\ \/ (BrokerSummonsHorses \/ BrokerStartsRace \/ BrokerReportsResults
           \/ BrokerLooksForWinners) /\ Silently
     \/ BrokerAnnouncesRace
        /\ OnEntry(centreCall[Broker], repository!setBrokerStatus(log, "ANR"))
     \/ BrokerAcceptsBets /\ LogOdds
     \/ BrokerSupervisesRace
        /\ OnEntry(centreCall[Broker], repository!setBrokerStatus(log, "STR"))
     \/ BrokerHonoursBets
        /\ OnEntry(bettingCall[Broker], repository!setBrokerStatus(log, "SA"))
     \/ BrokerSetsRace /\ log' = repository!setRace(log, race')
     \/ BrokerEntertainsGuests /\ log' = repository!setBrokerStatus(log, "PHATB")
  /\ raceToEnd' = RaceHasEnded

BrokerEndsRace ==
  /\ raceToEnd
  /\ log' = repository!raceIsOver(log)
  /\ raceToEnd' = FALSE
  /\ UNCHANGED vars

-----------------------------------------------------------------------------

SpectatorReports(s, status) == repository!setSpectatorStatus(log, s, status)

(* placeABet() records its bet on entry; the spectator reports what it has *)
(* left when it gets the answer.                                           *)
LogBet(s) ==
  LET entered ==
        IF bettingCall[s] = "none"
        THEN repository!setSpectatorBet(SpectatorReports(s, "PB"), s,
                                        bets'[s].horse, bets'[s].amount)
        ELSE log
  IN log' = IF BettingCentreAnswers(s)
            THEN repository!setSpectatorAmountOfMoney(entered, s, money'[s]) ELSE entered

LogGains(s) ==
  LET entered == IF bettingCall[s] = "none" THEN SpectatorReports(s, "CTG") ELSE log
  IN log' = IF BettingCentreAnswers(s)
            THEN repository!setSpectatorAmountOfMoney(entered, s, money'[s]) ELSE entered

LoggedSpectator(s) ==
  /\ ParadeBeforeTheAppraisal(s) /\ LeaveBeforeTheReturn(s)
  /\ \/ SpectatorWaitsForRace(s) /\ OnEntry(centreCall[s], SpectatorReports(s, "WFRTS"))
     \/ (SpectatorIsCounted(s) \/ LastSpectatorTellsBroker(s) \/ SpectatorAsksResult(s))
        /\ Silently
     \/ SpectatorAppraisesHorses(s) /\ OnEntry(paddockCall[s], SpectatorReports(s, "ATH"))
     \/ SpectatorPlacesBet(s) /\ LogBet(s)
     \/ SpectatorWatchesRace(s) /\ OnEntry(centreCall[s], SpectatorReports(s, "WR"))
     \/ SpectatorCollectsGains(s) /\ LogGains(s)
     \/ SpectatorRelaxes(s) /\ log' = SpectatorReports(s, "C")
  /\ UNCHANGED raceToEnd

-----------------------------------------------------------------------------

HorseReports(h, status) == repository!setHorseJockeyStatus(log, h, status)

LogMove(h) ==
  log' = IF RacingTrackAnswers(h)
         THEN repository!setHorseJockeyMove(
                HorseReports(h, IF currentHorsesPositions'[h] >= race.distance
                                THEN "ATFL" ELSE "R"),
                h, currentHorsesPositions'[h])
         ELSE log

(* markFinalPosition().                                                    *)
LogStand(h) ==
  log' = IF racingTrack!HasCrossed(h)
         THEN repository!setHorseJockeyFinalStandPosition(log, h, numberOfFinishedHorses')
         ELSE log

LoggedHorse(h) ==
  /\ WatchBeforeTheFinish(h)
  /\ \/ HorseArrivesAtStable(h) /\ OnEntry(stableCall[h], HorseReports(h, "ATS"))
     \/ HorseLeavesForPaddock(h) /\ log' = HorseReports(h, "ATP")
     \/ HorseLeavesPaddock(h) /\ log' = HorseReports(h, "ATSL")
     \/ HorseLinesUp(h)
        /\ OnEntry(trackCall[h], repository!setHorseJockeyFinalStandPosition(log, h, 0))
     \/ HorseChecksFinishLine(h) /\ LogStand(h)
     \/ HorseMoves(h) /\ LogMove(h)
     \/ HorseGoesToRest(h) /\ OnEntry(stableCall[h], HorseReports(h, "ATS"))
     \/ (HorseSetsAbility(h) \/ HorseParades(h) \/ HorseFinishes(h)) /\ Silently
  /\ UNCHANGED raceToEnd

(* The constructor of a horse reports its ability and its state.           *)
LoggedLauncher ==
  /\ \/ LaunchNextBatch /\ Silently
     \/ \E h \in HorseJockeys :
          /\ LaunchHorse(h)
          /\ log' = repository!setHorseJockeyAbility(HorseReports(h, "ATS"), h, horseAbility'[h])
  /\ UNCHANGED raceToEnd

LoggedNext ==
  \/ LoggedBroker
  \/ BrokerEndsRace
  \/ \E s \in Spectators : LoggedSpectator(s)
  \/ \E h \in HorseJockeys : LoggedHorse(h)
  \/ LoggedLauncher

(* As in TimelyHippodrome: every client's thread is scheduled in the end.  *)
LoggedFairness ==
  /\ WF_loggedVars(LoggedBroker \/ BrokerEndsRace)
  /\ \A s \in Spectators : WF_loggedVars(LoggedSpectator(s))
  /\ \A h \in HorseJockeys : WF_loggedVars(LoggedHorse(h))
  /\ WF_loggedVars(LoggedLauncher)

LoggedSpec == LoggedInit /\ [][LoggedNext]_loggedVars /\ LoggedFairness

-----------------------------------------------------------------------------

LogTypeOK == repository!TypeOK(log)

(* A line of the log shows of every spectator that watches or collects the *)
(* bet the betting centre settles: the bet of the next race may already be *)
(* recorded when the broker has the records of this one cleared            *)
(* (raceIsOver), and only its copy survives.                               *)
BetsArePrinted ==
  \A s \in Spectators : repository!PrintsCopy(log, s) =>
    /\ repository!PrintedSelection(log, s) = bets[s].horse
    /\ repository!PrintedAmount(log, s) = bets[s].amount

(* A line shows of a running horse where it is on the track, after as many *)
(* moves as that can take: neither the moves of the race before nor the    *)
(* clearing of its records (raceIsOver) show up in this one.               *)
RunIsPrinted ==
  \A h \in HorseJockeys :
    LET run == log.horseJockeys[h]
        started == horsePc[h] \in {"racingTrack.hasFinishLineBeenCrossed",
                                   "racingTrack.makeAMove", "controlCentre.makeAMove"}
    IN repository!PrintsRun(log, h) /\ started =>
         /\ run.positionOnTrack = currentHorsesPositions[h]
         /\ run.positionOnTrack \in
              run.numberOfIncrementsDid .. run.numberOfIncrementsDid * horseAbility[h]

-----------------------------------------------------------------------------
(* ControlCentre.reportResults returns "the winner of the current race",   *)
(* and RacingTrack.winner is the horse "which has crossed the finish line  *)
(* first": the broker pays those who bet on the horse that the log shows   *)
(* in the first place.                                                     *)
WinnerStandsFirst ==
  brokerPc = "bettingCentre.areThereAnyWinners" /\ batch = brokerRace
    => log.horseJockeys[brokerWinner].finalStandPosition = 1
=============================================================================
