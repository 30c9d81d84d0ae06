---------------------------- MODULE ControlCentre ----------------------------
(***************************************************************************)
(* The control centre: the broker announces and supervises the races, the  *)
(* spectators wait for the next race and watch it.                         *)
(***************************************************************************)
EXTENDS SimulationConfigurations, Monitor

VARIABLES
  numberOfHorseJockeysOnPaddock,
  finishedHorses,
  lastSpectatorHasNotArrivedOnPaddock,
  lastHorseJockeyHasNotArrivedOnPaddock,
  thereIsStillHorsesToFinishRace,
  brokerDidNotReportResults,
  raceWinner

paddockVars == <<numberOfHorseJockeysOnPaddock, lastSpectatorHasNotArrivedOnPaddock,
                 lastHorseJockeyHasNotArrivedOnPaddock>>
raceVars == <<finishedHorses, thereIsStillHorsesToFinishRace, raceWinner>>
vars == <<paddockVars, raceVars, brokerDidNotReportResults, call, waitSet>>

(* The threads that can block here and the methods they block in.          *)
Threads == Spectators \cup {Broker}
Summon == "summonHorsesToPaddock"
Supervise == "startTheRace"
AwaitRace == "waitForTheNextRace"
Watch == "goWatchTheRace"

Init ==
  /\ numberOfHorseJockeysOnPaddock = 0
  /\ finishedHorses = 0
  /\ lastSpectatorHasNotArrivedOnPaddock = TRUE
  /\ lastHorseJockeyHasNotArrivedOnPaddock = TRUE
  /\ thereIsStillHorsesToFinishRace = TRUE
  /\ brokerDidNotReportResults = TRUE
  /\ raceWinner = NoHorse
  /\ call = [t \in Threads |-> None]
  /\ waitSet = {}

-----------------------------------------------------------------------------
(* The broker's methods.                                                   *)

SummonOrWait ==
  /\ WaitWhile(lastSpectatorHasNotArrivedOnPaddock, Broker, Summon, waitSet)
  /\ lastSpectatorHasNotArrivedOnPaddock' = TRUE
  /\ UNCHANGED <<numberOfHorseJockeysOnPaddock, lastHorseJockeyHasNotArrivedOnPaddock,
                 raceVars, brokerDidNotReportResults>>

summonHorsesToPaddock == Outside(Broker) /\ SummonOrWait
resumeSummonHorsesToPaddock == Notified(Broker, Summon) /\ SummonOrWait

SuperviseOrWait ==
  /\ WaitWhile(thereIsStillHorsesToFinishRace, Broker, Supervise, waitSet)
  /\ UNCHANGED <<paddockVars, raceVars, brokerDidNotReportResults>>

startTheRace == Outside(Broker) /\ SuperviseOrWait
resumeStartTheRace == Notified(Broker, Supervise) /\ SuperviseOrWait

(* Returns raceWinner.                                                     *)
reportResults ==
  /\ Outside(Broker)
  /\ brokerDidNotReportResults' = FALSE
  /\ NotifyAllAndReturn(Broker)
  /\ UNCHANGED <<paddockVars, raceVars>>

-----------------------------------------------------------------------------
(* The spectators' methods.                                                *)

waitForTheNextRace(s) ==
  /\ Outside(s)
  /\ brokerDidNotReportResults' = TRUE
  /\ WaitWhile(lastHorseJockeyHasNotArrivedOnPaddock, s, AwaitRace, waitSet)
  /\ UNCHANGED <<paddockVars, raceVars>>

resumeWaitForTheNextRace(s) ==
  /\ Notified(s, AwaitRace)
  /\ WaitWhile(lastHorseJockeyHasNotArrivedOnPaddock, s, AwaitRace, waitSet)
  /\ UNCHANGED <<paddockVars, raceVars, brokerDidNotReportResults>>

(* The last spectator to arrive on the paddock wakes the broker.           *)
goCheckHorses ==
  /\ lastSpectatorHasNotArrivedOnPaddock' = FALSE
  /\ lastHorseJockeyHasNotArrivedOnPaddock' = TRUE
  /\ waitSet' = {}
  /\ UNCHANGED <<numberOfHorseJockeysOnPaddock, raceVars, brokerDidNotReportResults, call>>

(* Mutant: the winner of the last race is kept.                            *)
ResetAllButWinner ==
  /\ finishedHorses' = 0
  /\ thereIsStillHorsesToFinishRace' = TRUE
  /\ UNCHANGED raceWinner

(* Mutant: the broker still sees the end of the last race.                 *)
ResetAllButEnd ==
  /\ finishedHorses' = 0
  /\ raceWinner' = NoHorse
  /\ UNCHANGED thereIsStillHorsesToFinishRace

ResetRace ==
  /\ finishedHorses' = 0
  /\ raceWinner' = NoHorse
  /\ thereIsStillHorsesToFinishRace' = TRUE

goWatchTheRace(s) ==
  /\ Outside(s)
  /\ ResetRace
  /\ WaitWhile(brokerDidNotReportResults, s, Watch, waitSet)
  /\ UNCHANGED <<paddockVars, brokerDidNotReportResults>>

resumeGoWatchTheRace(s) ==
  /\ Notified(s, Watch)
  /\ WaitWhile(brokerDidNotReportResults, s, Watch, waitSet)
  /\ UNCHANGED <<paddockVars, raceVars, brokerDidNotReportResults>>

-----------------------------------------------------------------------------
(* The horses' methods, none of which blocks.                              *)

(* Mutant: the arrivals are not counted anew for the next race.            *)
proceedToPaddockWithoutReset ==
  LET isLast == numberOfHorseJockeysOnPaddock + 1 = NUMBER_OF_PAIRS_HORSE_JOCKEY
  IN /\ numberOfHorseJockeysOnPaddock' = numberOfHorseJockeysOnPaddock + 1
     /\ lastHorseJockeyHasNotArrivedOnPaddock' =
          (lastHorseJockeyHasNotArrivedOnPaddock /\ ~isLast)
     /\ waitSet' = IF isLast THEN {} ELSE waitSet
     /\ UNCHANGED <<lastSpectatorHasNotArrivedOnPaddock, raceVars,
                    brokerDidNotReportResults, call>>

proceedToPaddock ==
  LET arrived == numberOfHorseJockeysOnPaddock + 1
      isLast == arrived = NUMBER_OF_PAIRS_HORSE_JOCKEY
  IN /\ numberOfHorseJockeysOnPaddock' = IF isLast THEN 0 ELSE arrived
     /\ lastHorseJockeyHasNotArrivedOnPaddock' =
          (lastHorseJockeyHasNotArrivedOnPaddock /\ ~isLast)
     /\ waitSet' = IF isLast THEN {} ELSE waitSet
     /\ UNCHANGED <<lastSpectatorHasNotArrivedOnPaddock, raceVars,
                    brokerDidNotReportResults, call>>

(* Mutant: every finisher takes itself for the winner.                     *)
makeAMoveAsWinner(h) ==
  LET isLast == finishedHorses + 1 = NUMBER_OF_PAIRS_HORSE_JOCKEY
  IN /\ finishedHorses' = finishedHorses + 1
     /\ raceWinner' = h
     /\ thereIsStillHorsesToFinishRace' = (thereIsStillHorsesToFinishRace /\ ~isLast)
     /\ waitSet' = IF isLast THEN {} ELSE waitSet
     /\ UNCHANGED <<paddockVars, brokerDidNotReportResults, call>>

makeAMove(h) ==
  LET isLast == finishedHorses + 1 = NUMBER_OF_PAIRS_HORSE_JOCKEY
  IN /\ finishedHorses' = finishedHorses + 1
     /\ raceWinner' = IF finishedHorses = 0 THEN h ELSE raceWinner
     /\ thereIsStillHorsesToFinishRace' = (thereIsStillHorsesToFinishRace /\ ~isLast)
     /\ waitSet' = IF isLast THEN {} ELSE waitSet
     /\ UNCHANGED <<paddockVars, brokerDidNotReportResults, call>>

-----------------------------------------------------------------------------
(* The clients of the control centre, calling in any order.  A horse       *)
(* finishes each race once; between two of the resets in goWatchTheRace    *)
(* finishedHorses can count the finishers of several races.                *)

MaxFinished == NUMBER_OF_PAIRS_HORSE_JOCKEY * NUMBER_OF_RACES

Next ==
  \/ summonHorsesToPaddock
  \/ resumeSummonHorsesToPaddock
  \/ startTheRace
  \/ resumeStartTheRace
  \/ reportResults
  \/ goCheckHorses
  \/ \E s \in Spectators : \/ waitForTheNextRace(s)
                           \/ resumeWaitForTheNextRace(s)
                           \/ goWatchTheRace(s)
                           \/ resumeGoWatchTheRace(s)
  \/ proceedToPaddock
  \/ /\ finishedHorses < MaxFinished
     /\ \E h \in HorseJockeys : makeAMove(h)

Spec == Init /\ [][Next]_vars

-----------------------------------------------------------------------------

TypeOK ==
  /\ numberOfHorseJockeysOnPaddock \in 0 .. NUMBER_OF_PAIRS_HORSE_JOCKEY - 1
  /\ finishedHorses \in 0 .. MaxFinished
  /\ lastSpectatorHasNotArrivedOnPaddock \in BOOLEAN
  /\ lastHorseJockeyHasNotArrivedOnPaddock \in BOOLEAN
  /\ thereIsStillHorsesToFinishRace \in BOOLEAN
  /\ brokerDidNotReportResults \in BOOLEAN
  /\ raceWinner \in HorseJockeys \cup {NoHorse}
  /\ call \in [Threads -> {None, Summon, Supervise, AwaitRace, Watch}]
  /\ waitSet \subseteq Threads

(* The condition of the while loop t sleeps in.                            *)
MustWait(t) ==
  \/ call[t] = Summon /\ lastSpectatorHasNotArrivedOnPaddock
  \/ call[t] = Supervise /\ thereIsStillHorsesToFinishRace
  \/ call[t] = AwaitRace /\ lastHorseJockeyHasNotArrivedOnPaddock
  \/ call[t] = Watch /\ brokerDidNotReportResults

(* No thread sleeps in wait() once what it waits for has come true: every  *)
(* assignment that ends a while loop's condition is followed by notifyAll. *)
NoMissedSignal == \A t \in waitSet : MustWait(t)

(* However the resets of late watchers interleave with the finishers, the  *)
(* winner is the first finisher counted since the last reset, and the race *)
(* is declared over only with a winner to report (makeAMove and            *)
(* goWatchTheRace keep finishedHorses, raceWinner and                      *)
(* thereIsStillHorsesToFinishRace together).                               *)
WinnerGoesWithFinishers ==
  /\ raceWinner = NoHorse <=> finishedHorses = 0
  /\ ~thereIsStillHorsesToFinishRace => finishedHorses >= NUMBER_OF_PAIRS_HORSE_JOCKEY
  /\ finishedHorses = NUMBER_OF_PAIRS_HORSE_JOCKEY => ~thereIsStillHorsesToFinishRace
=============================================================================
