-------------------------- MODULE TimelyHippodrome --------------------------
(***************************************************************************)
(* The simulation when its messages are fast enough: at five places the    *)
(* code does not synchronize two clients, and an event may hang when one   *)
(* of them comes too late.  Assumed names the places where none does.      *)
(* With all five the event completes; without any one of them it can hang. *)
(***************************************************************************)
EXTENDS HippodromePromises

CONSTANT Assumed   \* a subset of the assumptions named below

-----------------------------------------------------------------------------
(* The broker summons a race when its horses have called the stable: an    *)
(* arrival after the summons re-arms brokerDidNotSaidToAdvance.            *)
HasArrived(h) ==
  /\ batch = brokerRace
  /\ horsePc[h] \notin {"unborn", "bettingCentre.setAbility"}
  /\ horsePc[h] = "stable.proceedToStable(int)" => stableCall[h] # "none"

ArriveBeforeTheSummons ==
  /\ "arrive before the summons" \in Assumed
  /\ brokerPc = "stable.summonHorsesToPaddock"
  /\ stableCall[Broker] = "none"
  => \A h \in HorseJockeys : HasArrived(h)

(* The broker starts a race when its horses are on the start line: lining  *)
(* up resets the positions of all.                                         *)
LineUpBeforeTheStart ==
  /\ "line up before the start" \in Assumed
  /\ brokerPc = "racingTrack.startTheRace"
  => \A h \in HorseJockeys : trackCall[h] = "proceedToStartLine"

(* Every spectator watches before the first horse tells of its finish, and *)
(* one of them before the broker supervises: starting to watch resets the  *)
(* count of the finishers, which stands from the last race until then.     *)
WatchBeforeTheFinish(h) ==
  /\ "watch before the finish" \in Assumed
  /\ horsePc[h] = "controlCentre.makeAMove"
  => \A s \in Spectators : centreCall[s] = "goWatchTheRace"

WatchBeforeTheSupervision ==
  /\ "watch before the finish" \in Assumed
  /\ brokerPc = "controlCentre.startTheRace"
  => \E s \in Spectators : centreCall[s] = "goWatchTheRace"

(* A spectator goes and checks the horses when they have come to the       *)
(* paddock: until the first comes, the flag of the last race stands.       *)
HasParaded(h) ==
  /\ horsePc[h] \notin BeforeThePaddock
  /\ horsePc[h] = "paddock.proceedToPaddock" => paddockCall[h] # "none"

ParadeBeforeTheAppraisal(s) ==
  /\ "parade before the appraisal" \in Assumed
  /\ spectatorPc[s] = "paddock.goCheckHorses(boolean)"
  /\ paddockCall[s] = "none"
  => \A h \in HorseJockeys : HasParaded(h)

(* A spectator comes back to the control centre when all have left it:     *)
(* waiting for the next race re-arms the flag the others were waiting for. *)
LeaveBeforeTheReturn(s) ==
  /\ "leave before the return" \in Assumed
  /\ spectatorPc[s] = "controlCentre.waitForTheNextRace"
  /\ centreCall[s] = "none"
  => \A t \in Spectators : centreCall[t] # "goWatchTheRace"

-----------------------------------------------------------------------------

TimelyBroker ==
  /\ ArriveBeforeTheSummons /\ LineUpBeforeTheStart /\ WatchBeforeTheSupervision
  /\ BrokerNext

TimelySpectator(s) ==
  ParadeBeforeTheAppraisal(s) /\ LeaveBeforeTheReturn(s) /\ SpectatorNext(s)

TimelyHorse(h) == WatchBeforeTheFinish(h) /\ HorseNext(h)

TimelyNext ==
  \/ TimelyBroker
  \/ \E s \in Spectators : TimelySpectator(s)
  \/ \E h \in HorseJockeys : TimelyHorse(h)
  \/ LauncherNext

(* Every client is a Java thread, and so is the service agent that works   *)
(* for it: a thread that can run and keeps being able to is scheduled in   *)
(* the end.  A thread in wait() cannot run until it is notified.           *)
Fairness ==
  /\ WF_vars(TimelyBroker)
  /\ \A s \in Spectators : WF_vars(TimelySpectator(s))
  /\ \A h \in HorseJockeys : WF_vars(TimelyHorse(h))
  /\ WF_vars(LauncherNext)

TimelySpec == Init /\ [][TimelyNext]_vars /\ Fairness

-----------------------------------------------------------------------------

Completed ==
  /\ brokerPc = "playing host at the bar"
  /\ \A s \in Spectators : spectatorPc[s] = "celebrating"
  /\ \A h \in HorseJockeys : horsePc[h] = "deceased"
  /\ batch = NUMBER_OF_RACES - 1

(* The last race ends with the broker entertaining its guests and every    *)
(* spectator and horse at the end of its life: nobody waits for ever.      *)
EventCompletes == <>Completed

(* The same as a property of states, for the instances too large for the   *)
(* search of a fair cycle: when nobody can take a step, all have finished. *)
StuckOnlyAtTheEnd == ENABLED TimelyNext \/ Completed

-----------------------------------------------------------------------------
(* BrokerState.SUPERVISING_THE_RACE: the broker "is waken up by makeAMove  *)
(* of the last pair Horse/Jockey crossing the finishing line".             *)
SupervisionEnds ==
  brokerPc = "controlCentre.startTheRace" ~> brokerPc = "controlCentre.reportResults"
=============================================================================
