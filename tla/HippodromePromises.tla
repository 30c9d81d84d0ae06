------------------------- MODULE HippodromePromises -------------------------
(***************************************************************************)
(* What the documentation of the code says the life cycles do, and what    *)
(* holds only if the messages are fast enough (TimelyHippodrome).          *)
(***************************************************************************)
EXTENDS HippodromeSafety

(* ControlCentre.startTheRace: the broker "waits till the last makeAMove   *)
(* is performed by a pair Horse/Jockey".                                   *)
SupervisionLasts ==
  brokerPc = "controlCentre.reportResults"
    => /\ batch >= brokerRace
       /\ batch = brokerRace =>
            \A h \in HorseJockeys : horsePc[h] \in {"stable.proceedToStable()", "deceased"}

(* Paddock.goCheckHorses(boolean): the spectator "waits till the last      *)
(* proceedToStartLine", so that it has seen every horse of the race when   *)
(* it bets.                                                                *)
AppraisalLasts ==
  \A s \in Spectators :
    spectatorPc[s] = "bettingCentre.placeABet"
      => /\ batch >= spectatorRace[s]
         /\ batch = spectatorRace[s] =>
              \A h \in HorseJockeys : horsePc[h] \in OnTheTrack \cup OffTheTrack

-----------------------------------------------------------------------------
(* The races as the spectators and the broker see them.                    *)

IsRunning == brokerPc \in {"controlCentre.startTheRace", "controlCentre.reportResults"}

HasCome(h, phases) ==
  \/ batch > RaceToCome
  \/ batch = RaceToCome /\ horsePc[h] \in phases

Finishers == {h \in HorseJockeys : HasCome(h, {"stable.proceedToStable()", "deceased"})}

(* The winner of the last race stands until the first spectator watches.   *)
meeting == INSTANCE RaceMeeting WITH
  current <- RaceToCome,
  runners <- {h \in HorseJockeys : HasCome(h, OnTheTrack \cup OffTheTrack)},
  bettors <- {s \in Spectators : HasBetFor(s, RaceToCome)},
  running <- IsRunning,
  finishers <- Finishers,
  first <- IF IsRunning /\ Finishers # {} THEN raceWinner ELSE NoHorse,
  winner <- brokerWinner

(* In each race every spectator has seen all the horses when it bets, the  *)
(* race is started after the bets, and the broker reports the first horse  *)
(* to finish when the last one has (Paddock.goCheckHorses,                 *)
(* ControlCentre.goWatchTheRace, makeAMove and startTheRace).              *)
MeetingKeepsOrder == meeting!Init /\ [][meeting!Next]_(meeting!vars)

(* Moreover every race of the event is run, under the fairness of the      *)
(* threads.                                                                *)
MeetingTakesItsCourse == meeting!Spec

-----------------------------------------------------------------------------
(* RacingTrack.hasFinishLineBeenCrossed: true "if the pair Horse/Jockey    *)
(* had crossed the finish line".  A horse that asks and has no turn in the *)
(* queue is one that makeAMove took out of it for having crossed.          *)
CrossedIsRemembered ==
  \A h \in HorseJockeys :
    /\ horsePc[h] = "racingTrack.hasFinishLineBeenCrossed"
    /\ ~racingTrack!InQueue(h)
    => racingTrack!HasCrossed(h)

(* A horse in the queue of turns is on the track: one that has crossed the *)
(* line leaves no turn behind that the others would wait for.  A broker    *)
(* that reports too early can set a shorter race (RacingTrack.setRace)     *)
(* under horses that still run: they are then told that they have crossed  *)
(* with a turn to come.                                                    *)
QueueMembers == \A i \in 1 .. Len(horsesToRun) : horsePc[horsesToRun[i]] \in OnTheTrack

(* No horse lines up while it still has a turn, or moves after crossing:   *)
(* what holds of the track alone holds of it in the simulation.            *)
RacingTrackUse == racingTrack!Spec

=============================================================================
