------------------------- MODULE ControlCentreProofs -------------------------
(***************************************************************************)
(* The control centre alone, for any number of horses, spectators and      *)
(* races.                                                                  *)
(***************************************************************************)
EXTENDS ControlCentre, ConfigurationProofs

(* The bound on the finishers is a number.                                 *)
LEMMA FinishersBound == MaxFinished \in Nat
BY Sizes DEF MaxFinished

(* The three promises are inductive together: a thread that sleeps is in   *)
(* the method whose condition MustWait names, and the counts are numbers.  *)
Inv ==
  /\ TypeOK
  /\ NoMissedSignal
  /\ WinnerGoesWithFinishers

LEMMA InitInv == Init => Inv
<1> SUFFICES ASSUME Init PROVE Inv
  OBVIOUS
<1>1. TypeOK
  <2>1. numberOfHorseJockeysOnPaddock \in 0 .. NUMBER_OF_PAIRS_HORSE_JOCKEY - 1
    BY Sizes DEF Init
  <2>2. finishedHorses \in 0 .. MaxFinished
    BY FinishersBound DEF Init
  <2>3. call \in [Threads -> {None, Summon, Supervise, AwaitRace, Watch}]
    BY DEF Init
  <2> QED
    BY <2>1, <2>2, <2>3 DEF Init, TypeOK
<1>2. NoMissedSignal
  BY DEF Init, NoMissedSignal
<1>3. WinnerGoesWithFinishers
  BY Sizes DEF Init, WinnerGoesWithFinishers
<1> QED
  BY <1>1, <1>2, <1>3 DEF Inv

-----------------------------------------------------------------------------
(* The broker's methods.                                                   *)

LEMMA AnnouncementPreservesInv ==
  ASSUME Inv, SummonOrWait, Outside(Broker) \/ Notified(Broker, Summon)
  PROVE  Inv'
<1> USE DEF Inv, Threads, None, Summon, Supervise, AwaitRace, Watch, raceVars
<1>1. TypeOK'
  BY DEF TypeOK, SummonOrWait, WaitWhile
<1>2. NoMissedSignal'
  BY DistinctClients
     DEF TypeOK, NoMissedSignal, MustWait, SummonOrWait, WaitWhile, Outside, Notified
<1>3. WinnerGoesWithFinishers'
  BY DEF WinnerGoesWithFinishers, SummonOrWait
<1> QED
  BY <1>1, <1>2, <1>3

LEMMA SupervisionPreservesInv ==
  ASSUME Inv, SuperviseOrWait, Outside(Broker) \/ Notified(Broker, Supervise)
  PROVE  Inv'
<1> USE DEF Inv, Threads, None, Summon, Supervise, AwaitRace, Watch, paddockVars, raceVars
<1>1. TypeOK'
  BY DEF TypeOK, SuperviseOrWait, WaitWhile
<1>2. NoMissedSignal'
  BY DistinctClients
     DEF TypeOK, NoMissedSignal, MustWait, SuperviseOrWait, WaitWhile, Outside, Notified
<1>3. WinnerGoesWithFinishers'
  BY DEF WinnerGoesWithFinishers, SuperviseOrWait
<1> QED
  BY <1>1, <1>2, <1>3

LEMMA ReportPreservesInv ==
  ASSUME Inv, reportResults
  PROVE  Inv'
<1> USE DEF Inv, Threads, None, paddockVars, raceVars
<1>1. TypeOK'
  BY DEF TypeOK, reportResults, NotifyAllAndReturn, WaitWhile
<1>2. NoMissedSignal'
  BY DEF NoMissedSignal, reportResults, NotifyAllAndReturn, WaitWhile
<1>3. WinnerGoesWithFinishers'
  BY DEF WinnerGoesWithFinishers, reportResults
<1> QED
  BY <1>1, <1>2, <1>3

-----------------------------------------------------------------------------
(* The spectators' methods.                                                *)

LEMMA WaitingPreservesInv ==
  ASSUME Inv, NEW s \in Spectators,
         waitForTheNextRace(s) \/ resumeWaitForTheNextRace(s)
  PROVE  Inv'
<1> USE DEF Inv, Threads, None, Summon, Supervise, AwaitRace, Watch, paddockVars, raceVars,
            waitForTheNextRace, resumeWaitForTheNextRace
<1>1. TypeOK'
  BY DEF TypeOK, WaitWhile
<1>2. NoMissedSignal'
  BY DistinctClients DEF TypeOK, NoMissedSignal, MustWait, WaitWhile, Outside, Notified
<1>3. WinnerGoesWithFinishers'
  BY DEF WinnerGoesWithFinishers
<1> QED
  BY <1>1, <1>2, <1>3

LEMMA CheckPreservesInv ==
  ASSUME Inv, goCheckHorses
  PROVE  Inv'
BY DEF Inv, TypeOK, NoMissedSignal, WinnerGoesWithFinishers, goCheckHorses, raceVars

LEMMA WatchingPreservesInv ==
  ASSUME Inv, NEW s \in Spectators, goWatchTheRace(s) \/ resumeGoWatchTheRace(s)
  PROVE  Inv'
<1> USE DEF Inv, Threads, None, Summon, Supervise, AwaitRace, Watch, paddockVars, raceVars,
            goWatchTheRace, resumeGoWatchTheRace
<1>1. TypeOK'
  <2>1. CASE goWatchTheRace(s)
    <3>1. finishedHorses' \in 0 .. MaxFinished
      BY <2>1, FinishersBound DEF ResetRace
    <3>2. call' \in [Threads -> {None, Summon, Supervise, AwaitRace, Watch}]
      BY <2>1 DEF TypeOK, WaitWhile
    <3> QED
      BY <2>1, <3>1, <3>2 DEF TypeOK, WaitWhile, ResetRace
  <2>2. CASE resumeGoWatchTheRace(s)
    BY <2>2 DEF TypeOK, WaitWhile
  <2> QED
    BY <2>1, <2>2
<1>2. NoMissedSignal'
  <2>1. CASE goWatchTheRace(s)
    <3>1. \A t \in waitSet : MustWait(t)'
      BY <2>1, DistinctClients
         DEF TypeOK, NoMissedSignal, MustWait, WaitWhile, Outside, ResetRace
    <3>2. s \in waitSet' => MustWait(s)'
      BY <2>1, DistinctClients
         DEF TypeOK, NoMissedSignal, MustWait, WaitWhile, Outside, ResetRace
    <3> QED
      BY <2>1, <3>1, <3>2 DEF NoMissedSignal, WaitWhile
  <2>2. CASE resumeGoWatchTheRace(s)
    BY <2>2, DistinctClients DEF TypeOK, NoMissedSignal, MustWait, WaitWhile, Notified
  <2> QED
    BY <2>1, <2>2
<1>3. WinnerGoesWithFinishers'
  <2>1. CASE goWatchTheRace(s)
    BY <2>1, Sizes DEF WinnerGoesWithFinishers, ResetRace
  <2>2. CASE resumeGoWatchTheRace(s)
    BY <2>2 DEF WinnerGoesWithFinishers
  <2> QED
    BY <2>1, <2>2
<1> QED
  BY <1>1, <1>2, <1>3

-----------------------------------------------------------------------------
(* The horses' methods.                                                    *)

LEMMA ParadePreservesInv ==
  ASSUME Inv, proceedToPaddock
  PROVE  Inv'
<1> USE DEF Inv, raceVars, proceedToPaddock
<1>1. TypeOK'
  BY Sizes DEF TypeOK
<1>2. NoMissedSignal'
  BY DEF NoMissedSignal, MustWait, AwaitRace, Summon, Supervise, Watch, TypeOK
<1>3. WinnerGoesWithFinishers'
  BY DEF WinnerGoesWithFinishers
<1> QED
  BY <1>1, <1>2, <1>3

LEMMA FinishPreservesInv ==
  ASSUME Inv, NEW h \in HorseJockeys, finishedHorses < MaxFinished, makeAMove(h)
  PROVE  Inv'
<1> USE DEF Inv, paddockVars, makeAMove
<1>1. TypeOK'
  BY FinishersBound DEF TypeOK
<1>2. NoMissedSignal'
  BY DEF NoMissedSignal, MustWait, AwaitRace, Summon, Supervise, Watch, TypeOK
<1>3. h # NoHorse
  BY ConfigurationAssumption DEF ConfigurationAssumption
<1>4. WinnerGoesWithFinishers'
  <2>1. finishedHorses \in Nat /\ finishedHorses' = finishedHorses + 1
    BY FinishersBound DEF TypeOK
  <2>2. (raceWinner = NoHorse <=> finishedHorses = 0)'
    BY <1>3, <2>1 DEF WinnerGoesWithFinishers
  <2>3. (~thereIsStillHorsesToFinishRace => finishedHorses >= NUMBER_OF_PAIRS_HORSE_JOCKEY)'
    <3>1. CASE finishedHorses + 1 = NUMBER_OF_PAIRS_HORSE_JOCKEY
      BY <2>1, <3>1, Sizes
    <3>2. CASE finishedHorses + 1 # NUMBER_OF_PAIRS_HORSE_JOCKEY
      <4>1. thereIsStillHorsesToFinishRace' <=> thereIsStillHorsesToFinishRace
        BY <3>2, Zenon
      <4>2. CASE thereIsStillHorsesToFinishRace
        BY <4>1, <4>2
      <4>3. CASE ~thereIsStillHorsesToFinishRace
        <5>1. finishedHorses >= NUMBER_OF_PAIRS_HORSE_JOCKEY
          BY <4>3 DEF WinnerGoesWithFinishers
        <5> QED
          BY <2>1, <5>1, Sizes
      <4> QED
        BY <4>2, <4>3
    <3> QED
      BY <3>1, <3>2
  <2>4. (finishedHorses = NUMBER_OF_PAIRS_HORSE_JOCKEY => ~thereIsStillHorsesToFinishRace)'
    BY <2>1, Sizes DEF WinnerGoesWithFinishers
  <2> QED
    BY <2>2, <2>3, <2>4 DEF WinnerGoesWithFinishers
<1> QED
  BY <1>1, <1>2, <1>4

-----------------------------------------------------------------------------

LEMMA NextInv == Inv /\ [Next]_vars => Inv'
<1> SUFFICES ASSUME Inv, [Next]_vars PROVE Inv'
  OBVIOUS
<1>1. CASE summonHorsesToPaddock \/ resumeSummonHorsesToPaddock
  BY <1>1, AnnouncementPreservesInv DEF summonHorsesToPaddock, resumeSummonHorsesToPaddock
<1>2. CASE startTheRace \/ resumeStartTheRace
  BY <1>2, SupervisionPreservesInv DEF startTheRace, resumeStartTheRace
<1>3. CASE reportResults
  BY <1>3, ReportPreservesInv
<1>4. CASE goCheckHorses
  BY <1>4, CheckPreservesInv
<1>5. ASSUME NEW s \in Spectators, waitForTheNextRace(s) \/ resumeWaitForTheNextRace(s)
      PROVE  Inv'
  BY <1>5, WaitingPreservesInv
<1>6. ASSUME NEW s \in Spectators, goWatchTheRace(s) \/ resumeGoWatchTheRace(s)
      PROVE  Inv'
  BY <1>6, WatchingPreservesInv
<1>7. CASE proceedToPaddock
  BY <1>7, ParadePreservesInv
<1>8. ASSUME NEW h \in HorseJockeys, finishedHorses < MaxFinished, makeAMove(h)
      PROVE  Inv'
  BY <1>8, FinishPreservesInv
<1>9. CASE UNCHANGED vars
  BY <1>9 DEF Inv, TypeOK, NoMissedSignal, MustWait, WinnerGoesWithFinishers, vars,
              paddockVars, raceVars
<1> QED
  BY <1>1, <1>2, <1>3, <1>4, <1>5, <1>6, <1>7, <1>8, <1>9 DEF Next

LEMMA SpecInv == Spec => []Inv
  BY InitInv, NextInv, PTL DEF Spec

(* Every variable of the control centre keeps its type; in particular the  *)
(* arrivals on the paddock are counted anew for every race.                *)
THEOREM ControlCentreTypeOK == Spec => []TypeOK
<1>1. Inv => TypeOK
  BY DEF Inv
<1> QED
  BY <1>1, SpecInv, PTL

(* No wakeup is lost in the control centre: a thread that sleeps still has *)
(* to wait.                                                                *)
THEOREM ControlCentreNoMissedSignal == Spec => []NoMissedSignal
<1>1. Inv => NoMissedSignal
  BY DEF Inv
<1> QED
  BY <1>1, SpecInv, PTL

(* The winner, the count of the finishers and the end of the race agree    *)
(* however late watchers reset them.                                       *)
THEOREM ControlCentreWinner == Spec => []WinnerGoesWithFinishers
<1>1. Inv => WinnerGoesWithFinishers
  BY DEF Inv
<1> QED
  BY <1>1, SpecInv, PTL
==============================================================================
