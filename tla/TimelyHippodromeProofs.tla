----------------------- MODULE TimelyHippodromeProofs -----------------------
(***************************************************************************)
(* The simulation with the timing that its code relies on, and with its    *)
(* log, for an event of any size.                                          *)
(***************************************************************************)
EXTENDS LoggedHippodrome, HippodromeProofs

-----------------------------------------------------------------------------
(* What the simulation promises only if some messages are fast enough      *)
(* (TimelyHippodrome).  Each promise is proved from the assumptions it     *)
(* needs, three at most; a step that meets them is a step of the           *)
(* simulation, so that what holds of any delays still holds.               *)

LEMMA TimelyStep == [TimelyNext]_vars => [Next]_vars
BY DEF TimelyNext, TimelyBroker, TimelySpectator, TimelyHorse, Next

LEMMA LoggedBrokerIsTimely == LoggedBroker => TimelyBroker
BY DEF LoggedBroker, TimelyBroker, BrokerNext

LEMMA LoggedSpectatorIsTimely ==
  ASSUME NEW s \in Spectators, LoggedSpectator(s)
  PROVE  TimelySpectator(s)
BY DEF LoggedSpectator, TimelySpectator, SpectatorNext

LEMMA LoggedHorseIsTimely ==
  ASSUME NEW h \in HorseJockeys, LoggedHorse(h)
  PROVE  TimelyHorse(h)
BY DEF LoggedHorse, TimelyHorse, HorseNext

LEMMA LoggedStep == [LoggedNext]_loggedVars => [TimelyNext]_vars
<1> SUFFICES ASSUME [LoggedNext]_loggedVars PROVE [TimelyNext]_vars
  OBVIOUS
<1>1. CASE LoggedBroker
  BY <1>1, LoggedBrokerIsTimely DEF TimelyNext
<1>2. CASE BrokerEndsRace
  BY <1>2 DEF BrokerEndsRace
<1>3. CASE \E s \in Spectators : LoggedSpectator(s)
  BY <1>3, LoggedSpectatorIsTimely DEF TimelyNext
<1>4. CASE \E h \in HorseJockeys : LoggedHorse(h)
  BY <1>4, LoggedHorseIsTimely DEF TimelyNext
<1>5. CASE LoggedLauncher
  BY <1>5 DEF LoggedLauncher, LauncherNext, TimelyNext
<1>6. CASE UNCHANGED loggedVars
  BY <1>6 DEF loggedVars
<1> QED
  BY <1>1, <1>2, <1>3, <1>4, <1>5, <1>6 DEF LoggedNext

(* Three of the five assumptions are enough for all the promises.          *)
HorsesParadeInTime == "parade before the appraisal" \in Assumed
AllAreInPlace == {"line up before the start", "watch before the finish"} \subseteq Assumed

(* The runs of the timely simulation, with its log or without.             *)
Timely == Init /\ [][TimelyNext]_vars

LEMMA TimelyRuns == TimelySpec \/ LoggedSpec => Timely
<1>1. TimelySpec => Timely
  BY DEF TimelySpec, Timely
<1>2. LoggedInit => Init
  BY DEF LoggedInit
<1>3. LoggedSpec => Timely
  BY <1>2, LoggedStep, PTL DEF LoggedSpec, Timely
<1> QED
  BY <1>1, <1>3

LEMMA TimelyIsSpec == Timely => Spec
BY TimelyStep, PTL DEF Timely, Spec

-----------------------------------------------------------------------------
(* The appraisal.                                                          *)

(* The flag of the last departure stands for this batch, or none of it has *)
(* come to the paddock yet; a spectator waits there for this batch, or for *)
(* one that is gone.                                                       *)
AppraisalInv ==
  /\ \/ lastHorseDidNotProceedToStartLine
     \/ \A h \in HorseJockeys : HasLeft(h)
     \/ \A h \in HorseJockeys : ~HasParaded(h)
  /\ \A s \in Spectators :
       /\ paddockCall[s] # "none" => spectatorPc[s] = "paddock.goCheckHorses(boolean)"
       /\ paddockCall[s] # "none" /\ batch = spectatorRace[s]
            => \A h \in HorseJockeys : HasParaded(h)
       /\ spectatorPc[s] = "bettingCentre.placeABet" /\ batch = spectatorRace[s]
            => \A h \in HorseJockeys : HasLeft(h)

LEMMA AppraisalInit == Init => AppraisalInv
<1> SUFFICES ASSUME Init PROVE AppraisalInv
  OBVIOUS
<1> QED
  BY DEF Init, paddock!Init, paddock!Threads, paddock!None, AppraisalInv

LEMMA OthersKeepAppraisal ==
  ASSUME AppraisalInv,
         UNCHANGED <<lastHorseDidNotProceedToStartLine, paddockCall, spectatorPc,
                     spectatorRace, batch, horsePc>>
  PROVE  AppraisalInv'
BY DEF AppraisalInv, HasLeft, HasParaded

(* A horse goes on: the paddock's flag goes up when it arrives and down    *)
(* when the last one leaves.                                               *)
LEMMA HorseStepKeepsAppraisal ==
  ASSUME AppraisalInv, UNCHANGED <<spectatorPc, spectatorRace, batch>>,
         \A s \in Spectators : paddockCall'[s] = paddockCall[s],
         \/ lastHorseDidNotProceedToStartLine'
         \/ \A h \in HorseJockeys : HasLeft(h)'
         \/ \A h \in HorseJockeys : ~HasParaded(h)',
         \A h \in HorseJockeys :
           (HasParaded(h) => HasParaded(h)') /\ (HasLeft(h) => HasLeft(h)')
  PROVE  AppraisalInv'
BY DEF AppraisalInv

LEMMA LastDepartureIsMarked ==
  ASSUME PaddockInv, StartInv, NEW h \in HorseJockeys, HorseLeavesPaddock(h),
         ~lastHorseDidNotProceedToStartLine'
  PROVE  ~lastHorseDidNotProceedToStartLine \/ Gone' = HorseJockeys
<1>1. CASE lastHorseDidNotProceedToStartLine
  <2>1. /\ currentNumberOfHorses + 1 = 2 * NUMBER_OF_PAIRS_HORSE_JOCKEY
        /\ horsePc[h] = "paddock.proceedToStartLine"
        /\ horsePc' = [horsePc EXCEPT ![h] = "racingTrack.proceedToStartLine"]
    BY <1>1 DEF HorseLeavesPaddock, HorseReturns, paddock!proceedToStartLine,
       paddock!NUMBER_OF_PAIRS_HORSE_JOCKEY, NUMBER_OF_PAIRS_HORSE_JOCKEY,
       paddock!Cardinality, Cardinality
  <2>2. /\ horsePc'[h] = "racingTrack.proceedToStartLine"
        /\ \A g \in HorseJockeys \ {h} : horsePc'[g] = horsePc[g]
    BY <2>1 DEF StartInv, BatchTypes
  <2>3. Gone' = Gone \cup {h} /\ h \notin Gone /\ Gone # HorseJockeys
    BY <2>1, <2>2 DEF Gone, OnTheTrack, OffTheTrack
  <2>4. Parading' = Parading \ {h} /\ h \in Parading
    BY <2>1, <2>2 DEF Parading, HorseLeavesPaddock, paddock!proceedToStartLine
  <2>5. /\ IsFiniteSet(Parading) /\ IsFiniteSet(Gone)
        /\ Cardinality(Parading) \in Nat /\ Cardinality(Gone) \in Nat
    BY TwoParts
  <2>6. /\ Cardinality(Parading') = Cardinality(Parading) - 1
        /\ Cardinality(Gone') = Cardinality(Gone) + 1
    BY <2>3, <2>4, <2>5, FS_AddElement, FS_RemoveElement
  <2>7. Parading' \in SUBSET HorseJockeys /\ Gone' \in SUBSET HorseJockeys
        /\ Parading' \cap Gone' = {}
    BY <2>3, <2>4 DEF Parading, Gone, OnTheTrack, OffTheTrack
  <2>8. Cardinality(Parading') + 2 * Cardinality(Gone') = 2 * NUMBER_OF_PAIRS_HORSE_JOCKEY
          <=> Gone' = HorseJockeys
    BY <2>7, TwoPerHorse
  <2>9. currentNumberOfHorses + 1 = Cardinality(Parading') + 2 * Cardinality(Gone')
    BY <2>3, <2>5, <2>6 DEF PaddockInv
  <2> QED
    BY <2>1, <2>8, <2>9
<1> QED
  BY <1>1

LEMMA HorseKeepsAppraisal ==
  ASSUME AppraisalInv, PaddockInv, StartInv, NEW h \in HorseJockeys, HorseNext(h)
  PROVE  AppraisalInv'
<1> USE DEF HorseReturns, spectatorVars
<1>1. /\ UNCHANGED <<spectatorPc, spectatorRace, batch>>
      /\ horsePc \in [HorseJockeys -> HorsePcs]
      /\ paddockCall \in [HorseJockeys \cup Spectators -> PaddockMethods]
      /\ \E pc : horsePc' = [horsePc EXCEPT ![h] = pc]
  BY DEF HorseNext, HorseSetsAbility, HorseArrivesAtStable, HorseLeavesForPaddock, HorseParades,
     HorseLeavesPaddock, HorseLinesUp, HorseChecksFinishLine, HorseMoves, HorseFinishes,
     HorseGoesToRest, StartInv, BatchTypes, PaddockInv
<1>2. \A g \in HorseJockeys \ {h} : horsePc'[g] = horsePc[g]
  BY <1>1
<1>3. CASE HorseParades(h)
  <2>1. PICK m \in {"none", "proceedToPaddock"} :
          /\ paddockCall' = [paddockCall EXCEPT ![h] = m]
          /\ horsePc' = [horsePc EXCEPT ![h] = IF paddockCall'[h] = "none"
                                               THEN "paddock.proceedToStartLine"
                                               ELSE "paddock.proceedToPaddock"]
    BY <1>3 DEF HorseParades, paddock!proceedToPaddock, paddock!resumeProceedToPaddock,
       paddock!ParadeOrWait, paddock!Wait, paddock!NotifyAllAndReturn, PaddockAnswers,
       paddock!WaitWhile, paddock!None, paddock!Parade
  <2>2. /\ horsePc[h] = "paddock.proceedToPaddock"
        /\ \/ lastHorseDidNotProceedToStartLine'
           \/ paddockCall[h] # "none" /\ UNCHANGED lastHorseDidNotProceedToStartLine
    BY <1>3 DEF HorseParades, paddock!proceedToPaddock, paddock!resumeProceedToPaddock,
       paddock!Notified, paddock!Parade, paddock!paddockVars
  <2>3. /\ \A s \in Spectators : paddockCall'[s] = paddockCall[s]
        /\ \A g \in HorseJockeys \ {h} : paddockCall'[g] = paddockCall[g]
        /\ horsePc'[h] \in {"paddock.proceedToStartLine", "paddock.proceedToPaddock"}
        /\ horsePc'[h] = "paddock.proceedToPaddock" => paddockCall'[h] # "none"
    BY <1>1, <2>1, DistinctClients
  <2>4. HasParaded(h)' /\ ~HasLeft(h)
    BY <2>2, <2>3 DEF HasParaded, HasLeft, BeforeThePaddock, OnTheTrack, OffTheTrack
  <2>5. \A g \in HorseJockeys :
          (HasParaded(g) => HasParaded(g)') /\ (HasLeft(g) => HasLeft(g)')
    BY <1>2, <2>3, <2>4 DEF HasParaded, HasLeft
  <2>6. paddockCall[h] # "none" => HasParaded(h)
    BY <2>2 DEF HasParaded, BeforeThePaddock
  <2>7. lastHorseDidNotProceedToStartLine'
    BY <2>2, <2>4, <2>6 DEF AppraisalInv
  <2> QED
    BY <1>1, <2>3, <2>5, <2>7, HorseStepKeepsAppraisal
<1>4. CASE HorseLeavesPaddock(h)
  <2>1. /\ horsePc[h] = "paddock.proceedToStartLine"
        /\ horsePc' = [horsePc EXCEPT ![h] = "racingTrack.proceedToStartLine"]
        /\ UNCHANGED paddockCall
    BY <1>4 DEF HorseLeavesPaddock, paddock!proceedToStartLine
  <2>2. HasParaded(h) /\ ~HasLeft(h) /\ HasLeft(h)'
    BY <1>1, <2>1 DEF HasParaded, HasLeft, BeforeThePaddock, OnTheTrack, OffTheTrack
  <2>3. lastHorseDidNotProceedToStartLine
    BY <2>2 DEF AppraisalInv
  <2>4. ~lastHorseDidNotProceedToStartLine' => \A g \in HorseJockeys : HasLeft(g)'
    BY <1>4, <2>3, LastDepartureIsMarked DEF Gone, HasLeft
  <2>5. HasParaded(h)'
    BY <2>2 DEF HasParaded, HasLeft, BeforeThePaddock, OnTheTrack, OffTheTrack
  <2>6. \A g \in HorseJockeys :
          (HasParaded(g) => HasParaded(g)') /\ (HasLeft(g) => HasLeft(g)')
    BY <1>2, <2>1, <2>2, <2>5 DEF HasParaded, HasLeft
  <2> QED
    BY <1>1, <2>1, <2>4, <2>6, HorseStepKeepsAppraisal
<1>5. CASE ~HorseParades(h) /\ ~HorseLeavesPaddock(h)
  <2>1. UNCHANGED paddockVars
    BY <1>5 DEF HorseNext, HorseSetsAbility, HorseArrivesAtStable, HorseLeavesForPaddock,
       HorseLinesUp, HorseChecksFinishLine, HorseMoves, HorseFinishes, HorseGoesToRest,
       InBettingCentre, InStable, InControlCentre, InRacingTrack
  <2>2. \/ /\ horsePc[h] \in BeforeThePaddock
           /\ horsePc'[h] \in BeforeThePaddock \cup {"paddock.proceedToPaddock"}
        \/ /\ horsePc[h] \in OnTheTrack \cup OffTheTrack
           /\ horsePc'[h] \in OnTheTrack \cup OffTheTrack
    <3>1. CASE HorseSetsAbility(h) \/ HorseArrivesAtStable(h) \/ HorseLeavesForPaddock(h)
      BY <1>1, <3>1 DEF HorseSetsAbility, HorseArrivesAtStable, HorseLeavesForPaddock,
         BeforeThePaddock
    <3>2. CASE \/ HorseLinesUp(h) \/ HorseChecksFinishLine(h) \/ HorseMoves(h)
               \/ HorseFinishes(h) \/ HorseGoesToRest(h)
      BY <1>1, <3>2 DEF HorseLinesUp, HorseChecksFinishLine, HorseMoves, HorseFinishes,
         HorseGoesToRest, OnTheTrack, OffTheTrack
    <3> QED
      BY <1>5, <3>1, <3>2 DEF HorseNext
  <2>3. paddockCall[h] = "none" /\ paddockCall' = paddockCall
    BY <2>1, <2>2 DEF PaddockInv, paddockVars, BeforeThePaddock, OnTheTrack, OffTheTrack
  <2>4. (HasParaded(h)' <=> HasParaded(h)) /\ (HasLeft(h)' <=> HasLeft(h))
    BY <2>2, <2>3 DEF HasParaded, HasLeft, BeforeThePaddock, OnTheTrack, OffTheTrack
  <2>5. \A g \in HorseJockeys :
          (HasParaded(g) <=> HasParaded(g)') /\ (HasLeft(g) <=> HasLeft(g)')
    BY <1>2, <2>3, <2>4 DEF HasParaded, HasLeft
  <2>6. lastHorseDidNotProceedToStartLine' = lastHorseDidNotProceedToStartLine
    BY <2>1 DEF paddockVars
  <2> QED
    BY <1>1, <2>3, <2>5, <2>6, HorseStepKeepsAppraisal DEF AppraisalInv
<1> QED
  BY <1>3, <1>4, <1>5

(* A batch is born when no spectator is ahead of the one that has died.    *)
LEMMA LauncherKeepsAppraisal ==
  ASSUME AppraisalInv, PaddockInv, StartInv, BetsInv, ParadeInv, LauncherNext
  PROVE  AppraisalInv'
<1>1. UNCHANGED <<lastHorseDidNotProceedToStartLine, paddockCall, spectatorPc, spectatorRace>>
  BY DEF LauncherNext, LaunchNextBatch, LaunchHorse, InNoRegion, InStable, paddockVars,
     spectatorVars
<1>2. CASE LaunchNextBatch
  <2>1. batch' = batch + 1 /\ \A h \in HorseJockeys : horsePc'[h] = "unborn"
    BY <1>2 DEF LaunchNextBatch
  <2>2. ASSUME NEW s \in Spectators, spectatorPc[s] \notin BetweenRaces
        PROVE  batch' # spectatorRace[s]
    <3>1. Passed(s) = spectatorRace[s] + 1 /\ Passed(s) <= Paraded
      BY <2>2 DEF Passed, ParadeInv, SpectatorKeepsPace
    <3> QED
      BY <2>1, <3>1, ParadeProgress
  <2>3. \A h \in HorseJockeys : ~HasParaded(h)'
    BY <2>1 DEF HasParaded, BeforeThePaddock
  <2> QED
    BY <1>1, <2>2, <2>3 DEF AppraisalInv, BetweenRaces
<1>3. ASSUME NEW h \in HorseJockeys, LaunchHorse(h)
      PROVE  AppraisalInv'
  <2>1. /\ horsePc[h] = "unborn" /\ horsePc'[h] = "bettingCentre.setAbility"
        /\ \A g \in HorseJockeys \ {h} : horsePc'[g] = horsePc[g]
        /\ UNCHANGED batch
    BY <1>3 DEF LaunchHorse, StartInv, BatchTypes
  <2>2. /\ ~HasParaded(h) /\ ~HasLeft(h) /\ ~HasParaded(h)' /\ ~HasLeft(h)'
    BY <2>1 DEF HasParaded, HasLeft, BeforeThePaddock, OnTheTrack, OffTheTrack
  <2>3. \A g \in HorseJockeys :
          (HasParaded(g) <=> HasParaded(g)') /\ (HasLeft(g) <=> HasLeft(g)')
    BY <1>1, <2>1, <2>2 DEF HasParaded, HasLeft
  <2> QED
    BY <1>1, <2>1, <2>3, HorseStepKeepsAppraisal DEF AppraisalInv
<1> QED
  BY <1>2, <1>3 DEF LauncherNext

(* A spectator that goes on outside the paddock.                           *)
LEMMA SpectatorStepKeepsAppraisal ==
  ASSUME AppraisalInv, StartInv, BetsInv, NEW s \in Spectators, NEW pc,
         UNCHANGED <<lastHorseDidNotProceedToStartLine, paddockCall, horsePc, batch>>,
         spectatorPc' = [spectatorPc EXCEPT ![s] = pc],
         \A t \in Spectators \ {s} : spectatorRace'[t] = spectatorRace[t],
         paddockCall[s] = "none",
         pc = "bettingCentre.placeABet"
           => spectatorPc[s] = "bettingCentre.placeABet" /\ spectatorRace'[s] = spectatorRace[s]
  PROVE  AppraisalInv'
<1>1. spectatorPc'[s] = pc /\ \A t \in Spectators \ {s} : spectatorPc'[t] = spectatorPc[t]
  BY DEF BetsInv, BetTypes
<1>2. \A h \in HorseJockeys : (HasParaded(h)' <=> HasParaded(h)) /\ (HasLeft(h)' <=> HasLeft(h))
  BY DEF HasParaded, HasLeft
<1> QED
  BY <1>1, <1>2 DEF AppraisalInv

(* With the parade before the appraisal, the flag a spectator finds is     *)
(* that of the batch it has come to see.                                   *)
LEMMA AppraisalKeepsAppraisal ==
  ASSUME AppraisalInv, StartInv, BetsInv, PaddockInv, NEW s \in Spectators,
         HorsesParadeInTime, ParadeBeforeTheAppraisal(s),
         SpectatorAppraisesHorses(s)
  PROVE  AppraisalInv'
<1>1. /\ spectatorPc[s] = "paddock.goCheckHorses(boolean)"
      /\ UNCHANGED <<lastHorseDidNotProceedToStartLine, horsePc, batch, spectatorRace>>
      /\ paddockCall' = [paddockCall EXCEPT ![s] = IF lastHorseDidNotProceedToStartLine
                                                   THEN "goCheckHorses(boolean)" ELSE "none"]
      /\ spectatorPc' = [spectatorPc EXCEPT ![s] = IF paddockCall'[s] = "none"
                                                   THEN "bettingCentre.placeABet"
                                                   ELSE "paddock.goCheckHorses(boolean)"]
  BY DEF SpectatorAppraisesHorses, SpectatorReturns, PaddockAnswers, horseVars,
     paddock!goCheckHorses, paddock!resumeGoCheckHorses, paddock!WaitWhile, paddock!None,
     paddock!Appraise
<1>2. /\ paddockCall'[s] = IF lastHorseDidNotProceedToStartLine
                           THEN "goCheckHorses(boolean)" ELSE "none"
      /\ spectatorPc'[s] = IF lastHorseDidNotProceedToStartLine
                           THEN "paddock.goCheckHorses(boolean)" ELSE "bettingCentre.placeABet"
      /\ \A h \in HorseJockeys : paddockCall'[h] = paddockCall[h]
      /\ \A t \in Spectators \ {s} : /\ spectatorPc'[t] = spectatorPc[t]
                                     /\ paddockCall'[t] = paddockCall[t]
  BY <1>1, DistinctClients DEF PaddockInv, BetsInv, BetTypes
<1>3. \A h \in HorseJockeys : (HasParaded(h)' <=> HasParaded(h)) /\ (HasLeft(h)' <=> HasLeft(h))
  BY <1>1, <1>2 DEF HasParaded, HasLeft
<1>4. batch = spectatorRace[s] => \A h \in HorseJockeys : HasParaded(h)
  <2>1. CASE paddockCall[s] = "none"
    BY <1>1, <2>1 DEF ParadeBeforeTheAppraisal, HorsesParadeInTime
  <2>2. CASE paddockCall[s] # "none"
    BY <2>2 DEF AppraisalInv
  <2> QED
    BY <2>1, <2>2
<1>5. batch = spectatorRace[s] /\ ~lastHorseDidNotProceedToStartLine
        => \A h \in HorseJockeys : HasLeft(h)
  BY <1>4, ConfigurationAssumption DEF AppraisalInv, ConfigurationAssumption
<1> QED
  BY <1>1, <1>2, <1>3, <1>4, <1>5 DEF AppraisalInv

LEMMA SpectatorKeepsAppraisal ==
  ASSUME AppraisalInv, StartInv, BetsInv, PaddockInv, NEW s \in Spectators,
         HorsesParadeInTime, TimelySpectator(s)
  PROVE  AppraisalInv'
<1>1. CASE SpectatorAppraisesHorses(s)
  BY <1>1, AppraisalKeepsAppraisal DEF TimelySpectator
<1>2. CASE ~SpectatorAppraisesHorses(s)
  <2>1. /\ SpectatorNext(s) /\ UNCHANGED <<horsePc, batch>>
    BY SpectatorsKeepStart DEF TimelySpectator, horseVars
  <2>2. UNCHANGED <<lastHorseDidNotProceedToStartLine, paddockCall>>
    BY <1>2, <2>1 DEF SpectatorNext, SpectatorWaitsForRace, SpectatorIsCounted,
       LastSpectatorTellsBroker, SpectatorPlacesBet, SpectatorWatchesRace,
       SpectatorAsksResult, SpectatorCollectsGains, SpectatorRelaxes, InControlCentre,
       InBettingCentre, InNoRegion, InStable, paddockVars, paddock!countSpectator
  <2>3. /\ spectatorPc[s] # "paddock.goCheckHorses(boolean)"
        /\ \A t \in Spectators \ {s} : spectatorRace'[t] = spectatorRace[t]
        /\ \E pc : /\ spectatorPc' = [spectatorPc EXCEPT ![s] = pc]
                   /\ pc = "bettingCentre.placeABet"
                        => /\ spectatorPc[s] = "bettingCentre.placeABet"
                           /\ spectatorRace'[s] = spectatorRace[s]
    <3> USE DEF SpectatorReturns
    <3>1. CASE SpectatorWaitsForRace(s) \/ SpectatorIsCounted(s) \/ LastSpectatorTellsBroker(s)
      BY <3>1 DEF SpectatorWaitsForRace, SpectatorIsCounted, LastSpectatorTellsBroker
    <3>2. CASE SpectatorPlacesBet(s) \/ SpectatorWatchesRace(s) \/ SpectatorRelaxes(s)
      BY <3>2 DEF SpectatorPlacesBet, SpectatorWatchesRace, SpectatorRelaxes
    <3>3. CASE SpectatorAsksResult(s) \/ SpectatorCollectsGains(s)
      BY <3>3 DEF SpectatorAsksResult, SpectatorCollectsGains, GoToNextRace, AfterTheRace,
         BetsInv, BetTypes
    <3> QED
      BY <1>2, <2>1, <3>1, <3>2, <3>3 DEF SpectatorNext
  <2>4. paddockCall[s] = "none"
    BY <2>3 DEF AppraisalInv
  <2> QED
    BY <2>1, <2>2, <2>3, <2>4, SpectatorStepKeepsAppraisal
<1> QED
  BY <1>1, <1>2

LEMMA AppraisalNext ==
  ASSUME HorsesParadeInTime
  PROVE  AppraisalInv /\ PaddockInv /\ StartInv /\ BetsInv /\ ParadeInv /\ [TimelyNext]_vars
           => AppraisalInv'
<1> SUFFICES ASSUME AppraisalInv, PaddockInv, StartInv, BetsInv, ParadeInv, [TimelyNext]_vars
             PROVE  AppraisalInv'
  OBVIOUS
<1>1. CASE TimelyBroker
  <2>1. UNCHANGED <<paddockVars, horseVars, spectatorVars>>
    BY <1>1 DEF TimelyBroker, BrokerNext, BrokerSummonsHorses, BrokerAnnouncesRace,
       BrokerAcceptsBets, BrokerStartsRace, BrokerSupervisesRace, BrokerReportsResults,
       BrokerLooksForWinners, BrokerHonoursBets, BrokerSetsRace, BrokerEntertainsGuests,
       BrokerReturns, InStable, InControlCentre, InRacingTrack, InBettingCentre, InNoRegion
  <2> QED
    BY <2>1, OthersKeepAppraisal DEF paddockVars, horseVars, spectatorVars
<1>2. CASE \E s \in Spectators : TimelySpectator(s)
  BY <1>2, SpectatorKeepsAppraisal
<1>3. CASE \E h \in HorseJockeys : TimelyHorse(h)
  BY <1>3, HorseKeepsAppraisal DEF TimelyHorse
<1>4. CASE LauncherNext
  BY <1>4, LauncherKeepsAppraisal
<1>5. CASE UNCHANGED vars
  BY <1>5, OthersKeepAppraisal DEF vars, paddockVars, horseVars, spectatorVars
<1> QED
  BY <1>1, <1>2, <1>3, <1>4, <1>5 DEF TimelyNext

LEMMA AppraisalsLast ==
  ASSUME HorsesParadeInTime
  PROVE  Timely => []AppraisalInv
BY AppraisalInit, AppraisalNext, TimelyIsSpec, PaddockIsCounted, StartsAreInOrder,
   BetsAreInOrder, ParadeIsInOrder, PTL DEF Timely

(* A spectator has seen every horse of the race it bets on, in an event of *)
(* any size, as soon as the horses come to the paddock before the          *)
(* spectators appraise them: no other promptness is needed                 *)
(* (Paddock.goCheckHorses).                                                *)
THEOREM TimelyAppraisalLasts ==
  ASSUME HorsesParadeInTime
  PROVE  TimelySpec \/ LoggedSpec => []AppraisalLasts
<1>1. ASSUME AppraisalInv, StartInv, BetsInv, ParadeInv, NEW s \in Spectators,
             spectatorPc[s] = "bettingCentre.placeABet"
      PROVE  batch >= spectatorRace[s]
  <2>1. Passed(s) = spectatorRace[s] + 1 /\ Passed(s) <= Paraded
    BY <1>1 DEF Passed, BetweenRaces, ParadeInv, SpectatorKeepsPace
  <2>2. batch \in Nat /\ Paraded \in Nat /\ Paraded <= batch + 1 /\ spectatorRace[s] \in Nat
    BY <1>1, ParadeProgress
  <2> QED
    BY <2>1, <2>2
<1>2. AppraisalInv /\ StartInv /\ BetsInv /\ ParadeInv => AppraisalLasts
  BY <1>1 DEF AppraisalLasts, AppraisalInv, HasLeft
<1> QED
  BY <1>2, TimelyRuns, AppraisalsLast, TimelyIsSpec, StartsAreInOrder, BetsAreInOrder,
     ParadeIsInOrder, PTL

-----------------------------------------------------------------------------
(* The supervision.                                                        *)

(* A horse is inside a method of the track where it called it.             *)
TrackCalls ==
  \A h \in HorseJockeys :
    /\ trackCall[h] = "proceedToStartLine" => horsePc[h] = "racingTrack.proceedToStartLine"
    /\ trackCall[h] \in {"makeAMove", "failed"} => horsePc[h] = "racingTrack.makeAMove"

LEMMA TrackCallsInit == Init => TrackCalls
BY DEF Init, racingTrack!Init, racingTrack!Threads, racingTrack!None, TrackCalls

LEMMA OthersKeepTrackCalls ==
  ASSUME TrackCalls, BatchTypes, BatchTypes', UNCHANGED trackCall,
         \A h \in HorseJockeys : horsePc'[h] = horsePc[h] \/ trackCall[h] = "none"
  PROVE  TrackCalls'
BY DEF TrackCalls

LEMMA HorseKeepsTrackCalls ==
  ASSUME TrackCalls, BatchTypes, BatchTypes', NEW h \in HorseJockeys, HorseNext(h)
  PROVE  TrackCalls'
<1> USE DEF HorseReturns
<1>1. CASE HorseLinesUp(h) \/ HorseMoves(h)
  <2>1. \E m \in TrackMethods, pc \in HorsePcs :
          /\ trackCall' = [trackCall EXCEPT ![h] = m]
          /\ horsePc' = [horsePc EXCEPT ![h] = pc]
          /\ m = "proceedToStartLine" => pc = "racingTrack.proceedToStartLine"
          /\ m \in {"makeAMove", "failed"} => pc = "racingTrack.makeAMove"
    <3>1. CASE HorseLinesUp(h)
      <4>1. \E m \in {"none", "proceedToStartLine"} : trackCall' = [trackCall EXCEPT ![h] = m]
        BY <3>1 DEF HorseLinesUp, racingTrack!proceedToStartLine,
           racingTrack!resumeProceedToStartLine, racingTrack!WaitWhile, racingTrack!None,
           racingTrack!StartLine
      <4>2. PICK m \in {"none", "proceedToStartLine"} : trackCall' = [trackCall EXCEPT ![h] = m]
        BY <4>1
      <4>3. trackCall'[h] = m
        BY <4>2 DEF BatchTypes
      <4>4. horsePc' = [horsePc EXCEPT ![h] = IF m = "none"
                                               THEN "racingTrack.hasFinishLineBeenCrossed"
                                               ELSE "racingTrack.proceedToStartLine"]
        BY <3>1, <4>3 DEF HorseLinesUp, RacingTrackAnswers
      <4> QED
        BY <4>2, <4>4 DEF HorsePcs, OnTheTrack, TrackMethods
    <3>2. CASE HorseMoves(h)
      <4>1. \E m \in {"none", "makeAMove", "failed"} : trackCall' = [trackCall EXCEPT ![h] = m]
        BY <3>2 DEF HorseMoves, racingTrack!makeAMove, racingTrack!resumeMakeAMove,
           racingTrack!MoveOrWait, racingTrack!Wait, racingTrack!NotifyAllAndReturn,
           racingTrack!WaitWhile, racingTrack!None, racingTrack!Move, racingTrack!NoReply
      <4>2. PICK m \in {"none", "makeAMove", "failed"} : trackCall' = [trackCall EXCEPT ![h] = m]
        BY <4>1
      <4>3. trackCall'[h] = m
        BY <4>2 DEF BatchTypes
      <4>4. horsePc' = [horsePc EXCEPT ![h] = IF m = "none"
                                               THEN "racingTrack.hasFinishLineBeenCrossed"
                                               ELSE "racingTrack.makeAMove"]
        BY <3>2, <4>3 DEF HorseMoves, RacingTrackAnswers
      <4> QED
        BY <4>2, <4>4 DEF HorsePcs, OnTheTrack, TrackMethods
    <3> QED
      BY <1>1, <3>1, <3>2
  <2> QED
    BY <2>1 DEF TrackCalls, BatchTypes
<1>2. CASE ~HorseLinesUp(h) /\ ~HorseMoves(h)
  <2>1. /\ trackCall' = trackCall
        /\ horsePc[h] \notin {"racingTrack.proceedToStartLine", "racingTrack.makeAMove"}
        /\ \E pc : horsePc' = [horsePc EXCEPT ![h] = pc]
    BY <1>2 DEF HorseNext, HorseSetsAbility, HorseArrivesAtStable, HorseLeavesForPaddock,
       HorseParades, HorseLeavesPaddock, HorseChecksFinishLine, HorseFinishes, HorseGoesToRest,
       InBettingCentre, InStable, InControlCentre, InPaddock, trackVars,
       racingTrack!hasFinishLineBeenCrossed
  <2>2. trackCall[h] = "none"
    BY <2>1 DEF TrackCalls, BatchTypes, TrackMethods
  <2> QED
    BY <2>1, <2>2, OthersKeepTrackCalls DEF BatchTypes
<1> QED
  BY <1>1, <1>2

LEMMA TrackCallsNext == TrackCalls /\ StartInv /\ BetTypes /\ [Next]_vars => TrackCalls'
<1> SUFFICES ASSUME TrackCalls, StartInv, BetTypes, [Next]_vars PROVE TrackCalls'
  OBVIOUS
<1>1. BatchTypes /\ BatchTypes'
  BY StartNext DEF StartInv
<1>2. CASE BrokerNext
  BY <1>1, <1>2, OthersKeepTrackCalls
     DEF BrokerNext, BrokerSummonsHorses, BrokerAnnouncesRace,
         BrokerAcceptsBets, BrokerStartsRace, BrokerSupervisesRace, BrokerReportsResults,
         BrokerLooksForWinners, BrokerHonoursBets, BrokerSetsRace, BrokerEntertainsGuests,
         BrokerReturns, horseVars, trackVars,
         InStable, InControlCentre, InBettingCentre, InNoRegion, racingTrack!startTheRace,
         racingTrack!setRace
<1>3. CASE \E s \in Spectators : SpectatorNext(s)
  BY <1>1, <1>3, SpectatorsKeepStart, OthersKeepTrackCalls DEF horseVars, trackVars
<1>4. CASE \E h \in HorseJockeys : HorseNext(h)
  BY <1>1, <1>4, HorseKeepsTrackCalls
<1>5. CASE LaunchNextBatch
  <2>1. /\ UNCHANGED trackCall
        /\ \A h \in HorseJockeys : horsePc[h] = "deceased"
    BY <1>5 DEF LaunchNextBatch, InNoRegion, InStable, trackVars
  <2>2. \A h \in HorseJockeys : trackCall[h] = "none"
    BY <1>1, <2>1 DEF TrackCalls, BatchTypes, TrackMethods
  <2> QED
    BY <1>1, <2>1, <2>2, OthersKeepTrackCalls
<1>6. ASSUME NEW h \in HorseJockeys, LaunchHorse(h) PROVE TrackCalls'
  <2>1. /\ UNCHANGED trackCall
        /\ horsePc[h] = "unborn" /\ \A g \in HorseJockeys \ {h} : horsePc'[g] = horsePc[g]
    BY <1>1, <1>6 DEF LaunchHorse, InNoRegion, InStable, trackVars, BatchTypes
  <2>2. trackCall[h] = "none"
    BY <1>1, <2>1 DEF TrackCalls, BatchTypes, TrackMethods
  <2> QED
    BY <1>1, <2>1, <2>2, OthersKeepTrackCalls
<1>7. CASE UNCHANGED vars
  BY <1>1, <1>7, OthersKeepTrackCalls DEF vars, horseVars, trackVars
<1> QED
  BY <1>2, <1>3, <1>4, <1>5, <1>6, <1>7 DEF Next, LauncherNext

LEMMA HorsesCallTheTrackInOrder == Spec => []TrackCalls
<1>1. BetsInv => BetTypes
  BY DEF BetsInv
<1> QED
  BY <1>1, TrackCallsInit, TrackCallsNext, StartsAreInOrder, BetsAreInOrder, PTL DEF Spec

-----------------------------------------------------------------------------

(* The horses of the batch that have told the control centre of their      *)
(* finish, and the spectators that watch race r there.                     *)
Rested == {h \in HorseJockeys : horsePc[h] \in {"stable.proceedToStable()", "deceased"}}
Watches(s, r) == centreCall[s] = "goWatchTheRace" /\ spectatorRace[s] = r

finishVars == <<finishedHorses, thereIsStillHorsesToFinishRace, raceWinner>>

(* No horse of a reported race is still running; the first to watch a race *)
(* resets the counts, and before the race starts they stay so; while the   *)
(* broker supervises it and somebody watches they count its finishers, and *)
(* all watch as soon as one has finished.                                  *)
EarlierAreAtRest == batch < Reported => Rested = HorseJockeys

SomebodyWatches == \E s \in Spectators : Watches(s, Reported)
AllWatch == \A s \in Spectators : Watches(s, Reported)

CountsAreReset ==
  finishedHorses = 0 /\ thereIsStillHorsesToFinishRace /\ raceWinner = NoHorse

WatchersHaveReset == Started = Reported /\ SomebodyWatches => CountsAreReset

CountsMatch ==
  /\ finishedHorses =
       IF batch = Reported THEN Cardinality(Rested) ELSE NUMBER_OF_PAIRS_HORSE_JOCKEY
  /\ thereIsStillHorsesToFinishRace <=> finishedHorses # NUMBER_OF_PAIRS_HORSE_JOCKEY
  /\ raceWinner = NoHorse <=> finishedHorses = 0

FinishersAreCounted ==
  /\ batch >= Reported
  /\ (batch = Reported /\ Rested = {}) \/ AllWatch
  /\ SomebodyWatches => CountsMatch
  /\ brokerPc = "controlCentre.reportResults"
       => AllWatch /\ finishedHorses = NUMBER_OF_PAIRS_HORSE_JOCKEY

SupervisionInv ==
  /\ EarlierAreAtRest
  /\ WatchersHaveReset
  /\ Started > Reported => FinishersAreCounted

LEMMA RestedAreFew ==
  /\ Rested \subseteq HorseJockeys /\ IsFiniteSet(Rested) /\ Cardinality(Rested) \in Nat
  /\ NUMBER_OF_PAIRS_HORSE_JOCKEY \in Nat /\ NUMBER_OF_PAIRS_HORSE_JOCKEY > 0
  /\ Cardinality(Rested) = NUMBER_OF_PAIRS_HORSE_JOCKEY <=> Rested = HorseJockeys
<1>1. IsFiniteSet(HorseJockeys) /\ HorseJockeys # {}
  BY ConfigurationAssumption DEF ConfigurationAssumption
<1>2. Rested \subseteq HorseJockeys
  BY DEF Rested
<1>3. /\ IsFiniteSet(Rested)
      /\ Cardinality(Rested) = Cardinality(HorseJockeys) => Rested = HorseJockeys
  BY <1>1, <1>2, FS_Subset
<1>4. Cardinality(Rested) \in Nat /\ Cardinality(HorseJockeys) \in Nat
  BY <1>1, <1>3, FS_CardinalityType
<1>5. Cardinality(HorseJockeys) # 0
  BY <1>1, FS_EmptySet
<1> QED
  BY <1>2, <1>3, <1>4, <1>5 DEF NUMBER_OF_PAIRS_HORSE_JOCKEY

(* A race is being run between its start and its report.                   *)
LEMMA RaceBeingRun ==
  ASSUME BetTypes
  PROVE  /\ Reported \in Nat /\ Started \in Nat
         /\ Reported <= Started /\ Started <= Reported + 1
         /\ Started > Reported
              => /\ brokerPc \in {"controlCentre.startTheRace", "controlCentre.reportResults"}
                 /\ Reported = brokerRace /\ Accepted = brokerRace + 1 /\ brokerRace \in Nat
<1>1. brokerRace \in Nat /\ brokerPc \in BrokerPcs
  BY DEF BetTypes
<1>2. CASE brokerPc \in BeforeAcceptance \cup {"racingTrack.startTheRace"}
  <2>1. Started = brokerRace /\ Reported = brokerRace
    BY <1>2 DEF Started, Reported, BeforeAcceptance, AfterReport
  <2> QED
    BY <1>1, <2>1
<1>3. CASE brokerPc \in AfterReport
  <2>1. Started = brokerRace + 1 /\ Reported = brokerRace + 1
    BY <1>3 DEF Started, Reported, BeforeAcceptance, AfterReport
  <2> QED
    BY <1>1, <2>1
<1>4. CASE brokerPc \in {"controlCentre.startTheRace", "controlCentre.reportResults"}
  <2>1. Started = brokerRace + 1 /\ Reported = brokerRace /\ Accepted = brokerRace + 1
    BY <1>4 DEF Started, Reported, Accepted, BeforeAcceptance, AfterReport
  <2> QED
    BY <1>1, <1>4, <2>1
<1> QED
  BY <1>1, <1>2, <1>3, <1>4 DEF BrokerPcs, BeforeAcceptance, AfterReport

LEMMA SupervisionInit == Init => SupervisionInv
<1> SUFFICES ASSUME Init PROVE SupervisionInv
  OBVIOUS
<1>1. /\ brokerPc = "stable.summonHorsesToPaddock" /\ brokerRace = 0 /\ batch = 0
      /\ finishedHorses = 0 /\ thereIsStillHorsesToFinishRace = TRUE /\ raceWinner = NoHorse
  BY DEF Init, controlCentre!Init
<1>2. Started = 0 /\ Reported = 0
  BY <1>1 DEF Started, Reported, BeforeAcceptance, AfterReport
<1> QED
  BY <1>1, <1>2 DEF SupervisionInv, EarlierAreAtRest, WatchersHaveReset, CountsAreReset

LEMMA WatchersAreThere == AllWatch => SomebodyWatches
BY ConfigurationAssumption DEF AllWatch, SomebodyWatches, ConfigurationAssumption

(* The counts hold from the moment the first watches, and when nobody is   *)
(* left to finish all do.                                                  *)
LEMMA ResetCountsMatch ==
  ASSUME CountsAreReset, batch = Reported, Rested = {}
  PROVE  CountsMatch
<1>1. Cardinality(Rested) = 0
  BY FS_EmptySet
<1> QED
  BY <1>1, RestedAreFew DEF CountsAreReset, CountsMatch

LEMMA SupervisedTillTheLast ==
  ASSUME FinishersAreCounted, SomebodyWatches, ~thereIsStillHorsesToFinishRace
  PROVE  AllWatch /\ finishedHorses = NUMBER_OF_PAIRS_HORSE_JOCKEY
<1>1. finishedHorses = NUMBER_OF_PAIRS_HORSE_JOCKEY
  BY DEF FinishersAreCounted, CountsMatch
<1>2. ~(batch = Reported /\ Rested = {})
  <2>1. SUFFICES ASSUME batch = Reported, Rested = {} PROVE FALSE
    OBVIOUS
  <2>2. Cardinality(Rested) = 0
    BY <2>1, FS_EmptySet
  <2> QED
    BY <1>1, <2>1, <2>2, RestedAreFew DEF FinishersAreCounted, CountsMatch
<1> QED
  BY <1>1, <1>2 DEF FinishersAreCounted

LEMMA WatchingStays ==
  ASSUME \A s \in Spectators : Watches(s, Reported)' <=> Watches(s, Reported)
  PROVE  (SomebodyWatches' <=> SomebodyWatches) /\ (AllWatch' <=> AllWatch)
BY DEF SomebodyWatches, AllWatch

LEMMA OthersKeepSupervision ==
  ASSUME SupervisionInv, UNCHANGED <<finishVars, batch>>, Rested' = Rested,
         Started' = Started, Reported' = Reported,
         brokerPc' = "controlCentre.reportResults"
           => \/ brokerPc = "controlCentre.reportResults"
              \/ Started > Reported /\ SomebodyWatches /\ ~thereIsStillHorsesToFinishRace,
         \A s \in Spectators : Watches(s, Reported)' <=> Watches(s, Reported)
  PROVE  SupervisionInv'
<1>1. (SomebodyWatches' <=> SomebodyWatches) /\ (AllWatch' <=> AllWatch)
  BY WatchingStays
<1>2. (CountsAreReset' <=> CountsAreReset) /\ (CountsMatch' <=> CountsMatch)
  BY DEF CountsAreReset, CountsMatch, finishVars, NUMBER_OF_PAIRS_HORSE_JOCKEY
<1>3. EarlierAreAtRest' /\ WatchersHaveReset'
  BY <1>1, <1>2 DEF SupervisionInv, EarlierAreAtRest, WatchersHaveReset
<1>4. ASSUME Started > Reported PROVE FinishersAreCounted'
  <2>1. FinishersAreCounted
    BY <1>4 DEF SupervisionInv
  <2>2. brokerPc' = "controlCentre.reportResults"
          => AllWatch /\ finishedHorses = NUMBER_OF_PAIRS_HORSE_JOCKEY
    BY <2>1, SupervisedTillTheLast DEF FinishersAreCounted
  <2> QED
    BY <1>1, <1>2, <2>1, <2>2 DEF FinishersAreCounted, finishVars, NUMBER_OF_PAIRS_HORSE_JOCKEY
<1> QED
  BY <1>3, <1>4 DEF SupervisionInv

(* How far the broker gets in one step.                                    *)
LEMMA BrokerStages ==
  ASSUME BetTypes, BrokerNext
  PROVE  /\ UNCHANGED <<horseVars, spectatorVars, finishVars>>
         /\ \A s \in Spectators : centreCall'[s] = centreCall[s]
         /\ BrokerStartsRace \/ Started' = Started
         /\ BrokerReportsResults \/ Reported' = Reported
         /\ brokerPc' = "controlCentre.reportResults"
              => BrokerSupervisesRace /\ ~thereIsStillHorsesToFinishRace
<1> USE DEF BrokerReturns
<1>1. CASE BrokerSummonsHorses \/ BrokerAcceptsBets
  BY <1>1 DEF BrokerSummonsHorses, BrokerAcceptsBets, InStable, InBettingCentre, centreVars,
     finishVars, Started, Reported, BeforeAcceptance, AfterReport
<1>2. CASE BrokerAnnouncesRace \/ BrokerSupervisesRace
  <2>1. /\ UNCHANGED <<horseVars, spectatorVars, finishVars, brokerRace>>
        /\ \E m \in CentreMethods : centreCall' = [centreCall EXCEPT ![Broker] = m]
        /\ \/ /\ brokerPc = "controlCentre.summonHorsesToPaddock"
              /\ brokerPc' \in {brokerPc, "bettingCentre.acceptTheBets"}
           \/ /\ BrokerSupervisesRace
              /\ brokerPc = "controlCentre.startTheRace"
              /\ brokerPc' \in {brokerPc, "controlCentre.reportResults"}
              /\ brokerPc' = "controlCentre.reportResults" => centreCall'[Broker] = "none"
    BY <1>2 DEF BrokerAnnouncesRace, BrokerSupervisesRace, finishVars,
       controlCentre!summonHorsesToPaddock, controlCentre!resumeSummonHorsesToPaddock,
       controlCentre!SummonOrWait, controlCentre!startTheRace, controlCentre!resumeStartTheRace,
       controlCentre!SuperviseOrWait, controlCentre!raceVars, controlCentre!WaitWhile,
       controlCentre!None, controlCentre!Summon, controlCentre!Supervise, CentreMethods,
       ControlCentreAnswers
  <2>2. \A s \in Spectators : centreCall'[s] = centreCall[s]
    BY <2>1, DistinctClients DEF BetTypes
  <2>3. BrokerSupervisesRace /\ thereIsStillHorsesToFinishRace => centreCall'[Broker] # "none"
    BY DEF BrokerSupervisesRace, controlCentre!startTheRace, controlCentre!resumeStartTheRace,
       controlCentre!SuperviseOrWait, controlCentre!WaitWhile, controlCentre!Supervise, BetTypes
  <2>4. Started' = Started /\ Reported' = Reported
    BY <2>1 DEF Started, Reported, BeforeAcceptance, AfterReport
  <2> QED
    BY <2>1, <2>2, <2>3, <2>4
<1>3. CASE BrokerStartsRace \/ BrokerSetsRace \/ BrokerEntertainsGuests
  BY <1>3 DEF BrokerStartsRace, BrokerSetsRace, BrokerEntertainsGuests, InRacingTrack,
     InNoRegion, InStable, centreVars, finishVars, Started, Reported, BeforeAcceptance,
     AfterReport, BetTypes
<1>4. CASE BrokerReportsResults
  <2>1. \A s \in Spectators : centreCall'[s] = centreCall[s]
    BY <1>4, DistinctClients DEF BrokerReportsResults, controlCentre!reportResults,
       controlCentre!NotifyAllAndReturn, controlCentre!WaitWhile, BetTypes
  <2> QED
    BY <1>4, <2>1 DEF BrokerReportsResults, controlCentre!reportResults,
       controlCentre!raceVars, finishVars, Started, BeforeAcceptance
<1>5. CASE BrokerLooksForWinners \/ BrokerHonoursBets
  BY <1>5 DEF BrokerLooksForWinners, BrokerHonoursBets, AfterTheBets, InBettingCentre,
     centreVars, finishVars, Started, Reported, BeforeAcceptance, AfterReport
<1> QED
  BY <1>1, <1>2, <1>3, <1>4, <1>5 DEF BrokerNext

(* When the broker starts a race, all its horses line up for it.           *)
LEMMA StartIsPrepared ==
  ASSUME SupervisionInv, TrackCalls, BetsInv, StartInv,
         AllAreInPlace, LineUpBeforeTheStart, BrokerStartsRace
  PROVE  /\ batch = Reported /\ Started = Reported /\ Reported = brokerRace
         /\ \A h \in HorseJockeys : /\ horsePc[h] = "racingTrack.proceedToStartLine"
                                    /\ trackCall[h] = "proceedToStartLine"
         /\ Rested = {}
<1>1. /\ brokerPc = "racingTrack.startTheRace" /\ brokerRace \in Nat
      /\ batch \in Nat /\ batch <= Started
  BY DEF BrokerStartsRace, BrokerReturns, BetsInv, BetTypes, StartInv, BatchTypes
<1>2. \A h \in HorseJockeys : trackCall[h] = "proceedToStartLine"
  BY <1>1 DEF LineUpBeforeTheStart, AllAreInPlace
<1>3. Started = brokerRace /\ Reported = brokerRace
  BY <1>1 DEF Started, Reported, BeforeAcceptance, AfterReport
<1>4. \A h \in HorseJockeys : horsePc[h] = "racingTrack.proceedToStartLine"
  BY <1>2 DEF TrackCalls
<1>5. Rested = {}
  BY <1>4 DEF Rested
<1>6. batch = Reported
  BY <1>1, <1>3, <1>5, ConfigurationAssumption
     DEF SupervisionInv, EarlierAreAtRest, ConfigurationAssumption
<1> QED
  BY <1>2, <1>3, <1>4, <1>5, <1>6

(* Who watches while a race is being run watches that race.                *)
LEMMA WatchersWatchThisRace ==
  ASSUME BetsInv, Started > Reported, NEW s \in Spectators, centreCall[s] = "goWatchTheRace"
  PROVE  Watches(s, Reported)
<1>1. /\ brokerPc \in {"controlCentre.startTheRace", "controlCentre.reportResults"}
      /\ Reported = brokerRace /\ Accepted = brokerRace + 1 /\ brokerRace \in Nat
  BY RaceBeingRun DEF BetsInv
<1>2. Decided = brokerRace
  BY <1>1 DEF Decided, AfterReport
<1>3. HasBetFor(s, brokerRace) /\ spectatorRace[s] <= brokerRace /\ spectatorRace[s] \in Nat
  BY <1>1, <1>2 DEF BetsInv, BetTypes, SpectatorInOrder, BetsOnceForARace, FollowsTheBroker
<1>4. spectatorRace[s] = brokerRace
  BY <1>1, <1>3 DEF HasBetFor
<1> QED
  BY <1>1, <1>4 DEF Watches

LEMMA BrokerKeepsSupervision ==
  ASSUME SupervisionInv, TrackCalls, BetsInv, StartInv, AllAreInPlace,
         LineUpBeforeTheStart, WatchBeforeTheSupervision, BrokerNext
  PROVE  SupervisionInv'
<1>1. /\ UNCHANGED <<horseVars, spectatorVars, finishVars>>
      /\ \A s \in Spectators : centreCall'[s] = centreCall[s]
      /\ BrokerStartsRace \/ Started' = Started
      /\ BrokerReportsResults \/ Reported' = Reported
      /\ brokerPc' = "controlCentre.reportResults"
           => BrokerSupervisesRace /\ ~thereIsStillHorsesToFinishRace
  BY BrokerStages DEF BetsInv
<1>2. Rested' = Rested /\ UNCHANGED <<finishVars, batch>>
  BY <1>1 DEF Rested, horseVars
<1>3. \A s \in Spectators : \A r : Watches(s, r)' <=> Watches(s, r)
  BY <1>1 DEF Watches, spectatorVars
<1>4. /\ Reported \in Nat /\ Started \in Nat /\ batch \in Nat /\ batch <= Started
      /\ Decided <= Reported
      /\ \A s \in Spectators : spectatorRace[s] \in Nat /\ spectatorRace[s] <= Decided
      /\ Decided \in Nat
  BY BrokerProgress DEF BetsInv, BetTypes, StartInv, BatchTypes, SpectatorInOrder,
     FollowsTheBroker
<1>5. CASE BrokerStartsRace
  <2>1. batch = Reported /\ Started = Reported /\ Rested = {}
    BY <1>5, StartIsPrepared
  <2>2. Started' = Started + 1 /\ Reported' = Reported
        /\ brokerPc' # "controlCentre.reportResults"
    BY <1>5 DEF BrokerStartsRace, BrokerReturns, Started, Reported, BeforeAcceptance,
       AfterReport
  <2>3. SomebodyWatches' => SomebodyWatches
    BY <1>1, <2>2 DEF SomebodyWatches, Watches, spectatorVars
  <2>4. SomebodyWatches' => CountsMatch
    BY <2>1, <2>3, ResetCountsMatch DEF SupervisionInv, WatchersHaveReset
  <2>5. CountsMatch => CountsMatch'
    BY <1>2, <2>2 DEF CountsMatch, finishVars, NUMBER_OF_PAIRS_HORSE_JOCKEY
  <2>6. FinishersAreCounted'
    BY <1>2, <1>4, <2>1, <2>2, <2>4, <2>5 DEF FinishersAreCounted
  <2>7. EarlierAreAtRest' /\ WatchersHaveReset'
    BY <1>2, <1>4, <2>1, <2>2 DEF EarlierAreAtRest, WatchersHaveReset
  <2> QED
    BY <2>6, <2>7 DEF SupervisionInv
<1>6. CASE BrokerReportsResults
  <2>1. /\ brokerPc = "controlCentre.reportResults"
        /\ Started = brokerRace + 1 /\ Reported = brokerRace /\ brokerRace \in Nat
        /\ Started' = brokerRace + 1 /\ Reported' = brokerRace + 1
    BY <1>6 DEF BrokerReportsResults, BrokerReturns, Started, Reported, BeforeAcceptance,
       AfterReport, BetsInv, BetTypes
  <2>2. /\ batch >= Reported
        /\ batch = Reported => Cardinality(Rested) = NUMBER_OF_PAIRS_HORSE_JOCKEY
    BY <2>1, WatchersAreThere DEF SupervisionInv, FinishersAreCounted, CountsMatch
  <2>3. EarlierAreAtRest'
    BY <1>2, <1>4, <2>1, <2>2, RestedAreFew DEF EarlierAreAtRest
  <2>4. ~SomebodyWatches'
    BY <1>1, <1>4, <2>1 DEF SomebodyWatches, Watches, spectatorVars
  <2> QED
    BY <2>1, <2>3, <2>4 DEF SupervisionInv, WatchersHaveReset
<1>7. CASE ~BrokerStartsRace /\ ~BrokerReportsResults
  <2>1. \A s \in Spectators : Watches(s, Reported)' <=> Watches(s, Reported)
    BY <1>1, <1>7 DEF Watches, spectatorVars
  <2>2. ASSUME brokerPc' = "controlCentre.reportResults"
        PROVE  Started > Reported /\ SomebodyWatches /\ ~thereIsStillHorsesToFinishRace
    <3>1. brokerPc = "controlCentre.startTheRace" /\ ~thereIsStillHorsesToFinishRace
      BY <1>1, <2>2 DEF BrokerSupervisesRace, BrokerReturns
    <3>2. Started = brokerRace + 1 /\ Reported = brokerRace /\ brokerRace \in Nat
      BY <3>1 DEF Started, Reported, BeforeAcceptance, AfterReport, BetsInv, BetTypes
    <3>3. Started > Reported
      BY <3>2
    <3>4. PICK s \in Spectators : centreCall[s] = "goWatchTheRace"
      <4>1. "watch before the finish" \in Assumed
        BY DEF AllAreInPlace
      <4> QED
        BY <3>1, <4>1 DEF WatchBeforeTheSupervision
    <3> QED
      BY <3>1, <3>3, <3>4, WatchersWatchThisRace DEF SomebodyWatches
  <2> QED
    BY <1>1, <1>2, <1>7, <2>1, <2>2, OthersKeepSupervision
<1> QED
  BY <1>5, <1>6, <1>7

(* While the broker supervises, a spectator that watches can only wake up  *)
(* and go back to sleep.                                                   *)
LEMMA WatchersStay ==
  ASSUME BetsInv, NEW s \in Spectators, SpectatorNext(s), Started > Reported,
         Watches(s, Reported)
  PROVE  UNCHANGED <<finishVars, spectatorVars, centreCall>>
<1>1. /\ brokerPc \in {"controlCentre.startTheRace", "controlCentre.reportResults"}
      /\ Reported = brokerRace /\ Accepted = brokerRace + 1 /\ brokerRace \in Nat
  BY RaceBeingRun DEF BetsInv
<1>2. centreCall[s] = "goWatchTheRace" /\ spectatorRace[s] = brokerRace
  BY <1>1 DEF Watches
<1>3. HasBetFor(s, brokerRace) /\ WaitsWhereItCalled(s) /\ FollowsTheBroker(s)
  BY <1>1 DEF BetsInv, SpectatorInOrder, BetsOnceForARace
<1>4. spectatorPc[s] = "controlCentre.goWatchTheRace"
  BY <1>1, <1>2, <1>3 DEF HasBetFor, WaitsWhereItCalled
<1>5. brokerDidNotReportResults
  <2>1. Entered(s) = brokerRace + 1
    BY <1>2, <1>4 DEF Entered
  <2> QED
    BY <1>1, <1>3, <2>1 DEF FollowsTheBroker
<1>6. SpectatorWatchesRace(s)
  BY <1>4 DEF SpectatorNext, SpectatorReturns, SpectatorWaitsForRace, SpectatorIsCounted,
     LastSpectatorTellsBroker, SpectatorAppraisesHorses, SpectatorPlacesBet,
     SpectatorAsksResult, SpectatorCollectsGains, SpectatorRelaxes
<1>7. controlCentre!resumeGoWatchTheRace(s)
  BY <1>2, <1>6 DEF SpectatorWatchesRace, controlCentre!goWatchTheRace, controlCentre!Outside,
     controlCentre!None
<1>8. centreCall' = centreCall /\ UNCHANGED finishVars
  BY <1>2, <1>5, <1>7 DEF controlCentre!resumeGoWatchTheRace, controlCentre!WaitWhile,
     controlCentre!Watch, controlCentre!raceVars, finishVars, BetsInv, BetTypes
<1>9. spectatorPc' = spectatorPc
  BY <1>2, <1>4, <1>6, <1>8 DEF SpectatorWatchesRace, SpectatorReturns, ControlCentreAnswers,
     BetsInv, BetTypes
<1> QED
  BY <1>6, <1>8, <1>9 DEF SpectatorWatchesRace, spectatorVars

(* A spectator that starts to watch resets the counts, any other leaves    *)
(* them alone.                                                             *)
LEMMA WatchersReset ==
  ASSUME BetsInv, NEW s \in Spectators, SpectatorNext(s)
  PROVE  \/ finishedHorses' = 0 /\ thereIsStillHorsesToFinishRace' /\ raceWinner' = NoHorse
         \/ /\ UNCHANGED finishVars
            /\ \A t \in Spectators : \A r : Watches(t, r)' => Watches(t, r)
<1> USE DEF SpectatorReturns
<1>1. CASE SpectatorWatchesRace(s)
  <2>1. CASE controlCentre!goWatchTheRace(s)
    BY <2>1 DEF controlCentre!goWatchTheRace, controlCentre!ResetRace
  <2>2. CASE controlCentre!resumeGoWatchTheRace(s)
    <3>1. /\ centreCall[s] = "goWatchTheRace" /\ UNCHANGED <<finishVars, spectatorRace>>
          /\ \E m : centreCall' = [centreCall EXCEPT ![s] = m]
      BY <1>1, <2>2 DEF SpectatorWatchesRace, controlCentre!resumeGoWatchTheRace,
         controlCentre!Notified, controlCentre!WaitWhile, controlCentre!Watch,
         controlCentre!raceVars, finishVars
    <3> QED
      BY <3>1 DEF Watches, BetsInv, BetTypes
  <2> QED
    BY <1>1, <2>1, <2>2 DEF SpectatorWatchesRace
<1>2. CASE SpectatorWaitsForRace(s)
  <2>1. /\ UNCHANGED <<finishVars, spectatorRace>>
        /\ \E m \in {"none", "waitForTheNextRace"} : centreCall' = [centreCall EXCEPT ![s] = m]
    BY <1>2 DEF SpectatorWaitsForRace, controlCentre!waitForTheNextRace,
       controlCentre!resumeWaitForTheNextRace, controlCentre!WaitWhile,
       controlCentre!AwaitRace, controlCentre!None, controlCentre!raceVars, finishVars
  <2> QED
    BY <2>1 DEF Watches, BetsInv, BetTypes
<1>3. CASE \/ SpectatorIsCounted(s) \/ LastSpectatorTellsBroker(s)
           \/ SpectatorAppraisesHorses(s) \/ SpectatorPlacesBet(s) \/ SpectatorRelaxes(s)
  <2>1. UNCHANGED <<finishVars, centreCall, spectatorRace>>
    BY <1>3 DEF SpectatorIsCounted, LastSpectatorTellsBroker, SpectatorAppraisesHorses,
       SpectatorPlacesBet, SpectatorRelaxes, InPaddock, InBettingCentre, InNoRegion, InStable,
       controlCentre!goCheckHorses, controlCentre!raceVars, centreVars, finishVars
  <2> QED
    BY <2>1 DEF Watches
<1>4. CASE SpectatorAsksResult(s) \/ SpectatorCollectsGains(s)
  <2>1. /\ UNCHANGED <<finishVars, centreCall>>
        /\ spectatorPc[s] \in {"bettingCentre.haveIWon", "bettingCentre.goCollectTheGains"}
        /\ \A t \in Spectators \ {s} : spectatorRace'[t] = spectatorRace[t]
    BY <1>4 DEF SpectatorAsksResult, SpectatorCollectsGains, InBettingCentre, centreVars,
       finishVars, GoToNextRace, BetsInv, BetTypes
  <2>2. centreCall[s] = "none"
    BY <2>1 DEF BetsInv, SpectatorInOrder, WaitsWhereItCalled
  <2> QED
    BY <2>1, <2>2 DEF Watches
<1> QED
  BY <1>1, <1>2, <1>3, <1>4 DEF SpectatorNext

LEMMA SpectatorsWatchAlone ==
  ASSUME BetsInv, NEW s \in Spectators, SpectatorNext(s), NEW t \in Spectators \ {s}
  PROVE  centreCall'[t] = centreCall[t] /\ spectatorRace'[t] = spectatorRace[t]
<1> USE DEF SpectatorReturns, BetsInv, BetTypes
<1>1. CASE SpectatorWatchesRace(s)
  BY <1>1 DEF SpectatorWatchesRace, controlCentre!goWatchTheRace,
     controlCentre!resumeGoWatchTheRace, controlCentre!WaitWhile, controlCentre!Watch
<1>2. CASE SpectatorWaitsForRace(s)
  BY <1>2 DEF SpectatorWaitsForRace, controlCentre!waitForTheNextRace,
     controlCentre!resumeWaitForTheNextRace, controlCentre!WaitWhile, controlCentre!AwaitRace
<1>3. CASE \/ SpectatorIsCounted(s) \/ LastSpectatorTellsBroker(s)
           \/ SpectatorAppraisesHorses(s) \/ SpectatorPlacesBet(s) \/ SpectatorRelaxes(s)
  BY <1>3 DEF SpectatorIsCounted, LastSpectatorTellsBroker, SpectatorAppraisesHorses,
     SpectatorPlacesBet, SpectatorRelaxes, InPaddock, InBettingCentre, InNoRegion, InStable,
     controlCentre!goCheckHorses, centreVars
<1>4. CASE SpectatorAsksResult(s) \/ SpectatorCollectsGains(s)
  BY <1>4 DEF SpectatorAsksResult, SpectatorCollectsGains, InBettingCentre, centreVars,
     GoToNextRace
<1> QED
  BY <1>1, <1>2, <1>3, <1>4 DEF SpectatorNext

LEMMA SpectatorKeepsSupervision ==
  ASSUME SupervisionInv, BetsInv, NEW s \in Spectators, SpectatorNext(s)
  PROVE  SupervisionInv'
<1>1. UNCHANGED <<brokerVars, horseVars>>
  BY SpectatorsKeepStart
<1>2. /\ Started' = Started /\ Reported' = Reported /\ brokerPc' = brokerPc
      /\ UNCHANGED batch /\ Rested' = Rested
  BY <1>1 DEF Started, Reported, Rested, brokerVars, horseVars
<1>3. \/ CountsAreReset'
      \/ /\ UNCHANGED finishVars
         /\ \A t \in Spectators : Watches(t, Reported)' => Watches(t, Reported)
  BY <1>2, WatchersReset DEF CountsAreReset, Watches
<1>4. CASE Started > Reported /\ Watches(s, Reported)
  <2>1. UNCHANGED <<finishVars, spectatorVars, centreCall>>
    BY <1>4, WatchersStay
  <2>2. \A t \in Spectators : Watches(t, Reported)' <=> Watches(t, Reported)
    BY <1>2, <2>1 DEF Watches, spectatorVars
  <2> QED
    BY <1>2, <2>1, <2>2, OthersKeepSupervision
<1>5. CASE Started > Reported /\ ~Watches(s, Reported)
  <2>1. /\ FinishersAreCounted /\ ~AllWatch
        /\ batch = Reported /\ Rested = {} /\ brokerPc # "controlCentre.reportResults"
    BY <1>5 DEF SupervisionInv, FinishersAreCounted, AllWatch
  <2>2. SomebodyWatches' => CountsMatch'
    <3>1. CASE CountsAreReset'
      <4>1. batch' = Reported' /\ Rested' = {}
        BY <1>2, <2>1
      <4>2. Cardinality(Rested') = 0
        BY <4>1, FS_EmptySet
      <4> QED
        BY <3>1, <4>1, <4>2, RestedAreFew DEF CountsAreReset, CountsMatch,
           NUMBER_OF_PAIRS_HORSE_JOCKEY
    <3>2. CASE /\ UNCHANGED finishVars
               /\ \A t \in Spectators : Watches(t, Reported)' => Watches(t, Reported)
      <4>1. SomebodyWatches' => SomebodyWatches
        BY <3>2 DEF SomebodyWatches
      <4>2. CountsMatch => CountsMatch'
        BY <1>2, <3>2 DEF CountsMatch, finishVars, NUMBER_OF_PAIRS_HORSE_JOCKEY
      <4> QED
        BY <2>1, <4>1, <4>2 DEF FinishersAreCounted
    <3> QED
      BY <1>3, <3>1, <3>2
  <2>3. FinishersAreCounted'
    BY <1>2, <2>1, <2>2 DEF FinishersAreCounted
  <2>4. EarlierAreAtRest' /\ WatchersHaveReset'
    BY <1>2, <1>5, RaceBeingRun DEF SupervisionInv, EarlierAreAtRest, WatchersHaveReset, BetsInv
  <2> QED
    BY <2>3, <2>4 DEF SupervisionInv
<1>6. CASE ~(Started > Reported)
  <2>1. EarlierAreAtRest'
    BY <1>2 DEF SupervisionInv, EarlierAreAtRest
  <2>2. WatchersHaveReset'
    <3>1. CASE CountsAreReset'
      BY <3>1 DEF WatchersHaveReset
    <3>2. CASE /\ UNCHANGED finishVars
               /\ \A t \in Spectators : Watches(t, Reported)' => Watches(t, Reported)
      BY <1>2, <3>2 DEF SupervisionInv, WatchersHaveReset, SomebodyWatches, CountsAreReset,
         finishVars
    <3> QED
      BY <1>3, <3>1, <3>2
  <2> QED
    BY <1>2, <1>6, <2>1, <2>2 DEF SupervisionInv
<1> QED
  BY <1>4, <1>5, <1>6

LEMMA HorseKeepsSupervision ==
  ASSUME SupervisionInv, BetsInv, StartInv, AllAreInPlace,
         NEW h \in HorseJockeys, WatchBeforeTheFinish(h), HorseNext(h)
  PROVE  SupervisionInv'
<1> USE DEF HorseReturns
<1>1. UNCHANGED <<betsVars, batch>>
  BY HorsesDoNotBet DEF HorseNext, HorseSetsAbility, HorseArrivesAtStable,
     HorseLeavesForPaddock, HorseParades, HorseLeavesPaddock, HorseLinesUp,
     HorseChecksFinishLine, HorseMoves, HorseFinishes, HorseGoesToRest
<1>2. /\ Started' = Started /\ Reported' = Reported /\ brokerPc' = brokerPc
      /\ \A s \in Spectators : Watches(s, Reported)' <=> Watches(s, Reported)
  BY <1>1 DEF Started, Reported, Watches, betsVars
<1>3. CASE HorseFinishes(h)
  <2>1. /\ horsePc[h] = "controlCentre.makeAMove"
        /\ horsePc'[h] = "stable.proceedToStable()"
        /\ \A g \in HorseJockeys \ {h} : horsePc'[g] = horsePc[g]
    BY <1>3 DEF HorseFinishes, StartInv, BatchTypes
  <2>2. h \notin Rested /\ Rested' = Rested \cup {h}
    BY <2>1 DEF Rested
  <2>3. Started > batch /\ batch \in Nat /\ Started \in Nat /\ Reported \in Nat
        /\ Reported <= Started /\ Started <= Reported + 1
    <3>1. Started > batch
      BY <2>1 DEF StartInv, HasStarted, OffTheTrack
    <3> QED
      BY <3>1, RaceBeingRun DEF BetsInv, StartInv, BatchTypes
  <2>4. Started > Reported /\ batch = Reported
    BY <2>2, <2>3 DEF SupervisionInv, EarlierAreAtRest
  <2>5. AllWatch /\ CountsMatch
    <3>1. \A s \in Spectators : centreCall[s] = "goWatchTheRace"
      BY <2>1 DEF WatchBeforeTheFinish, AllAreInPlace
    <3>2. AllWatch
      BY <2>4, <3>1, WatchersWatchThisRace DEF AllWatch
    <3> QED
      BY <2>4, <3>2, WatchersAreThere DEF SupervisionInv, FinishersAreCounted
  <2>6. /\ finishedHorses' = finishedHorses + 1
        /\ raceWinner' = IF finishedHorses = 0 THEN h ELSE raceWinner
        /\ thereIsStillHorsesToFinishRace' = (thereIsStillHorsesToFinishRace
             /\ finishedHorses + 1 # NUMBER_OF_PAIRS_HORSE_JOCKEY)
    BY <1>3 DEF HorseFinishes, controlCentre!makeAMove,
       controlCentre!NUMBER_OF_PAIRS_HORSE_JOCKEY, NUMBER_OF_PAIRS_HORSE_JOCKEY,
       controlCentre!Cardinality, Cardinality
  <2>7. /\ Cardinality(Rested') = Cardinality(Rested) + 1
        /\ Cardinality(Rested) \in Nat
        /\ Cardinality(Rested) # NUMBER_OF_PAIRS_HORSE_JOCKEY
    BY <2>2, RestedAreFew, FS_AddElement
  <2>8. CountsMatch'
    <3>1. h # NoHorse
      BY ConfigurationAssumption DEF ConfigurationAssumption
    <3>2. finishedHorses = Cardinality(Rested)
          /\ (thereIsStillHorsesToFinishRace
                 <=> finishedHorses # NUMBER_OF_PAIRS_HORSE_JOCKEY)
          /\ (raceWinner = NoHorse <=> finishedHorses = 0)
      BY <2>4, <2>5 DEF CountsMatch
    <3>3. batch' = Reported' /\ finishedHorses' = Cardinality(Rested')
      BY <1>1, <1>2, <2>4, <2>6, <2>7, <3>2
    <3>4. thereIsStillHorsesToFinishRace'
            <=> finishedHorses' # NUMBER_OF_PAIRS_HORSE_JOCKEY
      BY <2>6, <2>7, <3>2
    <3>5. raceWinner' = NoHorse <=> finishedHorses' = 0
      BY <2>6, <2>7, <3>1, <3>2
    <3> QED
      BY <3>3, <3>4, <3>5 DEF CountsMatch, NUMBER_OF_PAIRS_HORSE_JOCKEY
  <2>9. FinishersAreCounted'
    <3>1. batch' >= Reported' /\ AllWatch'
      BY <1>1, <1>2, <2>3, <2>4, <2>5, WatchingStays
    <3>2. brokerPc # "controlCentre.reportResults"
      BY <2>4, <2>5, <2>7 DEF SupervisionInv, FinishersAreCounted, CountsMatch
    <3> QED
      BY <1>2, <2>8, <3>1, <3>2 DEF FinishersAreCounted
  <2>10. EarlierAreAtRest' /\ WatchersHaveReset'
    BY <1>1, <1>2, <2>3, <2>4 DEF EarlierAreAtRest, WatchersHaveReset
  <2> QED
    BY <2>9, <2>10 DEF SupervisionInv
<1>4. CASE ~HorseFinishes(h)
  <2>1. UNCHANGED finishVars
    BY <1>4 DEF HorseNext, HorseSetsAbility, HorseArrivesAtStable, HorseLeavesForPaddock,
       HorseParades, HorseLeavesPaddock, HorseLinesUp, HorseChecksFinishLine, HorseMoves,
       HorseGoesToRest, InBettingCentre, InStable, InPaddock, InRacingTrack, centreVars,
       finishVars, controlCentre!proceedToPaddock, controlCentre!raceVars
  <2>2. \E pc : /\ horsePc' = [horsePc EXCEPT ![h] = pc]
                /\ pc \in {"stable.proceedToStable()", "deceased"}
                     <=> horsePc[h] \in {"stable.proceedToStable()", "deceased"}
    BY <1>4 DEF HorseNext, HorseSetsAbility, HorseArrivesAtStable, HorseLeavesForPaddock,
       HorseParades, HorseLeavesPaddock, HorseLinesUp, HorseChecksFinishLine, HorseMoves,
       HorseGoesToRest
  <2>3. Rested' = Rested
    BY <2>2 DEF Rested, StartInv, BatchTypes
  <2> QED
    BY <1>1, <1>2, <2>1, <2>3, OthersKeepSupervision
<1> QED
  BY <1>3, <1>4

LEMMA LauncherKeepsSupervision ==
  ASSUME SupervisionInv, BetsInv, StartInv, ParadeInv, LauncherNext
  PROVE  SupervisionInv'
<1>1. UNCHANGED <<betsVars, finishVars>>
  BY LauncherDoesNotBet DEF LauncherNext, LaunchNextBatch, LaunchHorse, InNoRegion, InStable,
     centreVars, finishVars
<1>2. /\ Started' = Started /\ Reported' = Reported /\ brokerPc' = brokerPc
      /\ \A s \in Spectators : Watches(s, Reported)' <=> Watches(s, Reported)
  BY <1>1 DEF Started, Reported, Watches, betsVars
<1>3. CASE LaunchNextBatch
  <2>1. batch' = batch + 1 /\ \A h \in HorseJockeys : horsePc[h] = "deceased"
    BY <1>3 DEF LaunchNextBatch
  <2>2. Rested = HorseJockeys
    BY <2>1 DEF Rested
  <2>3. Cardinality(Rested) = NUMBER_OF_PAIRS_HORSE_JOCKEY
    BY <2>2 DEF NUMBER_OF_PAIRS_HORSE_JOCKEY
  <2>4. Reported <= batch + 1 /\ Reported \in Nat /\ batch \in Nat
    <3>1. PICK s \in Spectators : TRUE
      BY ConfigurationAssumption DEF ConfigurationAssumption
    <3>2. Told <= Counted(s) /\ Passed(s) <= Paraded
      BY DEF ParadeInv, SpectatorKeepsPace
    <3>3. Reported <= Started /\ Started <= Accepted /\ Reported \in Nat /\ Started \in Nat
          /\ Accepted \in Nat
      BY BrokerProgress DEF BetsInv
    <3> QED
      BY <3>2, <3>3, ParadeProgress
  <2>5. EarlierAreAtRest' /\ WatchersHaveReset'
    BY <1>1, <1>2, <2>1, <2>4, WatchingStays DEF SupervisionInv, EarlierAreAtRest,
       WatchersHaveReset, CountsAreReset, finishVars
  <2>6. ASSUME Started > Reported PROVE FinishersAreCounted'
    <3>1. FinishersAreCounted
      BY <2>6 DEF SupervisionInv
    <3>2. AllWatch /\ AllWatch'
      BY <1>2, <2>2, <3>1, WatchingStays, ConfigurationAssumption
         DEF FinishersAreCounted, ConfigurationAssumption
    <3>3. CountsMatch
      BY <3>1, <3>2, WatchersAreThere DEF FinishersAreCounted
    <3>4. finishedHorses = NUMBER_OF_PAIRS_HORSE_JOCKEY /\ batch' > Reported'
      BY <1>2, <2>1, <2>3, <2>4, <3>1, <3>3 DEF FinishersAreCounted, CountsMatch
    <3>5. CountsMatch'
      BY <1>1, <1>2, <2>1, <2>4, <3>3, <3>4
         DEF CountsMatch, finishVars, NUMBER_OF_PAIRS_HORSE_JOCKEY
    <3> QED
      BY <1>1, <1>2, <2>1, <2>4, <3>1, <3>2, <3>4, <3>5
         DEF FinishersAreCounted, finishVars, NUMBER_OF_PAIRS_HORSE_JOCKEY
  <2> QED
    BY <1>2, <2>5, <2>6 DEF SupervisionInv
<1>4. ASSUME NEW h \in HorseJockeys, LaunchHorse(h)
      PROVE  SupervisionInv'
  <2>1. /\ horsePc[h] = "unborn" /\ horsePc'[h] = "bettingCentre.setAbility"
        /\ \A g \in HorseJockeys \ {h} : horsePc'[g] = horsePc[g]
        /\ UNCHANGED batch
    BY <1>4 DEF LaunchHorse, StartInv, BatchTypes
  <2>2. Rested' = Rested
    BY <2>1 DEF Rested
  <2> QED
    BY <1>1, <1>2, <2>1, <2>2, OthersKeepSupervision
<1> QED
  BY <1>3, <1>4 DEF LauncherNext

LEMMA SupervisionNext ==
  ASSUME AllAreInPlace
  PROVE  SupervisionInv /\ TrackCalls /\ BetsInv /\ StartInv /\ ParadeInv /\ [TimelyNext]_vars
           => SupervisionInv'
<1> SUFFICES ASSUME SupervisionInv, TrackCalls, BetsInv, StartInv, ParadeInv,
                    [TimelyNext]_vars
             PROVE  SupervisionInv'
  OBVIOUS
<1>1. CASE TimelyBroker
  BY <1>1, BrokerKeepsSupervision DEF TimelyBroker
<1>2. CASE \E s \in Spectators : TimelySpectator(s)
  BY <1>2, SpectatorKeepsSupervision DEF TimelySpectator
<1>3. CASE \E h \in HorseJockeys : TimelyHorse(h)
  BY <1>3, HorseKeepsSupervision DEF TimelyHorse
<1>4. CASE LauncherNext
  BY <1>4, LauncherKeepsSupervision
<1>5. CASE UNCHANGED vars
  <2>1. /\ UNCHANGED <<finishVars, batch, brokerPc>> /\ Rested' = Rested
        /\ Started' = Started /\ Reported' = Reported
        /\ \A s \in Spectators : Watches(s, Reported)' <=> Watches(s, Reported)
    BY <1>5 DEF vars, centreVars, horseVars, brokerVars, spectatorVars, finishVars, Rested,
       Started, Reported, Watches
  <2> QED
    BY <2>1, OthersKeepSupervision
<1> QED
  BY <1>1, <1>2, <1>3, <1>4, <1>5 DEF TimelyNext

LEMMA FinishesAreSupervised ==
  ASSUME AllAreInPlace
  PROVE  Timely => []SupervisionInv
BY SupervisionInit, SupervisionNext, TimelyIsSpec, HorsesCallTheTrackInOrder,
   StartsAreInOrder, BetsAreInOrder, ParadeIsInOrder, PTL DEF Timely

(* The broker supervises a race till the last of its horses has told the   *)
(* control centre of its finish, in an event of any size, if the horses    *)
(* are on the line when it starts the race and all spectators watch before *)
(* the first finisher comes: a late one would reset the count of the       *)
(* finishers (ControlCentre.startTheRace, goWatchTheRace, makeAMove).      *)
THEOREM TimelySupervisionLasts ==
  ASSUME AllAreInPlace
  PROVE  TimelySpec \/ LoggedSpec => []SupervisionLasts
<1>1. ASSUME SupervisionInv, BetsInv, brokerPc = "controlCentre.reportResults"
      PROVE  batch >= brokerRace /\ (batch = brokerRace => Rested = HorseJockeys)
  <2>1. Started = brokerRace + 1 /\ Reported = brokerRace /\ brokerRace \in Nat
    BY <1>1 DEF Started, Reported, BeforeAcceptance, AfterReport, BetsInv, BetTypes
  <2>2. FinishersAreCounted
    BY <1>1, <2>1 DEF SupervisionInv
  <2> QED
    BY <1>1, <2>1, <2>2, WatchersAreThere, RestedAreFew DEF FinishersAreCounted, CountsMatch
<1>2. SupervisionInv /\ BetsInv => SupervisionLasts
  BY <1>1 DEF SupervisionLasts, Rested
<1> QED
  BY <1>2, TimelyRuns, FinishesAreSupervised, TimelyIsSpec, BetsAreInOrder, PTL

-----------------------------------------------------------------------------
(* The queue of turns.                                                     *)

HasTurn(queue, h) == \E i \in 1 .. Len(queue) : queue[i] = h
TurnsAreSingle(queue) == \A i, j \in 1 .. Len(queue) : queue[i] = queue[j] => i = j

LEMMA TurnAdded ==
  ASSUME NEW queue \in Seq(HorseJockeys), NEW h \in HorseJockeys
  PROVE  /\ Append(queue, h) \in Seq(HorseJockeys)
         /\ \A g : HasTurn(Append(queue, h), g) <=> HasTurn(queue, g) \/ g = h
         /\ TurnsAreSingle(queue) /\ ~HasTurn(queue, h) => TurnsAreSingle(Append(queue, h))
<1>1. /\ Append(queue, h) \in Seq(HorseJockeys)
      /\ Len(Append(queue, h)) = Len(queue) + 1 /\ Len(queue) \in Nat
      /\ \A i \in 1 .. Len(queue) : Append(queue, h)[i] = queue[i]
      /\ Append(queue, h)[Len(queue) + 1] = h
  BY AppendProperties
<1>2. \A g : HasTurn(Append(queue, h), g) <=> HasTurn(queue, g) \/ g = h
  <2> SUFFICES ASSUME NEW g
               PROVE  HasTurn(Append(queue, h), g) <=> HasTurn(queue, g) \/ g = h
    OBVIOUS
  <2>1. ASSUME NEW i \in 1 .. Len(queue) + 1, Append(queue, h)[i] = g
        PROVE  HasTurn(queue, g) \/ g = h
    <3>1. CASE i = Len(queue) + 1
      BY <1>1, <2>1, <3>1
    <3>2. CASE i # Len(queue) + 1
      BY <1>1, <2>1, <3>2 DEF HasTurn
    <3> QED
      BY <3>1, <3>2
  <2>2. ASSUME NEW i \in 1 .. Len(queue), queue[i] = g
        PROVE  i \in 1 .. Len(queue) + 1 /\ Append(queue, h)[i] = g
    BY <1>1, <2>2
  <2>3. Len(queue) + 1 \in 1 .. Len(queue) + 1
    BY <1>1
  <2> QED
    BY <1>1, <2>1, <2>2, <2>3 DEF HasTurn
<1>3. ASSUME TurnsAreSingle(queue), ~HasTurn(queue, h),
             NEW i \in 1 .. Len(queue) + 1, NEW j \in 1 .. Len(queue) + 1,
             Append(queue, h)[i] = Append(queue, h)[j]
      PROVE  i = j
  BY <1>1, <1>3 DEF TurnsAreSingle, HasTurn
<1> QED
  BY <1>1, <1>2, <1>3 DEF TurnsAreSingle

LEMMA TurnTaken ==
  ASSUME NEW queue \in Seq(HorseJockeys), queue # <<>>, TurnsAreSingle(queue)
  PROVE  /\ Tail(queue) \in Seq(HorseJockeys) /\ Head(queue) \in HorseJockeys
         /\ \A g : HasTurn(Tail(queue), g) <=> HasTurn(queue, g) /\ g # Head(queue)
         /\ TurnsAreSingle(Tail(queue))
<1>1. /\ Len(queue) \in Nat /\ Len(queue) > 0
      /\ Tail(queue) \in Seq(HorseJockeys) /\ Head(queue) \in HorseJockeys
      /\ Len(Tail(queue)) = Len(queue) - 1
      /\ \A i \in 1 .. Len(queue) - 1 : Tail(queue)[i] = queue[i + 1]
      /\ Head(queue) = queue[1]
  BY EmptySeq
<1>2. \A g : HasTurn(Tail(queue), g) <=> HasTurn(queue, g) /\ g # Head(queue)
  <2> SUFFICES ASSUME NEW g
               PROVE  HasTurn(Tail(queue), g) <=> HasTurn(queue, g) /\ g # Head(queue)
    OBVIOUS
  <2>1. ASSUME NEW i \in 1 .. Len(queue) - 1, Tail(queue)[i] = g
        PROVE  HasTurn(queue, g) /\ g # Head(queue)
    <3>1. i + 1 \in 1 .. Len(queue) /\ queue[i + 1] = g /\ i + 1 # 1 /\ 1 \in 1 .. Len(queue)
      BY <1>1, <2>1
    <3> QED
      BY <1>1, <3>1 DEF HasTurn, TurnsAreSingle
  <2>2. ASSUME NEW i \in 1 .. Len(queue), queue[i] = g, g # Head(queue)
        PROVE  HasTurn(Tail(queue), g)
    <3>1. i - 1 \in 1 .. Len(queue) - 1 /\ Tail(queue)[i - 1] = queue[(i - 1) + 1]
      BY <1>1, <2>2
    <3>2. (i - 1) + 1 = i
      BY <1>1
    <3>3. i - 1 \in 1 .. Len(Tail(queue)) /\ Tail(queue)[i - 1] = g
      BY <1>1, <2>2, <3>1, <3>2
    <3> QED
      BY <3>3 DEF HasTurn
  <2> QED
    BY <1>1, <2>1, <2>2 DEF HasTurn
<1>3. TurnsAreSingle(Tail(queue))
  BY <1>1 DEF TurnsAreSingle
<1> QED
  BY <1>1, <1>2, <1>3

LEMMA TurnsOfTheTrack ==
  /\ racingTrack!OneTurnEach <=> TurnsAreSingle(horsesToRun)
  /\ \A h \in HorseJockeys : racingTrack!InQueue(h) <=> HasTurn(horsesToRun, h)
  /\ racingTrack!OneTurnEach' <=> TurnsAreSingle(horsesToRun')
  /\ \A h \in HorseJockeys : racingTrack!InQueue(h)' <=> HasTurn(horsesToRun', h)
BY DEF racingTrack!OneTurnEach, racingTrack!InQueue, TurnsAreSingle, HasTurn

(* A horse lines up.                                                       *)
LEMMA QueueGrows ==
  ASSUME horsesToRun \in Seq(HorseJockeys), racingTrack!OneTurnEach,
         NEW h \in HorseJockeys, ~racingTrack!InQueue(h),
         horsesToRun' = Append(horsesToRun, h)
  PROVE  /\ racingTrack!OneTurnEach'
         /\ \A g \in HorseJockeys : racingTrack!InQueue(g)' <=> racingTrack!InQueue(g) \/ g = h
BY TurnsOfTheTrack, TurnAdded

(* A horse has its turn.                                                   *)
LEMMA QueueAdvances ==
  ASSUME horsesToRun \in Seq(HorseJockeys), racingTrack!OneTurnEach, horsesToRun # <<>>,
         NEW h \in HorseJockeys, Head(horsesToRun) = h, NEW crossed \in BOOLEAN,
         horsesToRun' = racingTrack!QueueAfter(h, crossed)
  PROVE  /\ racingTrack!OneTurnEach'
         /\ \A g \in HorseJockeys :
              racingTrack!InQueue(g)' <=> racingTrack!InQueue(g) /\ (g # h \/ ~crossed)
<1>1. /\ Tail(horsesToRun) \in Seq(HorseJockeys)
      /\ \A g : HasTurn(Tail(horsesToRun), g) <=> HasTurn(horsesToRun, g) /\ g # h
      /\ TurnsAreSingle(Tail(horsesToRun))
  BY TurnTaken, TurnsOfTheTrack
<1>2. CASE crossed
  BY <1>1, <1>2, TurnsOfTheTrack DEF racingTrack!QueueAfter
<1>3. CASE ~crossed
  <2>1. horsesToRun' = Append(Tail(horsesToRun), h)
    BY <1>3 DEF racingTrack!QueueAfter
  <2>2. /\ \A g : HasTurn(horsesToRun', g) <=> HasTurn(Tail(horsesToRun), g) \/ g = h
        /\ TurnsAreSingle(horsesToRun')
    <3> DEFINE rest == Tail(horsesToRun)
    <3>1. /\ rest \in Seq(HorseJockeys) /\ TurnsAreSingle(rest) /\ ~HasTurn(rest, h)
          /\ horsesToRun' = Append(rest, h)
      BY <1>1, <2>1
    <3> HIDE DEF rest
    <3>2. /\ \A g : HasTurn(Append(rest, h), g) <=> HasTurn(rest, g) \/ g = h
          /\ TurnsAreSingle(Append(rest, h))
      BY <3>1, TurnAdded
    <3>3. /\ \A g : HasTurn(horsesToRun', g) <=> HasTurn(rest, g) \/ g = h
          /\ TurnsAreSingle(horsesToRun')
      BY <3>1, <3>2
    <3> QED
      BY <3>3 DEF rest
  <2>3. HasTurn(horsesToRun, h)
    <3>1. Len(horsesToRun) \in Nat /\ Len(horsesToRun) > 0 /\ Head(horsesToRun) = horsesToRun[1]
      BY EmptySeq
    <3> QED
      BY <3>1 DEF HasTurn
  <2> QED
    BY <1>1, <1>3, <2>2, <2>3, TurnsOfTheTrack
<1> QED
  BY <1>2, <1>3

LEMMA TurnsAreOfHorses == Spec => []TrackSleepers
<1>1. StartInv => BatchTypes
  BY DEF StartInv
<1> QED
  BY <1>1, TrackSleepersInit, TrackSleepersNext, StartsAreInOrder, PTL DEF Spec

-----------------------------------------------------------------------------
(* The race on the track.                                                  *)

(* h has called proceedToStartLine for this race and has not been told     *)
(* that it has crossed the line.                                           *)
LinedUp(h) ==
  \/ horsePc[h] = "racingTrack.proceedToStartLine" /\ trackCall[h] # "none"
  \/ horsePc[h] \in {"racingTrack.hasFinishLineBeenCrossed", "racingTrack.makeAMove"}

Off == {h \in HorseJockeys : horsePc[h] \in OffTheTrack}

(* Who is lined up has one turn in the queue until it has crossed the      *)
(* line, and nobody looks into an empty queue.                             *)
RunsUntilCrossed(h) ==
  /\ trackCall[h] # "failed"
  /\ racingTrack!InQueue(h) <=> LinedUp(h) /\ ~racingTrack!HasCrossed(h)
  /\ horsePc[h] = "racingTrack.makeAMove" => ~racingTrack!HasCrossed(h)

(* Until the race is started, the first on the start line has put all the  *)
(* horses there; from then on all are lined up or have finished.           *)
AtTheStart ==
  (\E h \in HorseJockeys : LinedUp(h))
    => numberOfFinishedHorses = 0 /\ \A h \in HorseJockeys : currentHorsesPositions[h] = 0

Underway ==
  /\ \A h \in HorseJockeys : LinedUp(h) \/ h \in Off
  /\ numberOfFinishedHorses = Cardinality(Off)

TrackInv ==
  /\ racingTrack!OneTurnEach
  /\ \A h \in HorseJockeys : RunsUntilCrossed(h)
  /\ Started <= batch => AtTheStart
  /\ Started > batch => Underway

LEMMA OffAreFew ==
  /\ Off \subseteq HorseJockeys /\ IsFiniteSet(Off) /\ Cardinality(Off) \in Nat
  /\ NUMBER_OF_PAIRS_HORSE_JOCKEY \in Nat /\ NUMBER_OF_PAIRS_HORSE_JOCKEY > 0
  /\ Cardinality(Off) <= NUMBER_OF_PAIRS_HORSE_JOCKEY
  /\ Off # HorseJockeys => Cardinality(Off) < NUMBER_OF_PAIRS_HORSE_JOCKEY
<1>1. IsFiniteSet(HorseJockeys)
  BY ConfigurationAssumption DEF ConfigurationAssumption
<1>2. Off \subseteq HorseJockeys
  BY DEF Off
<1>3. /\ IsFiniteSet(Off) /\ Cardinality(Off) <= Cardinality(HorseJockeys)
      /\ Cardinality(Off) = Cardinality(HorseJockeys) => Off = HorseJockeys
  BY <1>1, <1>2, FS_Subset
<1>4. Cardinality(Off) \in Nat
  BY <1>3, FS_CardinalityType
<1> QED
  BY <1>2, <1>3, <1>4, RestedAreFew DEF NUMBER_OF_PAIRS_HORSE_JOCKEY

LEMMA RacesHaveADistance ==
  /\ RacesInv => race.distance \in Nat /\ race.distance > 0
  /\ RacesInv' => race'.distance \in Nat /\ race'.distance > 0
<1>1. \A d \in Distances : d \in Nat /\ d > 0
  BY HippodromeAssumption DEF HippodromeAssumption
<1> QED
  BY <1>1 DEF RacesInv

LEMMA TrackInit == Init => TrackInv
<1> SUFFICES ASSUME Init PROVE TrackInv
  OBVIOUS
<1>1. /\ horsesToRun = <<>> /\ brokerPc = "stable.summonHorsesToPaddock" /\ brokerRace = 0
      /\ batch = 0
      /\ \A h \in HorseJockeys : horsePc[h] = "unborn" /\ trackCall[h] = "none"
  BY DEF Init, racingTrack!Init, racingTrack!Threads, racingTrack!None
<1>2. Started = 0
  BY <1>1 DEF Started, BeforeAcceptance
<1>3. Len(horsesToRun) = 0
  BY <1>1, EmptySeq
<1>4. racingTrack!OneTurnEach /\ \A h \in HorseJockeys : ~racingTrack!InQueue(h)
  BY <1>3 DEF racingTrack!OneTurnEach, racingTrack!InQueue
<1>5. \A h \in HorseJockeys : ~LinedUp(h)
  BY <1>1 DEF LinedUp
<1> QED
  BY <1>1, <1>2, <1>4, <1>5 DEF TrackInv, RunsUntilCrossed, AtTheStart

LEMMA OthersKeepTrack ==
  ASSUME TrackInv,
         UNCHANGED <<horsesToRun, numberOfFinishedHorses, currentHorsesPositions, race,
                     trackCall, batch>>,
         Started' = Started, Off' = Off,
         \A h \in HorseJockeys :
           /\ LinedUp(h)' <=> LinedUp(h)
           /\ horsePc'[h] = "racingTrack.makeAMove" => horsePc[h] = "racingTrack.makeAMove"
  PROVE  TrackInv'
<1>1. /\ racingTrack!OneTurnEach'
      /\ \A h \in HorseJockeys : racingTrack!InQueue(h)' <=> racingTrack!InQueue(h)
      /\ \A h \in HorseJockeys : racingTrack!HasCrossed(h)' <=> racingTrack!HasCrossed(h)
  BY DEF TrackInv, racingTrack!OneTurnEach, racingTrack!InQueue, racingTrack!HasCrossed
<1>2. \A h \in HorseJockeys : RunsUntilCrossed(h)'
  BY <1>1 DEF TrackInv, RunsUntilCrossed
<1>3. (AtTheStart' <=> AtTheStart) /\ (Underway' <=> Underway)
  BY DEF AtTheStart, Underway
<1> QED
  BY <1>1, <1>2, <1>3 DEF TrackInv

(* A race that is set while horses are lined up is set before they run.    *)
LEMMA BrokerKeepsTrack ==
  ASSUME TrackInv, SupervisionInv, TrackCalls, BetsInv, StartInv, RacesInv, RacesInv',
         AllAreInPlace, LineUpBeforeTheStart, BrokerNext
  PROVE  TrackInv'
<1>1. /\ UNCHANGED <<horsePc, batch>>
      /\ BrokerStartsRace \/ Started' = Started
  BY BrokerStages DEF BetsInv, horseVars
<1>2. UNCHANGED <<horsesToRun, numberOfFinishedHorses, currentHorsesPositions, trackCall>>
      /\ (race' = race \/ BrokerSetsRace)
  BY DEF BrokerNext, BrokerSummonsHorses, BrokerAnnouncesRace,
     BrokerAcceptsBets, BrokerStartsRace, BrokerSupervisesRace, BrokerReportsResults,
     BrokerLooksForWinners, BrokerHonoursBets, BrokerSetsRace, BrokerEntertainsGuests,
     InStable, InControlCentre, InBettingCentre, InNoRegion, trackVars, racingTrack!startTheRace,
     racingTrack!setRace, racingTrack!runVars
<1>3. /\ Off' = Off
      /\ \A h \in HorseJockeys : LinedUp(h)' <=> LinedUp(h)
  BY <1>1, <1>2 DEF Off, LinedUp
<1>4. CASE BrokerStartsRace
  <2>1. /\ batch = Started /\ Started' = Started + 1 /\ race' = race
        /\ batch \in Nat /\ Started \in Nat
        /\ \A h \in HorseJockeys : horsePc[h] = "racingTrack.proceedToStartLine"
    BY <1>4, StartIsPrepared, BrokerProgress DEF BrokerStartsRace, BrokerReturns, Started,
       BeforeAcceptance, racingTrack!startTheRace, StartInv, BatchTypes, BetsInv
  <2>2. \A h \in HorseJockeys : trackCall[h] = "proceedToStartLine"
    BY <1>4, StartIsPrepared
  <2>3. /\ \A h \in HorseJockeys : LinedUp(h)
        /\ Off = {}
    BY <2>1, <2>2 DEF LinedUp, Off, OffTheTrack
  <2>4. numberOfFinishedHorses = 0
    BY <2>1, <2>3, ConfigurationAssumption DEF TrackInv, AtTheStart, ConfigurationAssumption
  <2>5. Cardinality(Off') = 0
    BY <1>3, <2>3, FS_EmptySet
  <2>6. Underway'
    BY <1>2, <1>3, <2>3, <2>4, <2>5 DEF Underway
  <2>7. /\ racingTrack!OneTurnEach'
        /\ \A h \in HorseJockeys : racingTrack!InQueue(h)' <=> racingTrack!InQueue(h)
        /\ \A h \in HorseJockeys : racingTrack!HasCrossed(h)' <=> racingTrack!HasCrossed(h)
    BY <1>2, <2>1 DEF TrackInv, racingTrack!OneTurnEach, racingTrack!InQueue,
       racingTrack!HasCrossed
  <2>8. \A h \in HorseJockeys : RunsUntilCrossed(h)'
    BY <1>1, <1>2, <1>3, <2>7 DEF TrackInv, RunsUntilCrossed
  <2>9. Started' > batch'
    BY <1>1, <2>1
  <2> QED
    BY <1>1, <2>1, <2>6, <2>7, <2>8, <2>9 DEF TrackInv
<1>5. CASE BrokerSetsRace
  <2>1. /\ Started = brokerRace + 1 /\ Reported = brokerRace + 1 /\ Started' = Started
        /\ brokerRace \in Nat /\ batch \in Nat
    BY <1>5 DEF BrokerSetsRace, BrokerReturns, Started, Reported, BeforeAcceptance, AfterReport,
       BetsInv, BetTypes, StartInv, BatchTypes
  <2>2. /\ race.distance \in Nat /\ race.distance > 0
        /\ race'.distance \in Nat /\ race'.distance > 0
    BY RacesHaveADistance
  <2>3. ASSUME NEW h \in HorseJockeys, LinedUp(h)
        PROVE  ~racingTrack!HasCrossed(h) /\ ~racingTrack!HasCrossed(h)'
    <3>1. Started <= batch
      <4>1. h \notin Rested
        BY <2>3 DEF LinedUp, Rested
      <4> QED
        BY <2>1, <4>1 DEF SupervisionInv, EarlierAreAtRest
    <3>2. currentHorsesPositions[h] = 0
      BY <2>3, <3>1 DEF TrackInv, AtTheStart
    <3> QED
      BY <1>2, <2>2, <3>2 DEF racingTrack!HasCrossed
  <2>4. /\ racingTrack!OneTurnEach'
        /\ \A h \in HorseJockeys : racingTrack!InQueue(h)' <=> racingTrack!InQueue(h)
    BY <1>2 DEF TrackInv, racingTrack!OneTurnEach, racingTrack!InQueue
  <2>5. ASSUME NEW h \in HorseJockeys PROVE RunsUntilCrossed(h)'
    <3>1. horsePc[h] = "racingTrack.makeAMove" => LinedUp(h)
      BY DEF LinedUp
    <3> QED
      BY <1>1, <1>2, <1>3, <2>3, <2>4, <3>1 DEF TrackInv, RunsUntilCrossed
  <2>6. (AtTheStart' <=> AtTheStart) /\ (Underway' <=> Underway)
    BY <1>2, <1>3 DEF AtTheStart, Underway
  <2> QED
    BY <1>1, <2>1, <2>4, <2>5, <2>6 DEF TrackInv
<1>6. CASE ~BrokerStartsRace /\ ~BrokerSetsRace
  BY <1>1, <1>2, <1>3, <1>6, OthersKeepTrack
<1> QED
  BY <1>4, <1>5, <1>6

(* A horse lines up before the start, and waits for it.                    *)
LEMMA HorseLinesUpKeepsTrack ==
  ASSUME TrackInv, TrackSleepers, TrackCalls, RacesInv, StartInv, BetTypes,
         NEW h \in HorseJockeys, HorseLinesUp(h)
  PROVE  TrackInv' /\ (trackCall[h] = "none" => ~racingTrack!InQueue(h))
<1> USE DEF HorseReturns
<1>1. /\ horsePc[h] = "racingTrack.proceedToStartLine"
      /\ UNCHANGED <<batch, race>> /\ Started' = Started
      /\ Started \in Nat /\ batch \in Nat /\ BatchTypes
      /\ race.distance \in Nat /\ race.distance > 0
  <2>1. /\ horsePc[h] = "racingTrack.proceedToStartLine"
        /\ UNCHANGED <<batch, race, brokerVars>>
    BY DEF HorseLinesUp, racingTrack!proceedToStartLine, racingTrack!resumeProceedToStartLine
  <2>2. Started' = Started
    BY <2>1 DEF Started, brokerVars
  <2>3. Started \in Nat /\ batch \in Nat /\ BatchTypes
    BY DEF Started, BetTypes, StartInv, BatchTypes
  <2> QED
    BY <2>1, <2>2, <2>3, RacesHaveADistance
<1>2. /\ \E m \in {"none", "proceedToStartLine"} :
           /\ trackCall' = [trackCall EXCEPT ![h] = m]
           /\ brokerDidNotOrderToStartTheRace => m = "proceedToStartLine"
      /\ trackCall'[h] = "none"
           => horsePc' = [horsePc EXCEPT ![h] = "racingTrack.hasFinishLineBeenCrossed"]
      /\ trackCall'[h] # "none"
           => horsePc' = [horsePc EXCEPT ![h] = "racingTrack.proceedToStartLine"]
  BY DEF HorseLinesUp, racingTrack!proceedToStartLine, RacingTrackAnswers,
     racingTrack!resumeProceedToStartLine, racingTrack!WaitWhile, racingTrack!None,
     racingTrack!StartLine
<1>3. /\ LinedUp(h)' /\ trackCall'[h] # "failed"
      /\ horsePc'[h] # "racingTrack.makeAMove"
      /\ \A g \in HorseJockeys \ {h} :
           /\ horsePc'[g] = horsePc[g] /\ trackCall'[g] = trackCall[g]
           /\ LinedUp(g)' <=> LinedUp(g)
  BY <1>1, <1>2 DEF BatchTypes, LinedUp
<1>4. Off' = Off /\ h \notin Off
  <2>1. horsePc[h] \notin OffTheTrack /\ horsePc'[h] \notin OffTheTrack
    BY <1>1, <1>2 DEF OffTheTrack, BatchTypes
  <2> QED
    BY <1>3, <2>1 DEF Off
<1>5. CASE racingTrack!proceedToStartLine(h)
  <2>1. /\ trackCall[h] = "none" /\ ~LinedUp(h)
        /\ horsesToRun' = Append(horsesToRun, h)
        /\ numberOfFinishedHorses' = 0
        /\ \A g \in HorseJockeys : currentHorsesPositions'[g] = 0
    BY <1>1, <1>5 DEF racingTrack!proceedToStartLine, racingTrack!Outside, racingTrack!None,
       LinedUp
  <2>2. Started <= batch
    BY <1>1, <1>4, <2>1 DEF TrackInv, Underway
  <2>3. ~racingTrack!InQueue(h)
    BY <2>1 DEF TrackInv, RunsUntilCrossed
  <2>4. /\ racingTrack!OneTurnEach'
        /\ \A g \in HorseJockeys : racingTrack!InQueue(g)' <=> racingTrack!InQueue(g) \/ g = h
    BY <2>1, <2>3, QueueGrows DEF TrackInv, TrackSleepers
  <2>5. ASSUME NEW g \in HorseJockeys PROVE RunsUntilCrossed(g)'
    <3>1. ~racingTrack!HasCrossed(g)'
      BY <1>1, <2>1 DEF racingTrack!HasCrossed
    <3>2. CASE g = h
      BY <1>3, <2>4, <3>1, <3>2 DEF RunsUntilCrossed
    <3>3. CASE g # h
      <4>1. LinedUp(g) => ~racingTrack!HasCrossed(g)
        <5>1. LinedUp(g) => currentHorsesPositions[g] = 0
          BY <2>2 DEF TrackInv, AtTheStart
        <5> QED
          BY <1>1, <5>1 DEF racingTrack!HasCrossed
      <4>2. RunsUntilCrossed(g)
        BY DEF TrackInv
      <4> QED
        BY <1>3, <2>4, <3>1, <3>3, <4>1, <4>2 DEF RunsUntilCrossed
    <3> QED
      BY <3>2, <3>3
  <2>6. AtTheStart'
    BY <2>1 DEF AtTheStart
  <2>7. Started' <= batch'
    BY <1>1, <2>2
  <2> QED
    BY <1>1, <2>2, <2>3, <2>4, <2>5, <2>6, <2>7 DEF TrackInv
<1>6. CASE racingTrack!resumeProceedToStartLine(h)
  <2>1. /\ trackCall[h] = "proceedToStartLine" /\ LinedUp(h)
        /\ UNCHANGED <<horsesToRun, currentHorsesPositions, numberOfFinishedHorses>>
    BY <1>1, <1>6 DEF racingTrack!resumeProceedToStartLine, racingTrack!Notified,
       racingTrack!StartLine, racingTrack!runVars, LinedUp
  <2>2. /\ racingTrack!OneTurnEach'
        /\ \A g \in HorseJockeys : racingTrack!InQueue(g)' <=> racingTrack!InQueue(g)
        /\ \A g \in HorseJockeys : racingTrack!HasCrossed(g)' <=> racingTrack!HasCrossed(g)
    BY <1>1, <2>1 DEF TrackInv, racingTrack!OneTurnEach, racingTrack!InQueue,
       racingTrack!HasCrossed
  <2>3. \A g \in HorseJockeys : LinedUp(g)' <=> LinedUp(g)
    BY <1>3, <2>1
  <2>4. \A g \in HorseJockeys : RunsUntilCrossed(g)'
    BY <1>3, <2>2, <2>3 DEF TrackInv, RunsUntilCrossed
  <2>5. (AtTheStart' <=> AtTheStart) /\ (Underway' <=> Underway)
    BY <1>4, <2>1, <2>3 DEF AtTheStart, Underway
  <2> QED
    BY <1>1, <2>1, <2>2, <2>4, <2>5 DEF TrackInv
<1> QED
  BY <1>5, <1>6 DEF HorseLinesUp

LEMMA HorseChecksKeepsTrack ==
  ASSUME TrackInv, RacesInv, StartInv, BetTypes,
         NEW h \in HorseJockeys, HorseChecksFinishLine(h)
  PROVE  TrackInv' /\ numberOfFinishedHorses < NUMBER_OF_PAIRS_HORSE_JOCKEY
<1> USE DEF HorseReturns
<1>1. /\ horsePc[h] = "racingTrack.hasFinishLineBeenCrossed"
      /\ UNCHANGED <<batch, race, horsesToRun, currentHorsesPositions, trackCall>>
      /\ Started' = Started /\ BatchTypes
      /\ horsePc' = [horsePc EXCEPT ![h] = IF racingTrack!HasCrossed(h)
                                           THEN "controlCentre.makeAMove"
                                           ELSE "racingTrack.makeAMove"]
  BY DEF HorseChecksFinishLine, racingTrack!hasFinishLineBeenCrossed, racingTrack!runVars,
     Started, brokerVars, StartInv
<1>2. Started > batch /\ LinedUp(h) /\ h \notin Off
  BY <1>1 DEF StartInv, HasStarted, LinedUp, Off, OffTheTrack
<1>3. /\ racingTrack!OneTurnEach'
      /\ \A g \in HorseJockeys : racingTrack!InQueue(g)' <=> racingTrack!InQueue(g)
      /\ \A g \in HorseJockeys : racingTrack!HasCrossed(g)' <=> racingTrack!HasCrossed(g)
  BY <1>1 DEF TrackInv, racingTrack!OneTurnEach, racingTrack!InQueue, racingTrack!HasCrossed
<1>4. /\ horsePc'[h] = IF racingTrack!HasCrossed(h) THEN "controlCentre.makeAMove"
                                                    ELSE "racingTrack.makeAMove"
      /\ \A g \in HorseJockeys \ {h} :
           horsePc'[g] = horsePc[g] /\ (LinedUp(g)' <=> LinedUp(g))
  BY <1>1 DEF BatchTypes, LinedUp
<1>5. LinedUp(h)' <=> ~racingTrack!HasCrossed(h)
  BY <1>4 DEF LinedUp
<1>6. ASSUME NEW g \in HorseJockeys PROVE RunsUntilCrossed(g)'
  <2>1. CASE g = h
    BY <1>1, <1>2, <1>3, <1>4, <1>5, <2>1 DEF TrackInv, RunsUntilCrossed
  <2>2. CASE g # h
    BY <1>1, <1>3, <1>4, <2>2 DEF TrackInv, RunsUntilCrossed
  <2> QED
    BY <2>1, <2>2
<1>7. numberOfFinishedHorses = Cardinality(Off) /\ Cardinality(Off) \in Nat /\ IsFiniteSet(Off)
      /\ numberOfFinishedHorses < NUMBER_OF_PAIRS_HORSE_JOCKEY
  BY <1>2, OffAreFew DEF TrackInv, Underway
<1>8. Underway'
  <2>1. CASE racingTrack!HasCrossed(h)
    <3>1. Off' = Off \cup {h}
      BY <1>4, <2>1 DEF Off, OffTheTrack
    <3>2. numberOfFinishedHorses' = Cardinality(Off')
      <4>1. numberOfFinishedHorses' = numberOfFinishedHorses + 1
        BY <2>1 DEF HorseChecksFinishLine, racingTrack!hasFinishLineBeenCrossed
      <4>2. Cardinality(Off') = Cardinality(Off) + 1
        BY <1>2, <1>7, <3>1, FS_AddElement
      <4> QED
        BY <1>7, <4>1, <4>2
    <3>3. \A g \in HorseJockeys : LinedUp(g)' \/ g \in Off'
      BY <1>2, <1>4, <3>1 DEF TrackInv, Underway
    <3> QED
      BY <3>2, <3>3 DEF Underway
  <2>2. CASE ~racingTrack!HasCrossed(h)
    <3>1. Off' = Off
      BY <1>1, <1>4, <2>2 DEF Off, OffTheTrack
    <3>2. numberOfFinishedHorses' = numberOfFinishedHorses
      BY <2>2 DEF HorseChecksFinishLine, racingTrack!hasFinishLineBeenCrossed
    <3>3. \A g \in HorseJockeys : LinedUp(g)' \/ g \in Off'
      BY <1>2, <1>4, <1>5, <2>2, <3>1 DEF TrackInv, Underway
    <3> QED
      BY <1>7, <3>1, <3>2, <3>3 DEF Underway
  <2> QED
    BY <2>1, <2>2
<1>9. Started' > batch' /\ ~(Started' <= batch')
  BY <1>1, <1>2, BrokerProgress DEF BatchTypes
<1> QED
  BY <1>3, <1>6, <1>7, <1>8, <1>9 DEF TrackInv

(* A horse that asks for its turn has one in the queue.                    *)
LEMMA HorseMovesKeepsTrack ==
  ASSUME TrackInv, TrackSleepers, RacesInv, StartInv, BetTypes,
         NEW h \in HorseJockeys, HorseMoves(h)
  PROVE  TrackInv' /\ ~racingTrack!HasCrossed(h)
<1> USE DEF HorseReturns
<1>1. /\ horsePc[h] = "racingTrack.makeAMove"
      /\ UNCHANGED <<batch, race, numberOfFinishedHorses>>
      /\ Started' = Started /\ BatchTypes
      /\ horsePc' = [horsePc EXCEPT ![h] = IF trackCall'[h] = "none"
                                           THEN "racingTrack.hasFinishLineBeenCrossed"
                                           ELSE "racingTrack.makeAMove"]
      /\ racingTrack!MoveOrWait(h, horseAbility[h])
  BY DEF HorseMoves, racingTrack!makeAMove, racingTrack!resumeMakeAMove, RacingTrackAnswers,
     Started, brokerVars, StartInv
<1>2. Started > batch /\ LinedUp(h)
  BY <1>1 DEF StartInv, HasStarted, LinedUp
<1>3. ~racingTrack!HasCrossed(h) /\ racingTrack!InQueue(h)
  BY <1>1, <1>2 DEF TrackInv, RunsUntilCrossed
<1>4. horsesToRun # <<>> /\ horsesToRun \in Seq(HorseJockeys)
  BY <1>3, EmptySeq DEF racingTrack!InQueue, TrackSleepers
<1>5. /\ horsePc'[h] \in {"racingTrack.hasFinishLineBeenCrossed", "racingTrack.makeAMove"}
      /\ trackCall'[h] = "none" => horsePc'[h] = "racingTrack.hasFinishLineBeenCrossed"
      /\ \A g \in HorseJockeys \ {h} : horsePc'[g] = horsePc[g]
  BY <1>1 DEF BatchTypes
<1>6. /\ \A g \in HorseJockeys \ {h} : trackCall'[g] = trackCall[g]
      /\ trackCall'[h] \in {"none", "makeAMove"}
  BY <1>1, <1>4 DEF racingTrack!MoveOrWait, racingTrack!Wait, racingTrack!NotifyAllAndReturn,
     racingTrack!WaitWhile, racingTrack!None, racingTrack!Move, BatchTypes
<1>7. LinedUp(h)' /\ \A g \in HorseJockeys : LinedUp(g)' <=> LinedUp(g)
  BY <1>2, <1>5, <1>6 DEF LinedUp
<1>8. Off' = Off
  BY <1>1, <1>5 DEF Off, OffTheTrack
<1>9. Underway' /\ Started' > batch' /\ ~(Started' <= batch')
  BY <1>1, <1>2, <1>7, <1>8, BrokerProgress DEF TrackInv, Underway, BatchTypes
<1>10. CASE racingTrack!Wait(h, racingTrack!Move) /\ UNCHANGED racingTrack!runVars
  <2>1. UNCHANGED <<horsesToRun, currentHorsesPositions>>
    BY <1>10 DEF racingTrack!runVars
  <2>2. /\ racingTrack!OneTurnEach'
        /\ \A g \in HorseJockeys : racingTrack!InQueue(g)' <=> racingTrack!InQueue(g)
        /\ \A g \in HorseJockeys : racingTrack!HasCrossed(g)' <=> racingTrack!HasCrossed(g)
    BY <1>1, <2>1 DEF TrackInv, racingTrack!OneTurnEach, racingTrack!InQueue,
       racingTrack!HasCrossed
  <2>3. \A g \in HorseJockeys : RunsUntilCrossed(g)'
    BY <1>1, <1>5, <1>6, <1>7, <2>2 DEF TrackInv, RunsUntilCrossed
  <2> QED
    BY <1>3, <1>9, <2>2, <2>3 DEF TrackInv
<1>11. CASE /\ Head(horsesToRun) = h
            /\ \E steps \in 1 .. horseAbility[h] : racingTrack!Advance(h, steps)
            /\ racingTrack!NotifyAllAndReturn(h)
  <2>1. PICK steps \in 1 .. horseAbility[h] : racingTrack!Advance(h, steps)
    BY <1>11
  <2> DEFINE position == currentHorsesPositions[h] + steps
             crossed == position >= race.distance
  <2>2. /\ currentHorsesPositions' = [currentHorsesPositions EXCEPT ![h] = position]
        /\ horsesToRun' = racingTrack!QueueAfter(h, crossed)
    BY <2>1 DEF racingTrack!Advance
  <2>3. /\ currentHorsesPositions'[h] = position
        /\ \A g \in HorseJockeys \ {h} : currentHorsesPositions'[g] = currentHorsesPositions[g]
    BY <1>1, <2>2 DEF BatchTypes
  <2>4. /\ racingTrack!HasCrossed(h)' <=> crossed
        /\ \A g \in HorseJockeys \ {h} : racingTrack!HasCrossed(g)' <=> racingTrack!HasCrossed(g)
    BY <1>1, <2>3 DEF racingTrack!HasCrossed
  <2>5. crossed \in BOOLEAN
    OBVIOUS
  <2> HIDE DEF crossed, position
  <2>6. /\ racingTrack!OneTurnEach'
        /\ \A g \in HorseJockeys :
             racingTrack!InQueue(g)' <=> racingTrack!InQueue(g) /\ (g # h \/ ~crossed)
    BY <1>4, <1>11, <2>2, <2>5, QueueAdvances DEF TrackInv
  <2>7. trackCall'[h] = "none"
    BY <1>1, <1>11 DEF racingTrack!NotifyAllAndReturn, racingTrack!WaitWhile,
       racingTrack!None, BatchTypes
  <2>8. ASSUME NEW g \in HorseJockeys PROVE RunsUntilCrossed(g)'
    <3>1. CASE g = h
      BY <1>3, <1>5, <1>7, <2>4, <2>6, <2>7, <3>1 DEF RunsUntilCrossed
    <3>2. CASE g # h
      BY <1>5, <1>6, <1>7, <2>4, <2>6, <3>2 DEF TrackInv, RunsUntilCrossed
    <3> QED
      BY <3>1, <3>2
  <2> QED
    BY <1>3, <1>9, <2>6, <2>8 DEF TrackInv
<1> QED
  BY <1>1, <1>4, <1>10, <1>11 DEF racingTrack!MoveOrWait

LEMMA HorseKeepsTrack ==
  ASSUME TrackInv, TrackSleepers, TrackCalls, RacesInv, StartInv, BetTypes,
         NEW h \in HorseJockeys, HorseNext(h)
  PROVE  TrackInv'
<1> USE DEF HorseReturns
<1>1. CASE HorseLinesUp(h) \/ HorseChecksFinishLine(h) \/ HorseMoves(h)
  BY <1>1, HorseLinesUpKeepsTrack, HorseChecksKeepsTrack, HorseMovesKeepsTrack
<1>2. CASE ~HorseLinesUp(h) /\ ~HorseChecksFinishLine(h) /\ ~HorseMoves(h)
  <2>1. /\ UNCHANGED <<trackVars, batch, brokerPc, brokerRace>>
        /\ \E pc : /\ horsePc' = [horsePc EXCEPT ![h] = pc]
                   /\ pc \in OffTheTrack <=> horsePc[h] \in OffTheTrack
                   /\ pc \notin {"racingTrack.hasFinishLineBeenCrossed", "racingTrack.makeAMove"}
                   /\ horsePc[h] \notin OnTheTrack
    BY <1>2 DEF HorseNext, HorseSetsAbility, HorseArrivesAtStable, HorseLeavesForPaddock,
       HorseParades, HorseLeavesPaddock, HorseFinishes, HorseGoesToRest, InBettingCentre,
       InStable, InControlCentre, InPaddock, brokerVars, OffTheTrack, OnTheTrack
  <2>2. trackCall[h] = "none"
    BY <2>1 DEF TrackCalls, OnTheTrack, StartInv, BatchTypes, TrackMethods
  <2>3. /\ \A g \in HorseJockeys \ {h} : horsePc'[g] = horsePc[g]
        /\ horsePc'[h] \in OffTheTrack <=> horsePc[h] \in OffTheTrack
        /\ horsePc'[h] \notin {"racingTrack.hasFinishLineBeenCrossed", "racingTrack.makeAMove"}
        /\ horsePc[h] \notin OnTheTrack
    BY <2>1 DEF StartInv, BatchTypes
  <2>4. /\ Off' = Off /\ Started' = Started /\ trackCall' = trackCall
        /\ \A g \in HorseJockeys : LinedUp(g)' <=> LinedUp(g)
    BY <2>1, <2>2, <2>3 DEF Off, Started, LinedUp, OnTheTrack, trackVars
  <2> QED
    BY <2>1, <2>3, <2>4, OthersKeepTrack DEF trackVars
<1> QED
  BY <1>1, <1>2

LEMMA LauncherKeepsTrack ==
  ASSUME TrackInv, TrackCalls, ParadeInv, StartInv, BetsInv, LauncherNext
  PROVE  TrackInv'
<1>1. UNCHANGED <<trackVars, brokerPc, brokerRace>>
  BY DEF LauncherNext, LaunchNextBatch, LaunchHorse, InNoRegion, InStable, brokerVars
<1>2. Started' = Started /\ trackCall' = trackCall
  BY <1>1 DEF Started, trackVars
<1>3. CASE LaunchNextBatch
  <2>1. batch' = batch + 1 /\ \A h \in HorseJockeys : horsePc[h] = "deceased" /\ horsePc'[h] = "unborn"
    BY <1>3 DEF LaunchNextBatch
  <2>2. \A h \in HorseJockeys : trackCall[h] = "none"
    BY <2>1 DEF TrackCalls, StartInv, BatchTypes, TrackMethods
  <2>3. \A h \in HorseJockeys : ~LinedUp(h) /\ ~LinedUp(h)'
    BY <1>2, <2>1, <2>2 DEF LinedUp
  <2>4. Started <= batch'
    <3>1. PICK s \in Spectators : TRUE
      BY ConfigurationAssumption DEF ConfigurationAssumption
    <3>2. Told <= Counted(s) /\ Passed(s) <= Paraded
      BY DEF ParadeInv, SpectatorKeepsPace
    <3>3. Started <= Accepted /\ Started \in Nat /\ Accepted \in Nat
      BY BrokerProgress DEF BetsInv
    <3> QED
      BY <2>1, <3>2, <3>3, ParadeProgress
  <2>5. /\ racingTrack!OneTurnEach'
        /\ \A h \in HorseJockeys : racingTrack!InQueue(h)' <=> racingTrack!InQueue(h)
    BY <1>1 DEF TrackInv, racingTrack!OneTurnEach, racingTrack!InQueue, trackVars
  <2>6. \A h \in HorseJockeys : RunsUntilCrossed(h)'
    BY <1>2, <2>1, <2>3, <2>5 DEF TrackInv, RunsUntilCrossed
  <2>7. AtTheStart' /\ ~(Started' > batch')
    <3>1. Started \in Nat /\ batch \in Nat
      BY BrokerProgress DEF BetsInv, StartInv, BatchTypes
    <3> QED
      BY <1>2, <2>1, <2>3, <2>4, <3>1 DEF AtTheStart
  <2> QED
    BY <2>5, <2>6, <2>7 DEF TrackInv
<1>4. ASSUME NEW h \in HorseJockeys, LaunchHorse(h)
      PROVE  TrackInv'
  <2>1. /\ horsePc[h] = "unborn" /\ horsePc'[h] = "bettingCentre.setAbility"
        /\ \A g \in HorseJockeys \ {h} : horsePc'[g] = horsePc[g]
        /\ UNCHANGED batch
    BY <1>4 DEF LaunchHorse, StartInv, BatchTypes
  <2>2. Off' = Off /\ \A g \in HorseJockeys : LinedUp(g)' <=> LinedUp(g)
    BY <1>2, <2>1 DEF Off, OffTheTrack, LinedUp
  <2> QED
    BY <1>1, <1>2, <2>1, <2>2, OthersKeepTrack DEF trackVars
<1> QED
  BY <1>3, <1>4 DEF LauncherNext

(* All that the race on the track rests on.                                *)
RaceInv ==
  /\ SupervisionInv /\ TrackCalls /\ TrackSleepers
  /\ BetsInv /\ StartInv /\ ParadeInv /\ RacesInv

LEMMA TrackNext ==
  ASSUME AllAreInPlace
  PROVE  TrackInv /\ RaceInv /\ RacesInv' /\ [TimelyNext]_vars => TrackInv'
<1> SUFFICES ASSUME TrackInv, RaceInv, RacesInv', [TimelyNext]_vars PROVE TrackInv'
  OBVIOUS
<1> USE DEF RaceInv
<1>1. CASE TimelyBroker
  BY <1>1, BrokerKeepsTrack DEF TimelyBroker
<1>2. CASE \/ \E s \in Spectators : TimelySpectator(s)
           \/ UNCHANGED vars
  <2>1. UNCHANGED <<trackVars, brokerVars, horseVars>>
    BY <1>2, SpectatorsKeepStart DEF TimelySpectator, vars
  <2>2. /\ Started' = Started /\ Off' = Off
        /\ \A h \in HorseJockeys : LinedUp(h)' <=> LinedUp(h)
    BY <2>1 DEF trackVars, brokerVars, horseVars, Started, Off, LinedUp
  <2> QED
    BY <2>1, <2>2, OthersKeepTrack DEF trackVars, horseVars
<1>3. CASE \E h \in HorseJockeys : TimelyHorse(h)
  BY <1>3, HorseKeepsTrack DEF TimelyHorse, BetsInv
<1>4. CASE LauncherNext
  BY <1>4, LauncherKeepsTrack
<1> QED
  BY <1>1, <1>2, <1>3, <1>4 DEF TimelyNext

LEMMA RacesAreInTheirPlace ==
  ASSUME AllAreInPlace
  PROVE  Timely => []RaceInv
BY FinishesAreSupervised, TimelyIsSpec, HorsesCallTheTrackInOrder, TurnsAreOfHorses,
   StartsAreInOrder, BetsAreInOrder, ParadeIsInOrder, RacesAreInOrder, PTL DEF RaceInv

LEMMA RacesAreRun ==
  ASSUME AllAreInPlace
  PROVE  Timely => []TrackInv
BY TrackInit, TrackNext, RacesAreInTheirPlace, TimelyIsSpec, RacesAreInOrder, PTL DEF Timely

(* In an event of any size whose horses line up before the start and whose *)
(* spectators watch before the finish (here and in the following: if all   *)
(* are in place), a horse that asks and has no turn in the queue has       *)
(* crossed the line, as it is told: the next race, which may be shorter, is never set  *)
(* under horses that still run (RacingTrack.hasFinishLineBeenCrossed,      *)
(* setRace).                                                               *)
THEOREM TimelyCrossedIsRemembered ==
  ASSUME AllAreInPlace
  PROVE  TimelySpec \/ LoggedSpec => []CrossedIsRemembered
<1>1. TrackInv => CrossedIsRemembered
  BY DEF TrackInv, RunsUntilCrossed, LinedUp, CrossedIsRemembered
<1> QED
  BY <1>1, TimelyRuns, RacesAreRun, PTL

(* And it leaves no turn behind in the queue when it goes, that the others *)
(* would wait for (RacingTrack.makeAMove).                                 *)
THEOREM TimelyQueueMembers ==
  ASSUME AllAreInPlace
  PROVE  TimelySpec \/ LoggedSpec => []QueueMembers
<1>1. ASSUME TrackInv, RaceInv, NEW i \in 1 .. Len(horsesToRun)
      PROVE  horsePc[horsesToRun[i]] \in OnTheTrack
  <2>1. horsesToRun[i] \in HorseJockeys
    BY <1>1 DEF RaceInv, TrackSleepers
  <2>2. racingTrack!InQueue(horsesToRun[i])
    BY DEF racingTrack!InQueue
  <2>3. LinedUp(horsesToRun[i])
    BY <1>1, <2>1, <2>2 DEF TrackInv, RunsUntilCrossed
  <2> QED
    BY <2>3 DEF LinedUp, OnTheTrack
<1>2. TrackInv /\ RaceInv => QueueMembers
  BY <1>1 DEF QueueMembers
<1> QED
  BY <1>2, TimelyRuns, RacesAreRun, RacesAreInTheirPlace, PTL

LEMMA TrackIsUsed ==
  TrackInv /\ RaceInv /\ [Next]_vars => [racingTrack!Next]_(racingTrack!vars)
<1> SUFFICES ASSUME TrackInv, RaceInv, [Next]_vars
             PROVE  [racingTrack!Next]_(racingTrack!vars)
  OBVIOUS
<1> USE DEF RaceInv
<1>1. CASE UNCHANGED trackVars
  BY <1>1 DEF trackVars, racingTrack!vars, racingTrack!runVars, racingTrack!winnerVars
<1>2. ASSUME NEW h \in HorseJockeys, HorseLinesUp(h)
      PROVE  racingTrack!Next
  <2>1. CASE racingTrack!proceedToStartLine(h)
    <3>1. ~racingTrack!InQueue(h)
      BY <1>2, <2>1, HorseLinesUpKeepsTrack DEF racingTrack!proceedToStartLine,
         racingTrack!Outside, racingTrack!None, BetsInv
    <3> QED
      BY <2>1, <3>1 DEF racingTrack!Next
  <2>2. CASE racingTrack!resumeProceedToStartLine(h)
    BY <2>2 DEF racingTrack!Next
  <2> QED
    BY <1>2, <2>1, <2>2 DEF HorseLinesUp
<1>3. ASSUME NEW h \in HorseJockeys, HorseChecksFinishLine(h)
      PROVE  racingTrack!Next
  <2>1. numberOfFinishedHorses < NUMBER_OF_PAIRS_HORSE_JOCKEY
        /\ numberOfFinishedHorses \in Nat
    <3>1. horsePc[h] = "racingTrack.hasFinishLineBeenCrossed"
      BY <1>3 DEF HorseChecksFinishLine, HorseReturns
    <3>2. Started > batch
      BY <3>1 DEF StartInv, HasStarted
    <3> QED
      BY <1>3, <3>2, HorseChecksKeepsTrack, OffAreFew DEF TrackInv, Underway, BetsInv
  <2>2. NUMBER_OF_PAIRS_HORSE_JOCKEY <= NUMBER_OF_PAIRS_HORSE_JOCKEY * NUMBER_OF_RACES
    <3> DEFINE n == NUMBER_OF_PAIRS_HORSE_JOCKEY
    <3>1. n \in Nat /\ NUMBER_OF_RACES \in Nat \ {0}
      BY OffAreFew, ConfigurationAssumption DEF ConfigurationAssumption
    <3> HIDE DEF n
    <3>2. n <= n * NUMBER_OF_RACES
      BY <3>1
    <3> QED
      BY <3>2 DEF n
  <2>3. racingTrack!MaxFinished = NUMBER_OF_PAIRS_HORSE_JOCKEY * NUMBER_OF_RACES
    BY DEF racingTrack!MaxFinished, racingTrack!NUMBER_OF_PAIRS_HORSE_JOCKEY,
       NUMBER_OF_PAIRS_HORSE_JOCKEY, racingTrack!Cardinality, Cardinality
  <2>4. numberOfFinishedHorses < racingTrack!MaxFinished
    <3>1. NUMBER_OF_PAIRS_HORSE_JOCKEY \in Nat /\ NUMBER_OF_RACES \in Nat
      BY OffAreFew, ConfigurationAssumption DEF ConfigurationAssumption
    <3>2. NUMBER_OF_PAIRS_HORSE_JOCKEY * NUMBER_OF_RACES \in Nat
      BY <3>1
    <3> QED
      BY <2>1, <2>2, <2>3, <3>1, <3>2
  <2> QED
    BY <1>3, <2>4 DEF HorseChecksFinishLine, racingTrack!Next
<1>4. ASSUME NEW h \in HorseJockeys, HorseMoves(h)
      PROVE  racingTrack!Next
  <2>1. ~racingTrack!HasCrossed(h) /\ horseAbility[h] \in Abilities
    BY <1>4, HorseMovesKeepsTrack DEF StartInv, BatchTypes, BetsInv
  <2> QED
    BY <1>4, <2>1 DEF HorseMoves, racingTrack!Next
<1>5. CASE BrokerNext
  <2>1. CASE BrokerStartsRace
    BY <2>1 DEF BrokerStartsRace, racingTrack!Next
  <2>2. CASE BrokerSetsRace
    <3>1. race.identification + 1 \in racingTrack!Races /\ race.identification = brokerRace
      BY <2>2 DEF BrokerSetsRace, BrokerReturns, RacesInv, Races, racingTrack!Races
    <3> QED
      BY <2>2, <3>1 DEF BrokerSetsRace, racingTrack!Next
  <2> QED
    BY <1>1, <1>5, <2>1, <2>2 DEF BrokerNext, BrokerSummonsHorses, BrokerAnnouncesRace,
       BrokerAcceptsBets, BrokerSupervisesRace, BrokerReportsResults, BrokerLooksForWinners,
       BrokerHonoursBets, BrokerEntertainsGuests, InStable, InControlCentre, InBettingCentre,
       InNoRegion
<1>6. CASE \E s \in Spectators : SpectatorNext(s)
  BY <1>1, <1>6, SpectatorsKeepStart
<1>7. ASSUME NEW h \in HorseJockeys, HorseNext(h)
      PROVE  [racingTrack!Next]_(racingTrack!vars)
  BY <1>1, <1>2, <1>3, <1>4, <1>7 DEF HorseNext, HorseSetsAbility, HorseArrivesAtStable,
     HorseLeavesForPaddock, HorseParades, HorseLeavesPaddock, HorseFinishes, HorseGoesToRest,
     InStable, InControlCentre, InPaddock, InBettingCentre
<1>8. CASE LauncherNext
  BY <1>1, <1>8 DEF LauncherNext, LaunchNextBatch, LaunchHorse, InNoRegion, InStable
<1>9. CASE UNCHANGED vars
  BY <1>1, <1>9 DEF vars
<1> QED
  BY <1>5, <1>6, <1>7, <1>8, <1>9 DEF Next

(* So the horses use the track as its own specification assumes: none      *)
(* lines up while it has a turn or moves after it has crossed, and all     *)
(* that is proved of the track alone holds in the simulation, turn by turn *)
(* (proceedToStartLine, makeAMove, hasFinishLineBeenCrossed, setRace).     *)
THEOREM TimelyUsesRacingTrack ==
  ASSUME AllAreInPlace
  PROVE  TimelySpec \/ LoggedSpec => RacingTrackUse
<1>1. Init => racingTrack!Init
  BY DEF Init
<1> QED
  BY <1>1, TrackIsUsed, TimelyStep, TimelyRuns, RacesAreRun, RacesAreInTheirPlace, PTL
     DEF Timely, RacingTrackUse, racingTrack!Spec

-----------------------------------------------------------------------------
(* The meeting, step by step.                                              *)

Runners == {h \in HorseJockeys : HasCome(h, OnTheTrack \cup OffTheTrack)}
Leader == IF IsRunning /\ Finishers # {} THEN raceWinner ELSE NoHorse

LEMMA MeetingInit == Init => meeting!Init
<1> SUFFICES ASSUME Init PROVE meeting!Init
  OBVIOUS
<1>1. /\ brokerPc = "stable.summonHorsesToPaddock" /\ brokerRace = 0 /\ brokerWinner = NoHorse
      /\ batch = 0 /\ \A h \in HorseJockeys : horsePc[h] = "unborn"
      /\ \A s \in Spectators : /\ spectatorRace[s] = 0
                               /\ spectatorPc[s] = "controlCentre.waitForTheNextRace"
  BY DEF Init
<1>2. RaceToCome = 0 /\ ~IsRunning
  BY <1>1 DEF RaceToCome, IsDecided, IsRunning
<1>3. Runners = {} /\ Finishers = {}
  BY <1>1, <1>2 DEF Runners, Finishers, HasCome, OnTheTrack, OffTheTrack
<1>4. Bettors = {}
  BY <1>1, <1>2 DEF Bettors, HasBetFor
<1> QED
  BY <1>1, <1>2, <1>3, <1>4 DEF meeting!Init, Runners, Finishers, Bettors

LEMMA RaceIsRunning == BetTypes => (IsRunning <=> Started > Reported)
<1> SUFFICES ASSUME BetTypes PROVE IsRunning <=> Started > Reported
  OBVIOUS
<1>1. ASSUME IsRunning PROVE Started > Reported
  <2>1. Started = brokerRace + 1 /\ Reported = brokerRace /\ brokerRace \in Nat
    BY <1>1 DEF IsRunning, Started, Reported, BeforeAcceptance, AfterReport, BetTypes
  <2> QED
    BY <2>1
<1> QED
  BY <1>1, RaceBeingRun DEF IsRunning

(* Who has come to a place of the race is known by the batch and by those  *)
(* of its horses that are there.                                           *)
LEMMA RunnersStay ==
  ASSUME RaceToCome' = RaceToCome, batch' = batch,
         \A h \in HorseJockeys : HasLeft(h)' <=> HasLeft(h)
  PROVE  Runners' = Runners
BY DEF Runners, HasCome, HasLeft

LEMMA FinishersStay ==
  ASSUME RaceToCome' = RaceToCome, batch' = batch, Rested' = Rested
  PROVE  Finishers' = Finishers
<1>1. \A h \in HorseJockeys :
        horsePc'[h] \in {"stable.proceedToStable()", "deceased"}
          <=> horsePc[h] \in {"stable.proceedToStable()", "deceased"}
  BY DEF Rested
<1> QED
  BY <1>1 DEF Finishers, HasCome

LEMMA MeetingGoesOn ==
  ASSUME RaceToCome' = RaceToCome, Runners' = Runners, Bettors' = Bettors,
         IsRunning' = IsRunning, Finishers' = Finishers, Leader' = Leader,
         brokerWinner' = brokerWinner
  PROVE  UNCHANGED meeting!vars
BY DEF meeting!vars, Runners, Bettors, Finishers, Leader

(* The race is started when all have bet.                                  *)
LEMMA StartIsMet ==
  ASSUME SupervisionInv, TrackCalls, BetsInv, BetsInv', StartInv,
         AllAreInPlace, LineUpBeforeTheStart, BrokerStartsRace
  PROVE  meeting!Start
<1>1. BrokerNext /\ BetTypes /\ BetTypes'
  BY DEF BrokerNext, BetsInv
<1>2. /\ UNCHANGED <<horseVars, spectatorVars, finishVars>>
      /\ Reported' = Reported
      /\ brokerPc = "racingTrack.startTheRace" /\ brokerPc' = "controlCentre.startTheRace"
      /\ UNCHANGED <<brokerRace, brokerWinner>> /\ brokerRace \in Nat
  BY <1>1, BrokerStages DEF BrokerStartsRace, BrokerReturns, BrokerReportsResults, BetTypes
<1>3. RaceToCome' = RaceToCome
  BY <1>2 DEF RaceToCome, IsDecided
<1>4. ~IsRunning /\ IsRunning'
  BY <1>2 DEF IsRunning
<1>5. Runners' = Runners /\ Finishers' = Finishers
  BY <1>2, <1>3, RunnersStay, FinishersStay DEF horseVars, HasLeft, Rested
<1>6. Leader = NoHorse /\ Leader' = NoHorse
  <2>1. batch = brokerRace /\ RaceToCome = brokerRace /\ Rested = {}
    BY <1>2, StartIsPrepared DEF RaceToCome, IsDecided
  <2>2. Finishers = {}
    BY <1>2, <2>1 DEF Finishers, HasCome, Rested
  <2> QED
    BY <1>5, <2>2 DEF Leader
<1>7. Bettors = Spectators
  <2>1. Accepted = brokerRace + 1 /\ RaceToCome = brokerRace
    BY <1>2 DEF Accepted, BeforeAcceptance, RaceToCome, IsDecided
  <2>2. \A s \in Spectators : HasBetFor(s, RaceToCome)
    BY <1>2, <2>1 DEF BetsInv, SpectatorInOrder, BetsOnceForARace
  <2> QED
    BY <2>2 DEF Bettors
<1>8. Bettors' = Bettors
  BY <1>1, <1>3, BrokerKeepsBettors
<1> QED
  BY <1>2, <1>3, <1>4, <1>5, <1>6, <1>7, <1>8
     DEF meeting!Start, Runners, Finishers, Bettors, Leader

(* The winner is reported when all have finished, and nobody is on the way *)
(* to the next race.                                                       *)
LEMMA ReportIsMet ==
  ASSUME SupervisionInv, BetsInv, StartInv, ParadeInv, BrokerReportsResults
  PROVE  meeting!Report
<1>1. BrokerNext /\ BetTypes
  BY DEF BrokerNext, BetsInv
<1>2. /\ UNCHANGED <<horseVars, spectatorVars>>
      /\ brokerPc = "controlCentre.reportResults"
      /\ brokerPc' = "bettingCentre.areThereAnyWinners"
      /\ brokerWinner' = raceWinner /\ UNCHANGED brokerRace /\ brokerRace \in Nat
  BY <1>1, BrokerStages DEF BrokerReportsResults, BrokerReturns, BetTypes
<1>3. /\ RaceToCome = brokerRace /\ RaceToCome' = RaceToCome + 1
      /\ Started = brokerRace + 1 /\ Reported = brokerRace
      /\ Announced = brokerRace + 1
  BY <1>2 DEF RaceToCome, IsDecided, Started, Reported, Announced, BeforeAcceptance, AfterReport
<1>4. IsRunning /\ ~IsRunning'
  BY <1>2 DEF IsRunning
<1>5. /\ \A s \in Spectators : Watches(s, brokerRace)
      /\ batch >= brokerRace /\ (batch = brokerRace => Rested = HorseJockeys)
      /\ batch <= brokerRace + 1 /\ batch \in Nat
  <2>1. FinishersAreCounted
    BY <1>2, <1>3 DEF SupervisionInv
  <2> QED
    BY <1>2, <1>3, <2>1, WatchersAreThere, RestedAreFew
       DEF FinishersAreCounted, CountsMatch, AllWatch, StartInv, BatchTypes
<1>6. Finishers = HorseJockeys
  BY <1>2, <1>3, <1>5 DEF Finishers, HasCome, Rested
<1>7. ASSUME NEW h \in HorseJockeys, batch = brokerRace + 1 PROVE ~HasLeft(h)
  <2>1. PICK s \in Spectators : TRUE
    BY ConfigurationAssumption DEF ConfigurationAssumption
  <2>2. spectatorRace[s] = brokerRace /\ spectatorPc[s] \in SpectatorPcs
        /\ centreCall[s] = "goWatchTheRace"
    BY <1>5 DEF Watches, BetsInv, BetTypes
  <2>3. Counted(s) <= brokerRace + 1
    BY <1>2, <2>2 DEF Counted
  <2>4. Told <= Counted(s) /\ Told \in Nat /\ Counted(s) \in Nat
    BY ParadeProgress DEF ParadeInv, SpectatorKeepsPace
  <2>5. Told # batch + 1
    BY <1>2, <1>7, <2>3, <2>4
  <2>6. HasLeft(h) => LeftTheParade(h)
    BY DEF HasLeft, LeftTheParade
  <2> QED
    BY <2>5, <2>6 DEF ParadeInv, ParadeEnds
<1>8. Runners' = {}
  <2>1. ASSUME NEW h \in HorseJockeys PROVE ~HasCome(h, OnTheTrack \cup OffTheTrack)'
    BY <1>2, <1>3, <1>5, <1>7 DEF HasCome, HasLeft, horseVars
  <2> QED
    BY <2>1 DEF Runners
<1>9. Finishers' = {}
  <2>1. Finishers' \subseteq Runners'
    BY DEF Finishers, Runners, HasCome, OffTheTrack
  <2> QED
    BY <1>8, <2>1
<1>10. Bettors' = {}
  <2>1. ASSUME NEW s \in Spectators PROVE ~HasBetFor(s, RaceToCome)'
    <3>1. spectatorRace'[s] = brokerRace
      BY <1>2, <1>5 DEF Watches, spectatorVars
    <3> QED
      BY <1>2, <1>3, <3>1 DEF HasBetFor
  <2> QED
    BY <2>1 DEF Bettors
<1>11. Leader' = NoHorse /\ brokerWinner' = Leader /\ IsRunning' = FALSE
  BY <1>2, <1>4, <1>6, ConfigurationAssumption DEF Leader, IsRunning, ConfigurationAssumption
<1> QED
  BY <1>3, <1>6, <1>8, <1>9, <1>10, <1>11
     DEF meeting!Report, Runners, Finishers, Bettors, Leader

LEMMA BrokerIsMet ==
  ASSUME SupervisionInv, TrackCalls, BetsInv, BetsInv', StartInv, ParadeInv,
         AllAreInPlace, LineUpBeforeTheStart, BrokerNext
  PROVE  [meeting!Next]_(meeting!vars)
<1>1. CASE BrokerStartsRace
  BY <1>1, StartIsMet DEF meeting!Next
<1>2. CASE BrokerReportsResults
  BY <1>2, ReportIsMet DEF meeting!Next
<1>3. CASE ~BrokerStartsRace /\ ~BrokerReportsResults
  <2>1. /\ UNCHANGED <<horseVars, finishVars>>
        /\ Started' = Started /\ Reported' = Reported
        /\ UNCHANGED brokerWinner
    BY <1>3, BrokerStages, BrokerLeavesBets DEF BetsInv
  <2>2. RaceToCome' = RaceToCome
    <3>1. RaceToCome' = Reported'
      BY DEF RaceToCome, IsDecided, Reported, AfterReport
    <3> QED
      BY <2>1, <3>1, RaceToComeIsReported
  <2>3. IsRunning' = IsRunning
    <3> USE DEF BrokerReturns, IsRunning
    <3>1. CASE BrokerSupervisesRace
      BY <3>1 DEF BrokerSupervisesRace
    <3>2. CASE BrokerSummonsHorses \/ BrokerAnnouncesRace \/ BrokerAcceptsBets
      BY <3>2 DEF BrokerSummonsHorses, BrokerAnnouncesRace, BrokerAcceptsBets
    <3>3. CASE BrokerLooksForWinners \/ BrokerHonoursBets
      BY <3>3 DEF BrokerLooksForWinners, BrokerHonoursBets, AfterTheBets
    <3>4. CASE BrokerSetsRace
      BY <3>4 DEF BrokerSetsRace
    <3>5. CASE BrokerEntertainsGuests
      <4>1. /\ brokerPc = "controlCentre.entertainTheGuests"
            /\ brokerPc' \notin {"controlCentre.startTheRace", "controlCentre.reportResults"}
        BY <3>5 DEF BrokerEntertainsGuests
      <4> QED
        BY <4>1
    <3> QED
      BY <1>3, <3>1, <3>2, <3>3, <3>4, <3>5 DEF BrokerNext
  <2>4. Runners' = Runners /\ Finishers' = Finishers
    BY <2>1, <2>2, RunnersStay, FinishersStay DEF horseVars, HasLeft, Rested
  <2>5. Bettors' = Bettors
    BY <2>2, BrokerKeepsBettors DEF BetsInv
  <2>6. Leader' = Leader
    BY <2>1, <2>3, <2>4 DEF Leader, finishVars
  <2> QED
    BY <2>1, <2>2, <2>3, <2>4, <2>5, <2>6, MeetingGoesOn
<1> QED
  BY <1>1, <1>2, <1>3

(* Nobody but a spectator that hands in its bet becomes a bettor.          *)
LEMMA BettorsBet ==
  ASSUME MoneyInv, BetsInv, NEW s \in Spectators, SpectatorNext(s)
  PROVE  \/ SpectatorPlacesBet(s) /\ bettingCall[s] = "none"
         \/ HasBetFor(s, RaceToCome)' <=> HasBetFor(s, RaceToCome)
<1>1. RaceToCome' = RaceToCome
  BY SpectatorIsSeen
<1>2. RaceToCome \in Nat /\ spectatorRace[s] \in Nat
  BY PhaseOfTheBroker
<1>3. CASE SpectatorPlacesBet(s) /\ bettingCall[s] # "none"
  <2>1. /\ spectatorPc[s] = "bettingCentre.placeABet" /\ UNCHANGED spectatorRace
        /\ \/ spectatorPc'[s] = "controlCentre.goWatchTheRace"
           \/ spectatorPc'[s] = "bettingCentre.placeABet" /\ bettingCall'[s] # "none"
    BY <1>3 DEF SpectatorPlacesBet, SpectatorReturns, BettingCentreAnswers, BetsInv, BetTypes
  <2> QED
    BY <1>1, <1>3, <2>1 DEF HasBetFor
<1>4. ASSUME \/ spectatorPc[s] = "bettingCentre.haveIWon" /\ spectatorRace[s] < RaceToCome
             \/ /\ spectatorPc[s] = "bettingCentre.goCollectTheGains"
                /\ spectatorRace[s] < RaceToCome,
             \/ UNCHANGED spectatorRace
             \/ /\ spectatorRace' = [spectatorRace EXCEPT ![s] = @ + 1]
                /\ spectatorPc'[s] = AfterTheRace(s)
      PROVE  HasBetFor(s, RaceToCome)' <=> HasBetFor(s, RaceToCome)
  <2>1. ~HasBetFor(s, RaceToCome)
    BY <1>2, <1>4 DEF HasBetFor
  <2>2. CASE UNCHANGED spectatorRace
    BY <1>1, <1>2, <1>4, <2>1, <2>2 DEF HasBetFor
  <2>3. CASE /\ spectatorRace' = [spectatorRace EXCEPT ![s] = @ + 1]
             /\ spectatorPc'[s] = AfterTheRace(s)
    <3>1. spectatorRace'[s] = spectatorRace[s] + 1
      BY <2>3 DEF BetsInv, BetTypes
    <3>2. spectatorPc'[s] \in {"controlCentre.relaxABit", "controlCentre.waitForTheNextRace"}
      BY <2>3 DEF AfterTheRace
    <3>3. spectatorRace'[s] <= RaceToCome
      BY <1>2, <1>4, <3>1
    <3>4. ~HasBetFor(s, RaceToCome)'
      BY <1>1, <1>2, <3>1, <3>2, <3>3 DEF HasBetFor
    <3> QED
      BY <2>1, <3>4
  <2> QED
    BY <1>4, <2>2, <2>3
<1>5. /\ spectatorPc[s] = "bettingCentre.haveIWon" => spectatorRace[s] < RaceToCome
      /\ spectatorPc[s] = "bettingCentre.goCollectTheGains" => spectatorRace[s] < RaceToCome
  <2>1. Decided <= Reported /\ Decided \in Nat /\ Reported \in Nat /\ RaceToCome = Reported
    BY BrokerProgress, RaceToComeIsReported DEF BetsInv
  <2> QED
    BY <1>2, <2>1 DEF BetsInv, SpectatorInOrder, FollowsTheBroker
<1>6. CASE SpectatorAsksResult(s)
  BY <1>4, <1>5, <1>6, ResultIsTold
<1>7. CASE SpectatorCollectsGains(s)
  BY <1>4, <1>5, <1>7, GainsArePaid
<1>8. CASE ~SpectatorPlacesBet(s) /\ ~SpectatorAsksResult(s) /\ ~SpectatorCollectsGains(s)
  <2>1. /\ UNCHANGED <<spectatorRace, bettingVars>>
        /\ \A r : HasBetFor(s, r)' <=> HasBetFor(s, r)
    BY <1>8, SpectatorRacesOn
  <2> QED
    BY <1>1, <2>1 DEF HasBetFor
<1> QED
  BY <1>3, <1>6, <1>7, <1>8

(* A spectator bets once, and has seen all the horses.                     *)
LEMMA BetIsMet ==
  ASSUME MoneyInv, BetsInv, StartInv, ParadeInv, AppraisalInv, NEW s \in Spectators,
         SpectatorPlacesBet(s), bettingCall[s] = "none"
  PROVE  /\ ~HasBetFor(s, RaceToCome) /\ HasBetFor(s, RaceToCome)'
         /\ Runners = HorseJockeys
<1>0. SpectatorNext(s) /\ spectatorPc[s] = "bettingCentre.placeABet" /\ UNCHANGED spectatorRace
  BY DEF SpectatorNext, SpectatorPlacesBet, SpectatorReturns
<1>1. RaceToCome' = RaceToCome
  BY <1>0, SpectatorIsSeen
<1>2. /\ RaceToCome \in Nat /\ Accepted \in Nat /\ spectatorRace[s] \in Nat
      /\ spectatorRace[s] <= RaceToCome /\ RaceToCome <= Accepted
      /\ Accepted > 0 => HasBetFor(s, Accepted - 1)
      /\ Accepted = RaceToCome + 1 => HasBetFor(s, RaceToCome)
  BY PhaseOfTheBroker, BrokerProgress, RaceToComeIsReported
     DEF BetsInv, SpectatorInOrder, BetsOnceForARace
<1>3. ASSUME NEW r, HasBetFor(s, r) PROVE spectatorRace[s] > r
  BY <1>0, <1>3 DEF HasBetFor
<1>4. spectatorRace[s] = RaceToCome
  BY <1>2, <1>3
<1>5. ~HasBetFor(s, RaceToCome)
  BY <1>2, <1>3, <1>4
<1>6. \/ spectatorPc'[s] = "controlCentre.goWatchTheRace"
      \/ spectatorPc'[s] = "bettingCentre.placeABet" /\ bettingCall'[s] = "placeABet"
  BY BetIsRecorded
<1>7. HasBetFor(s, RaceToCome)'
  BY <1>0, <1>1, <1>4, <1>6 DEF HasBetFor
<1>8. Runners = HorseJockeys
  <2>1. Passed(s) = spectatorRace[s] + 1 /\ Passed(s) <= Paraded
    BY <1>0 DEF Passed, BetweenRaces, ParadeInv, SpectatorKeepsPace
  <2>2. batch >= spectatorRace[s] /\ batch \in Nat
    BY <1>2, <2>1, ParadeProgress
  <2>3. batch = spectatorRace[s] => \A h \in HorseJockeys : HasLeft(h)
    BY <1>0 DEF AppraisalInv
  <2> QED
    BY <1>2, <1>4, <2>2, <2>3 DEF Runners, HasCome, HasLeft
<1> QED
  BY <1>5, <1>7, <1>8

LEMMA SpectatorIsMet ==
  ASSUME MoneyInv, BetsInv, BetsInv', StartInv, ParadeInv, AppraisalInv, SupervisionInv,
         NEW s \in Spectators, SpectatorNext(s)
  PROVE  [meeting!Next]_(meeting!vars)
<1>1. /\ RaceToCome' = RaceToCome /\ UNCHANGED brokerVars
      /\ \A t \in Spectators \ {s} : HasBetFor(t, RaceToCome)' <=> HasBetFor(t, RaceToCome)
  BY SpectatorIsSeen
<1>2. UNCHANGED horseVars
  BY SpectatorsKeepStart
<1>3. Runners' = Runners /\ Finishers' = Finishers
  BY <1>1, <1>2, RunnersStay, FinishersStay DEF horseVars, HasLeft, Rested
<1>4. IsRunning' = IsRunning /\ brokerWinner' = brokerWinner
  BY <1>1 DEF IsRunning, brokerVars
<1>5. Leader' = Leader
  <2>1. ASSUME IsRunning, Finishers # {} PROVE UNCHANGED finishVars
    <3>1. Started > Reported /\ RaceToCome = Reported
      BY <2>1, RaceIsRunning, RaceToComeIsReported DEF BetsInv
    <3>2. ~(batch = Reported /\ Rested = {})
      <4>1. SUFFICES ASSUME batch = Reported, Rested = {} PROVE FALSE
        OBVIOUS
      <4>2. batch = RaceToCome /\ ~(batch > RaceToCome)
        BY <3>1, <4>1 DEF StartInv, BatchTypes
      <4> QED
        BY <2>1, <4>1, <4>2 DEF Finishers, HasCome, Rested
    <3>3. Watches(s, Reported)
      BY <3>1, <3>2 DEF SupervisionInv, FinishersAreCounted, AllWatch
    <3> QED
      BY <3>1, <3>3, WatchersStay
  <2> QED
    BY <1>3, <1>4, <2>1 DEF Leader, finishVars
<1>6. CASE HasBetFor(s, RaceToCome)' <=> HasBetFor(s, RaceToCome)
  <2>1. Bettors' = Bettors
    BY <1>1, <1>6 DEF Bettors
  <2> QED
    BY <1>1, <1>3, <1>4, <1>5, <2>1, MeetingGoesOn
<1>7. CASE SpectatorPlacesBet(s) /\ bettingCall[s] = "none"
  <2>1. /\ ~HasBetFor(s, RaceToCome) /\ HasBetFor(s, RaceToCome)'
        /\ Runners = HorseJockeys
    BY <1>7, BetIsMet
  <2>2. s \notin Bettors /\ Bettors' = Bettors \cup {s}
    BY <1>1, <2>1 DEF Bettors
  <2>3. meeting!Bet(s)
    BY <1>1, <1>3, <1>4, <1>5, <2>1, <2>2 DEF meeting!Bet, Runners, Finishers, Bettors, Leader
  <2> QED
    BY <2>3 DEF meeting!Next
<1> QED
  BY <1>6, <1>7, BettorsBet

(* What horses and launcher leave alone.                                   *)
LEMMA OthersDoNotMeet ==
  ASSUME UNCHANGED bookVars
  PROVE  /\ RaceToCome' = RaceToCome /\ Reported' = Reported /\ Bettors' = Bettors
         /\ IsRunning' = IsRunning /\ brokerWinner' = brokerWinner
<1>1. /\ UNCHANGED <<spectatorRace, spectatorPc, brokerPc, brokerRace, bettingCall>>
      /\ UNCHANGED brokerWinner
  BY DEF bookVars, betsVars
<1>2. RaceToCome' = RaceToCome /\ IsRunning' = IsRunning /\ Reported' = Reported
  BY <1>1 DEF RaceToCome, IsDecided, IsRunning, Reported
<1>3. \A s \in Spectators : HasBetFor(s, RaceToCome)' <=> HasBetFor(s, RaceToCome)
  BY <1>1, <1>2 DEF HasBetFor
<1>4. Bettors' = Bettors
  BY <1>3 DEF Bettors
<1> QED
  BY <1>1, <1>2, <1>4

(* A horse leaves the paddock for the race to come, or for one that starts *)
(* as soon as the results of the race before are reported.                 *)
LEMMA DepartureIsMet ==
  ASSUME SupervisionInv, StartInv, BetsInv, RacesInv, NEW h \in HorseJockeys,
         HorseLeavesPaddock(h), UNCHANGED <<bookVars, finishVars>>
  PROVE  [meeting!Next]_(meeting!vars)
<1>1. /\ horsePc[h] = "paddock.proceedToStartLine"
      /\ horsePc'[h] = "racingTrack.proceedToStartLine"
      /\ \A g \in HorseJockeys \ {h} : horsePc'[g] = horsePc[g]
      /\ UNCHANGED batch /\ batch \in Nat
  BY DEF HorseLeavesPaddock, HorseReturns, StartInv, BatchTypes
<1>2. /\ ~HasLeft(h) /\ HasLeft(h)' /\ h \notin Rested
      /\ \A g \in HorseJockeys \ {h} : HasLeft(g)' <=> HasLeft(g)
      /\ Rested' = Rested
  BY <1>1 DEF HasLeft, OnTheTrack, OffTheTrack, Rested
<1>3. batch >= Reported /\ Reported \in Nat /\ RaceToCome = Reported
  BY <1>1, <1>2, RaceBeingRun, RaceToComeIsReported
     DEF SupervisionInv, EarlierAreAtRest, BetsInv
<1>4. /\ RaceToCome' = RaceToCome /\ Bettors' = Bettors
      /\ IsRunning' = IsRunning /\ brokerWinner' = brokerWinner
  BY OthersDoNotMeet
<1>5. Finishers' = Finishers /\ Leader' = Leader
  BY <1>1, <1>2, <1>4, FinishersStay DEF Leader, finishVars
<1>6. CASE batch > RaceToCome
  <2>1. Runners' = Runners
    BY <1>1, <1>4, <1>6 DEF Runners, HasCome
  <2> QED
    BY <1>4, <1>5, <2>1, MeetingGoesOn
<1>7. CASE batch = RaceToCome
  <2>1. h \notin Runners /\ Runners' = Runners \cup {h}
    <3>1. ~(batch > RaceToCome)
      BY <1>1, <1>7
    <3>2. /\ \A g \in HorseJockeys : HasCome(g, OnTheTrack \cup OffTheTrack) <=> HasLeft(g)
          /\ \A g \in HorseJockeys : HasCome(g, OnTheTrack \cup OffTheTrack)' <=> HasLeft(g)'
      BY <1>1, <1>4, <1>7, <3>1 DEF HasCome, HasLeft
    <3> QED
      BY <1>2, <3>2 DEF Runners
  <2>2. RaceToCome \in meeting!Races
    BY <1>7 DEF RacesInv, meeting!Races, Races
  <2>3. meeting!LeavePaddock(h)
    BY <1>4, <1>5, <2>1, <2>2 DEF meeting!LeavePaddock, Runners, Finishers, Bettors, Leader
  <2> QED
    BY <2>3 DEF meeting!Next
<1> QED
  BY <1>1, <1>3, <1>6, <1>7

(* A horse finishes, the first of the race as its winner.                  *)
LEMMA FinishIsMet ==
  ASSUME SupervisionInv, StartInv, BetsInv, AllAreInPlace,
         NEW h \in HorseJockeys, WatchBeforeTheFinish(h), HorseFinishes(h),
         UNCHANGED bookVars
  PROVE  [meeting!Next]_(meeting!vars)
<1>1. /\ horsePc[h] = "controlCentre.makeAMove"
      /\ horsePc'[h] = "stable.proceedToStable()"
      /\ \A g \in HorseJockeys \ {h} : horsePc'[g] = horsePc[g]
      /\ UNCHANGED batch /\ batch \in Nat
  BY DEF HorseFinishes, HorseReturns, StartInv, BatchTypes
<1>2. /\ h \notin Rested /\ Rested' = Rested \cup {h}
      /\ \A g \in HorseJockeys : HasLeft(g)' <=> HasLeft(g)
  BY <1>1 DEF HasLeft, OnTheTrack, OffTheTrack, Rested
<1>3. /\ Started > batch /\ Started \in Nat /\ Reported \in Nat
      /\ Reported <= Started /\ Started <= Reported + 1
  <2>1. Started > batch
    BY <1>1 DEF StartInv, HasStarted, OffTheTrack
  <2> QED
    BY <2>1, RaceBeingRun DEF BetsInv
<1>4. Started > Reported /\ batch = Reported
  BY <1>1, <1>2, <1>3 DEF SupervisionInv, EarlierAreAtRest
<1>5. finishedHorses = Cardinality(Rested)
  <2>1. \A s \in Spectators : centreCall[s] = "goWatchTheRace"
    BY <1>1 DEF WatchBeforeTheFinish, AllAreInPlace
  <2>2. SomebodyWatches
    BY <1>4, <2>1, WatchersWatchThisRace, WatchersAreThere DEF AllWatch
  <2> QED
    BY <1>4, <2>2 DEF SupervisionInv, FinishersAreCounted, CountsMatch
<1>6. raceWinner' = IF Rested = {} THEN h ELSE raceWinner
  <2>1. raceWinner' = IF finishedHorses = 0 THEN h ELSE raceWinner
    BY DEF HorseFinishes, controlCentre!makeAMove
  <2>2. Cardinality(Rested) = 0 <=> Rested = {}
    BY RestedAreFew, FS_EmptySet
  <2> QED
    BY <1>5, <2>1, <2>2
<1>7. /\ RaceToCome' = RaceToCome /\ Bettors' = Bettors
      /\ IsRunning' = IsRunning /\ brokerWinner' = brokerWinner
  BY OthersDoNotMeet
<1>8. RaceToCome = Reported /\ IsRunning
  BY <1>4, RaceToComeIsReported, RaceIsRunning DEF BetsInv
<1>9. Runners' = Runners
  BY <1>1, <1>2, <1>7, RunnersStay
<1>10. Finishers = Rested /\ Finishers' = Rested'
  <2>1. batch = RaceToCome /\ ~(batch > RaceToCome)
        /\ batch' = RaceToCome' /\ ~(batch' > RaceToCome')
    BY <1>1, <1>4, <1>7, <1>8
  <2> QED
    BY <2>1 DEF Finishers, HasCome, Rested
<1>11. /\ Leader = IF Rested = {} THEN NoHorse ELSE raceWinner
       /\ Leader' = raceWinner'
  BY <1>2, <1>7, <1>8, <1>10 DEF Leader
<1>12. meeting!Finish(h)
  BY <1>2, <1>6, <1>7, <1>8, <1>9, <1>10, <1>11
     DEF meeting!Finish, Runners, Finishers, Bettors, Leader
<1> QED
  BY <1>12 DEF meeting!Next

LEMMA HorseIsMet ==
  ASSUME SupervisionInv, StartInv, BetsInv, RacesInv, AllAreInPlace,
         NEW h \in HorseJockeys, WatchBeforeTheFinish(h), HorseNext(h)
  PROVE  [meeting!Next]_(meeting!vars)
<1> USE DEF HorseReturns
<1>0. UNCHANGED bookVars
  BY OthersLeaveBooks
<1>1. CASE HorseFinishes(h)
  BY <1>0, <1>1, FinishIsMet
<1>2. CASE ~HorseFinishes(h)
  <2>1. UNCHANGED finishVars
    BY <1>2 DEF HorseNext, HorseSetsAbility, HorseArrivesAtStable, HorseLeavesForPaddock,
       HorseParades, HorseLeavesPaddock, HorseLinesUp, HorseChecksFinishLine, HorseMoves,
       HorseGoesToRest, InBettingCentre, InStable, InPaddock, InRacingTrack, centreVars,
       finishVars, controlCentre!proceedToPaddock, controlCentre!raceVars
  <2>2. CASE HorseLeavesPaddock(h)
    BY <1>0, <2>1, <2>2, DepartureIsMet
  <2>3. CASE ~HorseLeavesPaddock(h)
    <3>1. UNCHANGED batch
      BY <1>2, <2>3 DEF HorseNext, HorseSetsAbility, HorseArrivesAtStable,
         HorseLeavesForPaddock, HorseParades, HorseLinesUp, HorseChecksFinishLine, HorseMoves,
         HorseGoesToRest
    <3>2. \E pc : /\ horsePc' = [horsePc EXCEPT ![h] = pc]
                  /\ pc \in {"stable.proceedToStable()", "deceased"}
                       <=> horsePc[h] \in {"stable.proceedToStable()", "deceased"}
                  /\ pc \in OnTheTrack \cup OffTheTrack
                       <=> horsePc[h] \in OnTheTrack \cup OffTheTrack
      <4>1. CASE \/ HorseSetsAbility(h) \/ HorseArrivesAtStable(h) \/ HorseLeavesForPaddock(h)
                 \/ HorseParades(h)
        BY <4>1 DEF HorseSetsAbility, HorseArrivesAtStable, HorseLeavesForPaddock,
           HorseParades, OnTheTrack, OffTheTrack
      <4>2. CASE \/ HorseLinesUp(h) \/ HorseChecksFinishLine(h) \/ HorseMoves(h)
                 \/ HorseGoesToRest(h)
        BY <4>2 DEF HorseLinesUp, HorseChecksFinishLine, HorseMoves, HorseGoesToRest,
           OnTheTrack, OffTheTrack
      <4> QED
        BY <1>2, <2>3, <4>1, <4>2 DEF HorseNext
    <3>3. \A g \in HorseJockeys : HasLeft(g)' <=> HasLeft(g)
      BY <3>2 DEF HasLeft, StartInv, BatchTypes
    <3>4. Rested' = Rested
      BY <3>2 DEF Rested, StartInv, BatchTypes
    <3>5. /\ RaceToCome' = RaceToCome /\ Bettors' = Bettors
          /\ IsRunning' = IsRunning /\ brokerWinner' = brokerWinner
      BY <1>0, OthersDoNotMeet
    <3>6. Runners' = Runners /\ Finishers' = Finishers /\ Leader' = Leader
      BY <2>1, <3>1, <3>3, <3>4, <3>5, RunnersStay, FinishersStay DEF Leader, finishVars
    <3> QED
      BY <3>5, <3>6, MeetingGoesOn
  <2> QED
    BY <2>2, <2>3
<1> QED
  BY <1>1, <1>2

(* A batch that is born has not left the paddock; the one before it has.   *)
LEMMA LauncherIsMet ==
  ASSUME StartInv, BetsInv, LauncherNext
  PROVE  UNCHANGED meeting!vars
<1>0. UNCHANGED <<bookVars, finishVars>>
  BY OthersLeaveBooks DEF LauncherNext, LaunchNextBatch, LaunchHorse, InNoRegion, InStable,
     centreVars, finishVars
<1>1. /\ RaceToCome' = RaceToCome /\ Bettors' = Bettors /\ IsRunning' = IsRunning
      /\ brokerWinner' = brokerWinner
      /\ Finishers' = Finishers => Leader' = Leader
  BY <1>0, OthersDoNotMeet DEF Leader, finishVars
<1>2. CASE LaunchNextBatch
  <2>1. /\ batch' = batch + 1 /\ batch \in Nat /\ RaceToCome \in Nat
        /\ \A h \in HorseJockeys : horsePc[h] = "deceased" /\ horsePc'[h] = "unborn"
    BY <1>2, PhaseOfTheBroker DEF LaunchNextBatch, StartInv, BatchTypes
  <2>2. ASSUME NEW P, "deceased" \in P, "unborn" \notin P, NEW h \in HorseJockeys
        PROVE  (batch' > RaceToCome' \/ (batch' = RaceToCome' /\ horsePc'[h] \in P))
                 <=> (batch > RaceToCome \/ (batch = RaceToCome /\ horsePc[h] \in P))
    <3>1. horsePc[h] \in P /\ horsePc'[h] \notin P
      BY <2>1, <2>2
    <3>2. batch' > RaceToCome' <=> batch > RaceToCome \/ batch = RaceToCome
      BY <1>1, <2>1
    <3> QED
      BY <3>1, <3>2
  <2>3. Runners' = Runners
    BY <2>2 DEF Runners, HasCome, OnTheTrack, OffTheTrack
  <2>4. Finishers' = Finishers
    BY <2>2 DEF Finishers, HasCome
  <2> QED
    BY <1>1, <2>3, <2>4, MeetingGoesOn
<1>3. ASSUME NEW h \in HorseJockeys, LaunchHorse(h)
      PROVE  UNCHANGED meeting!vars
  <2>1. /\ horsePc[h] = "unborn" /\ horsePc'[h] = "bettingCentre.setAbility"
        /\ \A g \in HorseJockeys \ {h} : horsePc'[g] = horsePc[g]
        /\ UNCHANGED batch
    BY <1>3 DEF LaunchHorse, StartInv, BatchTypes
  <2>2. \A g \in HorseJockeys : HasLeft(g)' <=> HasLeft(g)
    BY <2>1 DEF HasLeft, OnTheTrack, OffTheTrack
  <2>3. Rested' = Rested
    BY <2>1 DEF Rested
  <2>4. Runners' = Runners /\ Finishers' = Finishers
    BY <1>1, <2>1, <2>2, <2>3, RunnersStay, FinishersStay
  <2> QED
    BY <1>1, <2>4, MeetingGoesOn
<1> QED
  BY <1>2, <1>3 DEF LauncherNext

LEMMA MeetingNext ==
  ASSUME HorsesParadeInTime, AllAreInPlace,
         AppraisalInv, SupervisionInv, TrackCalls, MoneyInv, RacesInv,
         BetsInv, BetsInv', StartInv, ParadeInv, [TimelyNext]_vars
  PROVE  [meeting!Next]_(meeting!vars)
<1>1. CASE TimelyBroker
  BY <1>1, BrokerIsMet DEF TimelyBroker
<1>2. CASE \E s \in Spectators : TimelySpectator(s)
  BY <1>2, SpectatorIsMet DEF TimelySpectator
<1>3. CASE \E h \in HorseJockeys : TimelyHorse(h)
  BY <1>3, HorseIsMet DEF TimelyHorse
<1>4. CASE LauncherNext
  BY <1>4, LauncherIsMet
<1>5. CASE UNCHANGED vars
  <2>1. UNCHANGED <<bookVars, finishVars, horseVars>>
    BY <1>5, OthersLeaveBooks DEF vars, centreVars, finishVars
  <2>2. /\ RaceToCome' = RaceToCome /\ Bettors' = Bettors /\ IsRunning' = IsRunning
        /\ brokerWinner' = brokerWinner
    BY <2>1, OthersDoNotMeet
  <2>3. Runners' = Runners /\ Finishers' = Finishers
    BY <2>1, <2>2, RunnersStay, FinishersStay DEF horseVars, HasLeft, Rested
  <2>4. Leader' = Leader
    BY <2>1, <2>2, <2>3 DEF Leader, finishVars
  <2> QED
    BY <2>2, <2>3, <2>4, MeetingGoesOn
<1> QED
  BY <1>1, <1>2, <1>3, <1>4, <1>5 DEF TimelyNext

(* The event is the meeting its spectators see, in an event of any size,   *)
(* as soon as the horses come to the paddock before the appraisal, line up *)
(* before the start and are watched at the finish: in each race every spectator has seen all   *)
(* the horses when it bets, the race is started after the bets, and the    *)
(* broker reports the first horse to finish when the last one has          *)
(* (Paddock.goCheckHorses, ControlCentre.goWatchTheRace, makeAMove,        *)
(* startTheRace, reportResults).                                           *)
THEOREM TimelyMeetingKeepsOrder ==
  ASSUME HorsesParadeInTime, AllAreInPlace
  PROVE  TimelySpec \/ LoggedSpec => MeetingKeepsOrder
<1>1. ASSUME AppraisalInv, SupervisionInv, TrackCalls, MoneyInv, RacesInv,
             BetsInv, BetsInv', StartInv, ParadeInv, [TimelyNext]_vars
      PROVE  [meeting!Next]_(meeting!vars)
  BY <1>1, MeetingNext
<1> QED
  BY <1>1, MeetingInit, TimelyRuns, TimelyIsSpec, AppraisalsLast, FinishesAreSupervised,
     HorsesCallTheTrackInOrder, MoneyIsCovered, RacesAreInOrder, BetsAreInOrder,
     StartsAreInOrder, ParadeIsInOrder, PTL DEF Timely, MeetingKeepsOrder

-----------------------------------------------------------------------------
(* The records of the log (GeneralInformationRepository).                  *)

Selections == [betSelection : HorseJockeys \cup {NoHorse}, betAmount : Nat]

RunRecords ==
  [ability : Nat, probabilityToWin : Nat, numberOfIncrementsDid : Nat,
   positionOnTrack : Nat, finalStandPosition : Nat]

Records ==
  [brokerStatus : repository!BrokerStates,
   spectatorStatus : [Spectators -> repository!SpectatorStates],
   amountOfMoney : [Spectators -> Nat],
   spectators : [Spectators -> Selections],
   temporarySpectators : [Spectators -> Selections],
   horseJockeyStatus : [HorseJockeys -> repository!HorseJockeyStates],
   horseJockeys : [HorseJockeys -> RunRecords],
   currentRace : [identification : Races, distance : Distances]]

(* What two states of the records agree on: the columns of a spectator,    *)
(* where a horse is after how many moves, and its place at the finish.     *)
SameColumns(n, r, s) ==
  /\ n.spectatorStatus[s] = r.spectatorStatus[s]
  /\ n.spectators[s] = r.spectators[s]
  /\ n.temporarySpectators[s] = r.temporarySpectators[s]

SamePlace(n, r, h) ==
  /\ n.horseJockeys[h].positionOnTrack = r.horseJockeys[h].positionOnTrack
  /\ n.horseJockeys[h].numberOfIncrementsDid = r.horseJockeys[h].numberOfIncrementsDid

SameStand(n, r, h) ==
  n.horseJockeys[h].finalStandPosition = r.horseJockeys[h].finalStandPosition

SameBook(n, r) == \A s \in Spectators : SameColumns(n, r, s)
SameRuns(n, r) == \A h \in HorseJockeys : SamePlace(n, r, h) /\ SameStand(n, r, h)

LEMMA RaceIsRecorded ==
  ASSUME NEW r \in Records, NEW race1 \in [identification : Races, distance : Distances]
  PROVE  LET n == repository!setRace(r, race1)
         IN n \in Records /\ SameBook(n, r) /\ SameRuns(n, r)
BY DEF repository!setRace, Records, SameBook, SameRuns, SameColumns, SamePlace, SameStand

LEMMA BrokerStatusIsRecorded ==
  ASSUME NEW r \in Records, NEW status \in repository!BrokerStates
  PROVE  LET n == repository!setBrokerStatus(r, status)
         IN n \in Records /\ SameBook(n, r) /\ SameRuns(n, r)
BY DEF repository!setBrokerStatus, Records, SameBook, SameRuns, SameColumns, SamePlace, SameStand

LEMMA StatusIsRecorded ==
  ASSUME NEW r \in Records, NEW s \in Spectators, NEW status \in repository!SpectatorStates
  PROVE  LET n == repository!setSpectatorStatus(r, s, status)
         IN /\ n \in Records /\ SameRuns(n, r)
            /\ n.spectatorStatus[s] = status
            /\ n.spectators[s] = r.spectators[s]
            /\ n.temporarySpectators[s] = r.temporarySpectators[s]
            /\ \A t \in Spectators \ {s} : SameColumns(n, r, t)
BY DEF repository!setSpectatorStatus, Records, SameRuns, SameColumns, SamePlace, SameStand

LEMMA MoneyIsRecorded ==
  ASSUME NEW r \in Records, NEW s \in Spectators, NEW amount \in Nat
  PROVE  LET n == repository!setSpectatorAmountOfMoney(r, s, amount)
         IN n \in Records /\ SameBook(n, r) /\ SameRuns(n, r)
BY DEF repository!setSpectatorAmountOfMoney, Records, SameBook, SameRuns, SameColumns,
   SamePlace, SameStand

LEMMA BetIsCopiedWhenRecorded ==
  ASSUME NEW r \in Records, NEW s \in Spectators,
         NEW horse \in HorseJockeys \cup {NoHorse}, NEW amount \in Nat
  PROVE  LET n == repository!setSpectatorBet(r, s, horse, amount)
             bet == [betSelection |-> horse, betAmount |-> amount]
         IN /\ n \in Records /\ SameRuns(n, r)
            /\ n.spectatorStatus[s] = r.spectatorStatus[s]
            /\ n.spectators[s] = bet /\ n.temporarySpectators[s] = bet
            /\ \A t \in Spectators \ {s} : SameColumns(n, r, t)
<1> DEFINE bet == [betSelection |-> horse, betAmount |-> amount]
<1>1. bet \in Selections
  BY DEF Selections
<1> HIDE DEF bet
<1>2. repository!setSpectatorBet(r, s, horse, amount)
        = [r EXCEPT !.spectators[s] = bet, !.temporarySpectators[s] = bet]
  BY DEF repository!setSpectatorBet, bet
<1>3. LET n == [r EXCEPT !.spectators[s] = bet, !.temporarySpectators[s] = bet]
      IN /\ n \in Records /\ SameRuns(n, r)
         /\ n.spectatorStatus[s] = r.spectatorStatus[s]
         /\ n.spectators[s] = bet /\ n.temporarySpectators[s] = bet
         /\ \A t \in Spectators \ {s} : SameColumns(n, r, t)
  BY <1>1 DEF Records, SameRuns, SameColumns, SamePlace, SameStand
<1> QED
  BY <1>2, <1>3 DEF bet

LEMMA HorseStatusIsRecorded ==
  ASSUME NEW r \in Records, NEW h \in HorseJockeys, NEW status \in repository!HorseJockeyStates
  PROVE  LET n == repository!setHorseJockeyStatus(r, h, status)
         IN n \in Records /\ SameBook(n, r) /\ SameRuns(n, r)
BY DEF repository!setHorseJockeyStatus, Records, SameBook, SameRuns, SameColumns, SamePlace,
   SameStand

LEMMA AbilityIsRecorded ==
  ASSUME NEW r \in Records, NEW h \in HorseJockeys, NEW ability \in Nat
  PROVE  LET n == repository!setHorseJockeyAbility(r, h, ability)
         IN n \in Records /\ SameBook(n, r) /\ SameRuns(n, r)
BY DEF repository!setHorseJockeyAbility, Records, RunRecords, SameBook, SameRuns, SameColumns,
   SamePlace, SameStand

LEMMA OddsAreRecorded ==
  ASSUME NEW r \in Records, NEW horses, NEW odds \in [HorseJockeys -> Nat]
  PROVE  LET n == repository!setHorseJockeyProbabilitiesToWin(r, horses, odds)
         IN n \in Records /\ SameBook(n, r) /\ SameRuns(n, r)
<1> DEFINE run(h) == IF h \in horses
                     THEN [r.horseJockeys[h] EXCEPT !.probabilityToWin = odds[h]]
                     ELSE r.horseJockeys[h]
           runs == [h \in HorseJockeys |-> run(h)]
           n == [r EXCEPT !.horseJockeys = runs]
<1>1. ASSUME NEW h \in HorseJockeys
      PROVE  /\ run(h) \in RunRecords
             /\ run(h).positionOnTrack = r.horseJockeys[h].positionOnTrack
             /\ run(h).numberOfIncrementsDid = r.horseJockeys[h].numberOfIncrementsDid
             /\ run(h).finalStandPosition = r.horseJockeys[h].finalStandPosition
  BY DEF Records, RunRecords
<1>2. repository!setHorseJockeyProbabilitiesToWin(r, horses, odds) = n
  BY DEF repository!setHorseJockeyProbabilitiesToWin
<1> HIDE DEF run
<1>3. n \in Records /\ SameBook(n, r)
  BY <1>1 DEF Records, SameBook, SameColumns
<1>4. \A h \in HorseJockeys : n.horseJockeys[h] = run(h)
  BY DEF Records
<1> HIDE DEF n
<1>5. SameRuns(n, r)
  BY <1>1, <1>4 DEF SameRuns, SamePlace, SameStand
<1> QED
  BY <1>2, <1>3, <1>5

LEMMA PositionIsRecorded ==
  ASSUME NEW r \in Records, NEW h \in HorseJockeys, NEW position \in Nat,
         NEW n, n = [r EXCEPT !.horseJockeys[h].positionOnTrack = position]
  PROVE  /\ n \in Records /\ SameBook(n, r)
         /\ n.horseJockeys[h].positionOnTrack = position
         /\ n.horseJockeys[h].numberOfIncrementsDid = r.horseJockeys[h].numberOfIncrementsDid
         /\ \A g \in HorseJockeys \ {h} : SamePlace(n, r, g)
         /\ \A g \in HorseJockeys : SameStand(n, r, g)
BY DEF Records, RunRecords, SameBook, SameColumns, SamePlace, SameStand

LEMMA IncrementsAreRecorded ==
  ASSUME NEW r \in Records, NEW h \in HorseJockeys, NEW moves \in Nat,
         NEW n, n = [r EXCEPT !.horseJockeys[h].numberOfIncrementsDid = moves]
  PROVE  /\ n \in Records /\ SameBook(n, r)
         /\ n.horseJockeys[h].positionOnTrack = r.horseJockeys[h].positionOnTrack
         /\ n.horseJockeys[h].numberOfIncrementsDid = moves
         /\ \A g \in HorseJockeys \ {h} : SamePlace(n, r, g)
         /\ \A g \in HorseJockeys : SameStand(n, r, g)
BY DEF Records, RunRecords, SameBook, SameColumns, SamePlace, SameStand

LEMMA MoveIsRecorded ==
  ASSUME NEW r \in Records, NEW h \in HorseJockeys, NEW position \in Nat
  PROVE  LET n == repository!setHorseJockeyMove(r, h, position)
         IN /\ n \in Records /\ SameBook(n, r)
            /\ n.horseJockeys[h].positionOnTrack = position
            /\ n.horseJockeys[h].numberOfIncrementsDid
                 = r.horseJockeys[h].numberOfIncrementsDid + 1
            /\ \A g \in HorseJockeys \ {h} : SamePlace(n, r, g)
            /\ \A g \in HorseJockeys : SameStand(n, r, g)
<1>0. PICK moves \in Nat : moves = r.horseJockeys[h].numberOfIncrementsDid + 1
  BY DEF Records, RunRecords
<1>1. PICK m : m = [r EXCEPT !.horseJockeys[h].positionOnTrack = position]
  OBVIOUS
<1>2. PICK n : n = [m EXCEPT !.horseJockeys[h].numberOfIncrementsDid = moves]
  OBVIOUS
<1>3. /\ m \in Records /\ SameBook(m, r)
      /\ m.horseJockeys[h].positionOnTrack = position
      /\ m.horseJockeys[h].numberOfIncrementsDid = r.horseJockeys[h].numberOfIncrementsDid
      /\ \A g \in HorseJockeys \ {h} : SamePlace(m, r, g)
      /\ \A g \in HorseJockeys : SameStand(m, r, g)
  BY <1>1, PositionIsRecorded
<1>4. m \in Records
  BY <1>3
<1>5. repository!setHorseJockeyMove(r, h, position) = n
  BY <1>0, <1>1, <1>2, <1>3 DEF repository!setHorseJockeyMove
<1>6. /\ n \in Records /\ SameBook(n, m)
      /\ n.horseJockeys[h].positionOnTrack = m.horseJockeys[h].positionOnTrack
      /\ n.horseJockeys[h].numberOfIncrementsDid = moves
      /\ \A g \in HorseJockeys \ {h} : SamePlace(n, m, g)
      /\ \A g \in HorseJockeys : SameStand(n, m, g)
  BY <1>2, <1>4, IncrementsAreRecorded, Z3T(30)
<1> QED
  BY <1>0, <1>3, <1>5, <1>6 DEF SameBook, SameColumns, SamePlace, SameStand

LEMMA StandIsRecorded ==
  ASSUME NEW r \in Records, NEW h \in HorseJockeys, NEW position \in Nat
  PROVE  LET n == repository!setHorseJockeyFinalStandPosition(r, h, position)
         IN /\ n \in Records /\ SameBook(n, r)
            /\ \A g \in HorseJockeys : SamePlace(n, r, g)
            /\ n.horseJockeys[h].finalStandPosition = position
            /\ \A g \in HorseJockeys \ {h} : SameStand(n, r, g)
BY DEF repository!setHorseJockeyFinalStandPosition, Records, RunRecords, SameBook, SameColumns,
   SamePlace, SameStand

LEMMA EndIsRecorded ==
  ASSUME NEW r \in Records
  PROVE  LET n == repository!raceIsOver(r)
         IN /\ n \in Records
            /\ n.spectatorStatus = r.spectatorStatus
            /\ n.temporarySpectators = r.temporarySpectators
            /\ \A s \in Spectators : n.spectators[s] = repository!NoSelection
            /\ \A h \in HorseJockeys : n.horseJockeys[h] = repository!NoRun
<1>1. repository!NoSelection \in Selections /\ repository!NoRun \in RunRecords
  BY DEF repository!NoSelection, repository!NoRun, Selections, RunRecords
<1> QED
  BY <1>1 DEF repository!raceIsOver, Records

(* What is reported is in its range.                                       *)
ReportTypes ==
  /\ horsesOdds \in [HorseJockeys -> Nat]
  /\ bets \in [Spectators -> [horse : HorseJockeys \cup {NoHorse}, amount : Nat]]
  /\ money \in [Spectators -> Nat]
  /\ race \in [identification : Races, distance : Distances]
  /\ horseAbility \in [HorseJockeys -> Nat]
  /\ currentHorsesPositions \in [HorseJockeys -> Nat]
  /\ numberOfFinishedHorses \in Nat

LEMMA FinishersAreANumber == Spec => [](numberOfFinishedHorses \in Nat)
<1>1. Init => numberOfFinishedHorses \in Nat
  BY DEF Init, racingTrack!Init
<1>2. ASSUME numberOfFinishedHorses \in Nat, [Next]_vars
      PROVE  numberOfFinishedHorses' \in Nat
  <2>1. CASE UNCHANGED trackVars
    BY <1>2, <2>1 DEF trackVars
  <2>2. CASE BrokerNext
    BY <1>2, <2>1, <2>2 DEF BrokerNext, BrokerSummonsHorses, BrokerAnnouncesRace,
       BrokerAcceptsBets, BrokerStartsRace, BrokerSupervisesRace, BrokerReportsResults,
       BrokerLooksForWinners, BrokerHonoursBets, BrokerSetsRace, BrokerEntertainsGuests,
       InStable, InControlCentre, InBettingCentre, InNoRegion, racingTrack!startTheRace,
       racingTrack!setRace, racingTrack!runVars
  <2>3. ASSUME NEW h \in HorseJockeys, HorseNext(h)
        PROVE  numberOfFinishedHorses' \in Nat
    <3>1. CASE HorseLinesUp(h)
      BY <1>2, <3>1 DEF HorseLinesUp, racingTrack!proceedToStartLine,
         racingTrack!resumeProceedToStartLine, racingTrack!runVars
    <3>2. CASE HorseChecksFinishLine(h)
      BY <1>2, <3>2 DEF HorseChecksFinishLine, racingTrack!hasFinishLineBeenCrossed,
         racingTrack!runVars
    <3>3. CASE HorseMoves(h)
      BY <1>2, <3>3 DEF HorseMoves, racingTrack!makeAMove, racingTrack!resumeMakeAMove,
         racingTrack!MoveOrWait, racingTrack!Advance, racingTrack!runVars
    <3> QED
      BY <2>1, <2>3, <3>1, <3>2, <3>3 DEF HorseNext, HorseSetsAbility, HorseArrivesAtStable,
         HorseLeavesForPaddock, HorseParades, HorseLeavesPaddock, HorseFinishes,
         HorseGoesToRest, InStable, InControlCentre, InPaddock, InBettingCentre
  <2>4. CASE \E s \in Spectators : SpectatorNext(s)
    BY <2>1, <2>4, SpectatorsKeepStart
  <2>5. CASE LauncherNext
    BY <2>1, <2>5 DEF LauncherNext, LaunchNextBatch, LaunchHorse, InNoRegion, InStable
  <2>6. CASE UNCHANGED vars
    BY <2>1, <2>6 DEF vars
  <2> QED
    BY <1>2, <2>2, <2>3, <2>4, <2>5, <2>6 DEF Next
<1>3. numberOfFinishedHorses \in Nat /\ [Next]_vars => (numberOfFinishedHorses \in Nat)'
  BY <1>2
<1> QED
  BY <1>1, <1>3, PTL DEF Spec

LEMMA ReportsAreInRange == Timely => []ReportTypes
<1>1. /\ numberOfFinishedHorses \in Nat /\ MoneyInv /\ StartInv /\ RacesInv
      => ReportTypes
  BY HippodromeAssumption DEF ReportTypes, MoneyInv, MoneyTypes, StartInv, BatchTypes, RacesInv,
     HippodromeAssumption
<1> QED
  BY <1>1, FinishersAreANumber, MoneyIsCovered, StartsAreInOrder, RacesAreInOrder, TimelyIsSpec,
     PTL

LEMMA RecordsInit == LoggedInit /\ ReportTypes => log \in Records
BY DEF LoggedInit, ReportTypes, repository!RepositoryOf, Records, RunRecords, Selections,
   repository!NoRun, repository!NoSelection, repository!BrokerStates,
   repository!SpectatorStates, repository!HorseJockeyStates

LEMMA NothingRecorded == SameBook(log, log) /\ SameRuns(log, log)
BY DEF SameBook, SameRuns, SameColumns, SamePlace, SameStand

(* The broker changes nothing in the columns of the others until it        *)
(* reports the end of the race.                                            *)
LEMMA BrokerRecords ==
  ASSUME log \in Records, ReportTypes', LoggedBroker
  PROVE  log' \in Records /\ SameBook(log', log) /\ SameRuns(log', log)
<1>1. \/ log' = log
      \/ \E status \in repository!BrokerStates : log' = repository!setBrokerStatus(log, status)
      \/ log' = repository!setRace(log, race')
      \/ log' = repository!setHorseJockeyProbabilitiesToWin(
                  repository!setBrokerStatus(log, "WFB"), HorseJockeys, horsesOdds')
      \/ \E before : log' = repository!setHorseJockeyProbabilitiesToWin(log, before, horsesOdds')
  BY DEF LoggedBroker, Silently, OnEntry, LogOdds, repository!BrokerStates
<1>2. CASE log' = log
  BY <1>2, NothingRecorded
<1>3. ASSUME NEW status \in repository!BrokerStates,
             log' = repository!setBrokerStatus(log, status)
      PROVE  log' \in Records /\ SameBook(log', log) /\ SameRuns(log', log)
  BY <1>3, BrokerStatusIsRecorded
<1>4. CASE log' = repository!setRace(log, race')
  <2>1. race' \in [identification : Races, distance : Distances]
    BY DEF ReportTypes
  <2> QED
    BY <1>4, <2>1, RaceIsRecorded
<1>5. CASE log' = repository!setHorseJockeyProbabilitiesToWin(
                    repository!setBrokerStatus(log, "WFB"), HorseJockeys, horsesOdds')
  <2>1. PICK m : m = repository!setBrokerStatus(log, "WFB")
    OBVIOUS
  <2>2. m \in Records /\ SameBook(m, log) /\ SameRuns(m, log)
    BY <2>1, BrokerStatusIsRecorded DEF repository!BrokerStates
  <2>3. horsesOdds' \in [HorseJockeys -> Nat]
    BY DEF ReportTypes
  <2>4. log' \in Records /\ SameBook(log', m) /\ SameRuns(log', m)
    BY <1>5, <2>1, <2>2, <2>3, OddsAreRecorded
  <2> QED
    BY <2>2, <2>4 DEF SameBook, SameRuns, SameColumns, SamePlace, SameStand
<1>6. ASSUME NEW before,
             log' = repository!setHorseJockeyProbabilitiesToWin(log, before, horsesOdds')
      PROVE  log' \in Records /\ SameBook(log', log) /\ SameRuns(log', log)
  BY <1>6, OddsAreRecorded DEF ReportTypes
<1> QED
  BY <1>1, <1>2, <1>3, <1>4, <1>5, <1>6

LEMMA LauncherRecords ==
  ASSUME log \in Records, ReportTypes', LoggedLauncher
  PROVE  log' \in Records /\ SameBook(log', log) /\ SameRuns(log', log)
<1>1. CASE log' = log
  BY <1>1, NothingRecorded
<1>2. ASSUME NEW h \in HorseJockeys,
             log' = repository!setHorseJockeyAbility(HorseReports(h, "ATS"), h, horseAbility'[h])
      PROVE  log' \in Records /\ SameBook(log', log) /\ SameRuns(log', log)
  <2>1. PICK m : m = repository!setHorseJockeyStatus(log, h, "ATS")
    OBVIOUS
  <2>2. m \in Records /\ SameBook(m, log) /\ SameRuns(m, log)
    BY <2>1, HorseStatusIsRecorded DEF repository!HorseJockeyStates
  <2>3. horseAbility'[h] \in Nat
    BY DEF ReportTypes
  <2>4. log' = repository!setHorseJockeyAbility(m, h, horseAbility'[h])
    BY <1>2, <2>1 DEF HorseReports
  <2>5. log' \in Records /\ SameBook(log', m) /\ SameRuns(log', m)
    BY <2>2, <2>3, <2>4, AbilityIsRecorded
  <2> QED
    BY <2>2, <2>5 DEF SameBook, SameRuns, SameColumns, SamePlace, SameStand
<1> QED
  BY <1>1, <1>2 DEF LoggedLauncher, Silently

(* A horse changes only its own columns: its place when it has moved.      *)
HorseIsPlaced(h) ==
  /\ HorseMoves(h) /\ RacingTrackAnswers(h)
  /\ log'.horseJockeys[h].positionOnTrack = currentHorsesPositions'[h]
  /\ log'.horseJockeys[h].numberOfIncrementsDid = log.horseJockeys[h].numberOfIncrementsDid + 1

HorseStaysPlaced(h) ==
  /\ \/ HorseMoves(h) /\ ~RacingTrackAnswers(h)
     \/ horsePc[h] # "racingTrack.makeAMove"
  /\ SamePlace(log', log, h)

HorseIsRanked(h) ==
  /\ HorseChecksFinishLine(h)
  /\ log'.horseJockeys[h].finalStandPosition = numberOfFinishedHorses'

LEMMA HorseRecords ==
  ASSUME log \in Records, ReportTypes', NEW h \in HorseJockeys, LoggedHorse(h)
  PROVE  /\ log' \in Records /\ SameBook(log', log)
         /\ \A g \in HorseJockeys \ {h} : SamePlace(log', log, g) /\ SameStand(log', log, g)
         /\ HorseIsPlaced(h) \/ HorseStaysPlaced(h)
         /\ \/ SameStand(log', log, h)
            \/ log'.horseJockeys[h].finalStandPosition = 0
            \/ HorseIsRanked(h)
<1> DEFINE Places == \A g \in HorseJockeys : SamePlace(log', log, g)
           Stands == \A g \in HorseJockeys : SameStand(log', log, g)
<1>1. /\ SameRuns(log', log) => Places /\ Stands
      /\ SameRuns(log, log) /\ SameBook(log, log)
  BY NothingRecorded DEF SameRuns
<1>2. CASE HorseMoves(h) /\ LogMove(h)
  <2>1. CASE RacingTrackAnswers(h)
    <3>1. PICK status \in {"ATFL", "R"} :
            log' = repository!setHorseJockeyMove(HorseReports(h, status), h,
                                                 currentHorsesPositions'[h])
      BY <1>2, <2>1 DEF LogMove
    <3>2. PICK m : m = repository!setHorseJockeyStatus(log, h, status)
      OBVIOUS
    <3>3. status \in repository!HorseJockeyStates
      BY DEF repository!HorseJockeyStates
    <3>4. m \in Records /\ SameBook(m, log) /\ SameRuns(m, log)
      BY <3>2, <3>3, HorseStatusIsRecorded
    <3>5. currentHorsesPositions'[h] \in Nat
      BY DEF ReportTypes
    <3>6. log' = repository!setHorseJockeyMove(m, h, currentHorsesPositions'[h])
      BY <3>1, <3>2 DEF HorseReports
    <3>7. /\ log' \in Records /\ SameBook(log', m)
          /\ log'.horseJockeys[h].positionOnTrack = currentHorsesPositions'[h]
          /\ log'.horseJockeys[h].numberOfIncrementsDid
               = m.horseJockeys[h].numberOfIncrementsDid + 1
          /\ \A g \in HorseJockeys \ {h} : SamePlace(log', m, g)
          /\ \A g \in HorseJockeys : SameStand(log', m, g)
      BY <3>4, <3>5, <3>6, MoveIsRecorded
    <3> QED
      BY <1>2, <2>1, <3>4, <3>7 DEF SameBook, SameRuns, SameColumns, SamePlace, SameStand,
         HorseIsPlaced
  <2>2. CASE ~RacingTrackAnswers(h)
    <3>1. log' = log
      BY <1>2, <2>2 DEF LogMove
    <3> QED
      BY <1>1, <1>2, <2>2, <3>1 DEF HorseStaysPlaced
  <2> QED
    BY <2>1, <2>2
<1>3. CASE ~(HorseMoves(h) /\ LogMove(h))
  <2>1. horsePc[h] # "racingTrack.makeAMove"
    BY <1>3 DEF LoggedHorse, HorseArrivesAtStable, HorseLeavesForPaddock, HorseLeavesPaddock,
       HorseLinesUp, HorseChecksFinishLine, HorseGoesToRest, HorseSetsAbility, HorseParades,
       HorseFinishes, HorseReturns
  <2>2. \/ log' = log
        \/ \E status \in repository!HorseJockeyStates :
             log' = repository!setHorseJockeyStatus(log, h, status)
        \/ log' = repository!setHorseJockeyFinalStandPosition(log, h, 0)
        \/ /\ HorseChecksFinishLine(h)
           /\ log' = repository!setHorseJockeyFinalStandPosition(log, h, numberOfFinishedHorses')
    BY <1>3 DEF LoggedHorse, OnEntry, HorseReports, LogStand, Silently,
       repository!HorseJockeyStates
  <2>3. CASE log' = log
    BY <1>1, <2>1, <2>3 DEF HorseStaysPlaced
  <2>4. ASSUME NEW status \in repository!HorseJockeyStates,
               log' = repository!setHorseJockeyStatus(log, h, status)
        PROVE  log' \in Records /\ SameBook(log', log) /\ SameRuns(log', log)
    BY <2>4, HorseStatusIsRecorded
  <2>5. ASSUME NEW position \in Nat,
               log' = repository!setHorseJockeyFinalStandPosition(log, h, position)
        PROVE  /\ log' \in Records /\ SameBook(log', log) /\ Places
               /\ log'.horseJockeys[h].finalStandPosition = position
               /\ \A g \in HorseJockeys \ {h} : SameStand(log', log, g)
    BY <2>5, StandIsRecorded
  <2>6. numberOfFinishedHorses' \in Nat
    BY DEF ReportTypes
  <2> QED
    BY <1>1, <2>1, <2>2, <2>3, <2>4, <2>5, <2>6 DEF HorseStaysPlaced, HorseIsRanked
<1> QED
  BY <1>2, <1>3

(* A spectator changes only its own columns, and its bet there only when   *)
(* it bets.                                                                *)
HoldsBet(s) == HasBetFor(s, spectatorRace[s])

Showing == {"PB", "WR", "CTG"}

BetIsCopied(s) ==
  /\ log.temporarySpectators[s] = [betSelection |-> bets[s].horse, betAmount |-> bets[s].amount]
  /\ log.spectators[s] \in {repository!NoSelection, log.temporarySpectators[s]}

(* s reports another state, or none, and no bet.                           *)
SpectatorReportsState(s, states) ==
  /\ log' \in Records /\ SameRuns(log', log)
  /\ log'.spectatorStatus[s] \in {log.spectatorStatus[s]} \cup states
  /\ log'.spectators[s] = log.spectators[s]
  /\ log'.temporarySpectators[s] = log.temporarySpectators[s]
  /\ \A t \in Spectators \ {s} : SameColumns(log', log, t)

LEMMA StatusReported ==
  ASSUME log \in Records, NEW s \in Spectators, NEW status \in repository!SpectatorStates,
         log' = log \/ log' = SpectatorReports(s, status)
  PROVE  SpectatorReportsState(s, {status})
<1>1. CASE log' = log
  BY <1>1, NothingRecorded DEF SpectatorReportsState, SameBook
<1>2. CASE log' = SpectatorReports(s, status)
  BY <1>2, StatusIsRecorded DEF SpectatorReports, SpectatorReportsState
<1> QED
  BY <1>1, <1>2

LEMMA MoneyReported ==
  ASSUME ReportTypes', NEW s \in Spectators,
         NEW entered \in Records,
         log' = IF BettingCentreAnswers(s)
                THEN repository!setSpectatorAmountOfMoney(entered, s, money'[s]) ELSE entered
  PROVE  log' \in Records /\ SameBook(log', entered) /\ SameRuns(log', entered)
<1>1. money'[s] \in Nat
  BY DEF ReportTypes
<1>2. CASE BettingCentreAnswers(s)
  BY <1>1, <1>2, MoneyIsRecorded
<1>3. CASE ~BettingCentreAnswers(s)
  BY <1>3 DEF SameBook, SameRuns, SameColumns, SamePlace, SameStand
<1> QED
  BY <1>2, <1>3

LEMMA BetRecords ==
  ASSUME log \in Records, ReportTypes', NEW s \in Spectators, LogBet(s)
  PROVE  \/ bettingCall[s] # "none" /\ SpectatorReportsState(s, {})
         \/ /\ bettingCall[s] = "none"
            /\ log' \in Records /\ SameRuns(log', log)
            /\ log'.spectatorStatus[s] = "PB"
            /\ log'.temporarySpectators[s]
                 = [betSelection |-> bets'[s].horse, betAmount |-> bets'[s].amount]
            /\ log'.spectators[s] = log'.temporarySpectators[s]
            /\ \A t \in Spectators \ {s} : SameColumns(log', log, t)
<1>1. PICK entered :
        /\ entered = IF bettingCall[s] = "none"
                     THEN repository!setSpectatorBet(SpectatorReports(s, "PB"), s,
                                                     bets'[s].horse, bets'[s].amount)
                     ELSE log
        /\ log' = IF BettingCentreAnswers(s)
                  THEN repository!setSpectatorAmountOfMoney(entered, s, money'[s]) ELSE entered
  BY DEF LogBet
<1>2. CASE bettingCall[s] # "none"
  <2>1. entered = log
    BY <1>1, <1>2
  <2>2. log' \in Records /\ SameBook(log', log) /\ SameRuns(log', log)
    BY <1>1, <2>1, MoneyReported
  <2> QED
    BY <1>2, <2>2 DEF SpectatorReportsState, SameBook, SameColumns
<1>3. CASE bettingCall[s] = "none"
  <2>1. PICK m : m = repository!setSpectatorStatus(log, s, "PB")
    OBVIOUS
  <2>2. /\ m \in Records /\ SameRuns(m, log) /\ m.spectatorStatus[s] = "PB"
        /\ \A t \in Spectators \ {s} : SameColumns(m, log, t)
    BY <2>1, StatusIsRecorded DEF repository!SpectatorStates
  <2>3. bets'[s].horse \in HorseJockeys \cup {NoHorse} /\ bets'[s].amount \in Nat
    BY DEF ReportTypes
  <2>4. entered = repository!setSpectatorBet(m, s, bets'[s].horse, bets'[s].amount)
    BY <1>1, <1>3, <2>1 DEF SpectatorReports
  <2>5. PICK bet : bet = [betSelection |-> bets'[s].horse, betAmount |-> bets'[s].amount]
    OBVIOUS
  <2>6. /\ entered \in Records /\ SameRuns(entered, m)
        /\ entered.spectatorStatus[s] = m.spectatorStatus[s]
        /\ entered.spectators[s] = bet /\ entered.temporarySpectators[s] = bet
        /\ \A t \in Spectators \ {s} : SameColumns(entered, m, t)
    BY <2>2, <2>3, <2>4, <2>5, BetIsCopiedWhenRecorded
  <2>7. log' \in Records /\ SameBook(log', entered) /\ SameRuns(log', entered)
    BY <1>1, <2>6, MoneyReported
  <2>8. /\ log'.spectatorStatus[s] = "PB"
        /\ log'.temporarySpectators[s] = bet /\ log'.spectators[s] = bet
        /\ \A t \in Spectators \ {s} : SameColumns(log', log, t)
    BY <2>2, <2>6, <2>7 DEF SameBook, SameColumns
  <2>9. SameRuns(log', log)
    BY <2>2, <2>6, <2>7 DEF SameRuns, SamePlace, SameStand
  <2> QED
    BY <1>3, <2>5, <2>7, <2>8, <2>9
<1> QED
  BY <1>2, <1>3

LEMMA GainsRecords ==
  ASSUME log \in Records, ReportTypes', NEW s \in Spectators, LogGains(s)
  PROVE  SpectatorReportsState(s, {"CTG"})
<1>1. PICK entered :
        /\ entered = IF bettingCall[s] = "none" THEN repository!setSpectatorStatus(log, s, "CTG")
                     ELSE log
        /\ log' = IF BettingCentreAnswers(s)
                  THEN repository!setSpectatorAmountOfMoney(entered, s, money'[s]) ELSE entered
  BY DEF LogGains, SpectatorReports
<1>2. /\ entered \in Records /\ SameRuns(entered, log)
      /\ entered.spectatorStatus[s] \in {log.spectatorStatus[s], "CTG"}
      /\ entered.spectators[s] = log.spectators[s]
      /\ entered.temporarySpectators[s] = log.temporarySpectators[s]
      /\ \A t \in Spectators \ {s} : SameColumns(entered, log, t)
  <2>1. CASE entered = log
    BY <2>1, NothingRecorded DEF SameBook
  <2>2. CASE entered = repository!setSpectatorStatus(log, s, "CTG")
    BY <2>2, StatusIsRecorded DEF repository!SpectatorStates
  <2> QED
    BY <1>1, <2>1, <2>2
<1>3. log' \in Records /\ SameBook(log', entered) /\ SameRuns(log', entered)
  BY <1>1, <1>2, MoneyReported
<1>4. SameRuns(log', log)
  BY <1>2, <1>3 DEF SameRuns, SamePlace, SameStand
<1> QED
  BY <1>2, <1>3, <1>4 DEF SpectatorReportsState, SameBook, SameColumns

Logged == LoggedInit /\ [][LoggedNext]_loggedVars

LEMMA LoggedRuns == LoggedSpec => Logged
BY DEF LoggedSpec, Logged

LEMMA LoggedIsTimely == Logged => Timely
<1>1. LoggedInit => Init
  BY DEF LoggedInit
<1> QED
  BY <1>1, LoggedStep, PTL DEF Logged, Timely

(* What the steps of a spectator write in its columns.                     *)
LEMMA SpectatorRecords ==
  ASSUME log \in Records, ReportTypes', NEW s \in Spectators, LoggedSpectator(s)
  PROVE  /\ log' \in Records /\ SameRuns(log', log)
         /\ \A t \in Spectators \ {s} : SameColumns(log', log, t)
         /\ \/ SpectatorPlacesBet(s) /\ LogBet(s)
            \/ SpectatorCollectsGains(s) /\ SpectatorReportsState(s, {"CTG"})
            \/ SpectatorWatchesRace(s) /\ SpectatorReportsState(s, {"WR"})
            \/ SpectatorAsksResult(s) /\ SpectatorReportsState(s, {})
            \/ /\ \/ SpectatorWaitsForRace(s) \/ SpectatorIsCounted(s)
                  \/ LastSpectatorTellsBroker(s) \/ SpectatorAppraisesHorses(s)
                  \/ SpectatorRelaxes(s)
               /\ \E status \in {"WFRTS", "ATH", "C"} : SpectatorReportsState(s, {status})
<1> USE DEF repository!SpectatorStates
<1>1. log' = log => SpectatorReportsState(s, {})
  BY NothingRecorded DEF SpectatorReportsState, SameBook
<1>2. \A states : SpectatorReportsState(s, states)
        => /\ log' \in Records /\ SameRuns(log', log)
           /\ \A t \in Spectators \ {s} : SameColumns(log', log, t)
  BY DEF SpectatorReportsState
<1>3. CASE SpectatorPlacesBet(s) /\ LogBet(s)
  BY <1>2, <1>3, BetRecords
<1>4. CASE SpectatorCollectsGains(s) /\ LogGains(s)
  BY <1>2, <1>4, GainsRecords
<1>5. CASE SpectatorWatchesRace(s) /\ OnEntry(centreCall[s], SpectatorReports(s, "WR"))
  <2>1. log' = log \/ log' = SpectatorReports(s, "WR")
    BY <1>5 DEF OnEntry
  <2>2. SpectatorReportsState(s, {"WR"})
    BY <2>1, StatusReported
  <2> QED
    BY <1>2, <1>5, <2>2
<1>6. CASE SpectatorAsksResult(s) /\ Silently
  BY <1>1, <1>2, <1>6 DEF Silently
<1>7. ASSUME NEW status \in {"WFRTS", "ATH", "C"},
             log' = log \/ log' = SpectatorReports(s, status)
      PROVE  SpectatorReportsState(s, {status})
  BY <1>7, StatusReported
<1>8. CASE \/ SpectatorWaitsForRace(s) /\ OnEntry(centreCall[s], SpectatorReports(s, "WFRTS"))
           \/ (SpectatorIsCounted(s) \/ LastSpectatorTellsBroker(s)) /\ Silently
           \/ SpectatorAppraisesHorses(s) /\ OnEntry(paddockCall[s], SpectatorReports(s, "ATH"))
           \/ SpectatorRelaxes(s) /\ log' = SpectatorReports(s, "C")
  <2>1. \E status \in {"WFRTS", "ATH", "C"} : log' = log \/ log' = SpectatorReports(s, status)
    BY <1>8 DEF OnEntry, Silently
  <2>2. \E status \in {"WFRTS", "ATH", "C"} : SpectatorReportsState(s, {status})
    BY <1>7, <2>1
  <2> QED
    BY <1>2, <1>8, <2>2
<1> QED
  BY <1>3, <1>4, <1>5, <1>6, <1>8 DEF LoggedSpectator

LEMMA RecordsNext ==
  log \in Records /\ ReportTypes' /\ [LoggedNext]_loggedVars => log' \in Records
<1> SUFFICES ASSUME log \in Records, ReportTypes', [LoggedNext]_loggedVars
             PROVE  log' \in Records
  OBVIOUS
<1>1. CASE LoggedBroker
  BY <1>1, BrokerRecords
<1>2. CASE BrokerEndsRace
  BY <1>2, EndIsRecorded DEF BrokerEndsRace
<1>3. CASE \E s \in Spectators : LoggedSpectator(s)
  BY <1>3, SpectatorRecords
<1>4. CASE \E h \in HorseJockeys : LoggedHorse(h)
  BY <1>4, HorseRecords
<1>5. CASE LoggedLauncher
  BY <1>5, LauncherRecords
<1>6. CASE UNCHANGED loggedVars
  BY <1>6 DEF loggedVars
<1> QED
  BY <1>1, <1>2, <1>3, <1>4, <1>5, <1>6 DEF LoggedNext

LEMMA RecordsAreKept == Logged => [](log \in Records)
<1>1. (log \in Records) /\ ReportTypes' /\ [LoggedNext]_loggedVars => (log \in Records)'
  BY RecordsNext
<1> QED
  BY <1>1, RecordsInit, ReportsAreInRange, LoggedIsTimely, PTL DEF Logged

-----------------------------------------------------------------------------
(* The bets in the log.                                                    *)

CopyIsKept(s) ==
  /\ log.spectatorStatus[s] \in Showing => BetIsCopied(s)
  /\ HoldsBet(s) => log.spectatorStatus[s] \in Showing

LEMMA CopyStays ==
  ASSUME NEW s \in Spectators, CopyIsKept(s), SameColumns(log', log, s),
         bets'[s] = bets[s], HoldsBet(s)' => HoldsBet(s)
  PROVE  CopyIsKept(s)'
BY DEF CopyIsKept, SameColumns, BetIsCopied

(* s shows another state, and keeps the copy as long as it needs it.       *)
LEMMA CopyIsShown ==
  ASSUME NEW s \in Spectators, CopyIsKept(s), NEW states, SpectatorReportsState(s, states),
         bets'[s] = bets[s], HoldsBet(s)' => HoldsBet(s),
         \/ states \subseteq Showing /\ HoldsBet(s)
         \/ states \cap Showing = {} /\ ~HoldsBet(s)
  PROVE  CopyIsKept(s)'
<1>1. /\ log'.spectatorStatus[s] \in {log.spectatorStatus[s]} \cup states
      /\ log'.spectators[s] = log.spectators[s]
      /\ log'.temporarySpectators[s] = log.temporarySpectators[s]
  BY DEF SpectatorReportsState
<1>2. BetIsCopied(s) => BetIsCopied(s)'
  BY <1>1 DEF BetIsCopied
<1> QED
  BY <1>1, <1>2 DEF CopyIsKept

LEMMA SpectatorKeepsCopy ==
  ASSUME log \in Records, ReportTypes', BetsInv, MoneyInv,
         NEW s \in Spectators, LoggedSpectator(s), CopyIsKept(s)
  PROVE  CopyIsKept(s)'
<1>0. /\ spectatorRace[s] \in Nat /\ SpectatorNext(s)
      /\ bettingCall \in [Spectators \cup {Broker} -> BettingMethods]
  BY LoggedSpectatorIsTimely DEF BetsInv, BetTypes, TimelySpectator
<1>1. CASE SpectatorPlacesBet(s) /\ LogBet(s)
  <2>1. CASE bettingCall[s] # "none" /\ SpectatorReportsState(s, {})
    <3>1. HoldsBet(s)
      BY <1>1, <2>1 DEF HoldsBet, HasBetFor, SpectatorPlacesBet, SpectatorReturns
    <3>2. UNCHANGED bets
      BY <1>1, <2>1 DEF SpectatorPlacesBet, bettingCentre!placeABet, bettingCentre!Outside,
         bettingCentre!None, bettingCentre!resumePlaceABet, bettingCentre!betVars
    <3> QED
      BY <2>1, <3>1, <3>2, CopyIsShown
  <2>2. CASE bettingCall[s] = "none"
    BY <1>1, <2>2, BetRecords DEF CopyIsKept, BetIsCopied, Showing
  <2> QED
    BY <1>1, <2>1, <2>2, BetRecords
<1>2. CASE SpectatorCollectsGains(s) /\ SpectatorReportsState(s, {"CTG"})
  <2>1. HoldsBet(s) /\ UNCHANGED bets
    BY <1>2, GainsArePaid DEF HoldsBet, HasBetFor
  <2> QED
    BY <1>2, <2>1, CopyIsShown DEF Showing
<1>3. CASE SpectatorAsksResult(s) /\ SpectatorReportsState(s, {})
  <2>1. HoldsBet(s) /\ UNCHANGED bets
    BY <1>3, ResultIsTold DEF HoldsBet, HasBetFor
  <2> QED
    BY <1>3, <2>1, CopyIsShown
<1>4. ASSUME ~SpectatorPlacesBet(s), ~SpectatorCollectsGains(s), ~SpectatorAsksResult(s)
      PROVE  UNCHANGED bets /\ (HoldsBet(s)' <=> HoldsBet(s))
  BY <1>0, <1>4, SpectatorRacesOn DEF HoldsBet, bettingVars
<1>5. CASE SpectatorWatchesRace(s) /\ SpectatorReportsState(s, {"WR"})
  <2>1. /\ spectatorPc[s] = "controlCentre.goWatchTheRace"
        /\ ~SpectatorPlacesBet(s) /\ ~SpectatorCollectsGains(s) /\ ~SpectatorAsksResult(s)
    BY <1>5 DEF SpectatorWatchesRace, SpectatorPlacesBet, SpectatorCollectsGains,
       SpectatorAsksResult, SpectatorReturns
  <2>2. HoldsBet(s)
    BY <2>1 DEF HoldsBet, HasBetFor
  <2> QED
    BY <1>4, <1>5, <2>1, <2>2, CopyIsShown DEF Showing
<1>6. CASE /\ \/ SpectatorWaitsForRace(s) \/ SpectatorIsCounted(s)
              \/ LastSpectatorTellsBroker(s) \/ SpectatorAppraisesHorses(s)
              \/ SpectatorRelaxes(s)
           /\ \E status \in {"WFRTS", "ATH", "C"} : SpectatorReportsState(s, {status})
  <2>1. spectatorPc[s] \in {"controlCentre.waitForTheNextRace", "paddock.goCheckHorses()",
                            "controlCentre.goCheckHorses", "paddock.goCheckHorses(boolean)",
                            "controlCentre.relaxABit"}
    BY <1>6 DEF SpectatorWaitsForRace, SpectatorIsCounted, LastSpectatorTellsBroker,
       SpectatorAppraisesHorses, SpectatorRelaxes, SpectatorReturns
  <2>2. ~SpectatorPlacesBet(s) /\ ~SpectatorCollectsGains(s) /\ ~SpectatorAsksResult(s)
    BY <2>1 DEF SpectatorPlacesBet, SpectatorCollectsGains, SpectatorAsksResult,
       SpectatorReturns
  <2>3. ~HoldsBet(s)
    BY <1>0, <2>1 DEF HoldsBet, HasBetFor
  <2>4. PICK status \in {"WFRTS", "ATH", "C"} : SpectatorReportsState(s, {status})
    BY <1>6
  <2>5. {status} \cap Showing = {}
    BY DEF Showing
  <2> QED
    BY <1>4, <2>2, <2>3, <2>4, <2>5, CopyIsShown
<1> QED
  BY <1>1, <1>2, <1>3, <1>5, <1>6, SpectatorRecords

LEMMA CopiesNext ==
  /\ \A s \in Spectators : CopyIsKept(s)
  /\ log \in Records /\ ReportTypes' /\ BetsInv /\ MoneyInv /\ [LoggedNext]_loggedVars
  => \A s \in Spectators : CopyIsKept(s)'
<1> SUFFICES ASSUME NEW s \in Spectators, CopyIsKept(s), log \in Records, ReportTypes',
                    BetsInv, MoneyInv, [LoggedNext]_loggedVars
             PROVE  CopyIsKept(s)'
  OBVIOUS
<1>1. CASE LoggedBroker
  <2>1. /\ UNCHANGED <<spectatorPc, spectatorRace, bets>>
        /\ bettingCall'[s] = bettingCall[s]
    BY <1>1, LoggedBrokerIsTimely, BrokerLeavesBets DEF TimelyBroker, BetsInv
  <2>2. SameColumns(log', log, s)
    BY <1>1, BrokerRecords DEF SameBook
  <2>3. HoldsBet(s)' <=> HoldsBet(s)
    BY <2>1 DEF HoldsBet, HasBetFor
  <2> QED
    BY <2>1, <2>2, <2>3, CopyStays
<1>2. CASE BrokerEndsRace
  <2>1. UNCHANGED <<spectatorPc, spectatorRace, bets, bettingCall>>
    BY <1>2 DEF BrokerEndsRace, vars, spectatorVars, bettingVars
  <2>2. /\ log'.spectatorStatus[s] = log.spectatorStatus[s]
        /\ log'.temporarySpectators[s] = log.temporarySpectators[s]
        /\ log'.spectators[s] = repository!NoSelection
    BY <1>2, EndIsRecorded DEF BrokerEndsRace
  <2>3. HoldsBet(s)' <=> HoldsBet(s)
    BY <2>1 DEF HoldsBet, HasBetFor
  <2> QED
    BY <2>1, <2>2, <2>3 DEF CopyIsKept, BetIsCopied
<1>3. ASSUME NEW t \in Spectators, LoggedSpectator(t)
      PROVE  CopyIsKept(s)'
  <2>1. CASE t = s
    BY <1>3, <2>1, SpectatorKeepsCopy
  <2>2. CASE t # s
    <3>1. SameColumns(log', log, s)
      BY <1>3, <2>2, SpectatorRecords
    <3>2. SpectatorNext(t)
      BY <1>3, LoggedSpectatorIsTimely DEF TimelySpectator
    <3>3. /\ bets'[s] = bets[s] /\ spectatorPc'[s] = spectatorPc[s]
          /\ spectatorRace'[s] = spectatorRace[s] /\ bettingCall'[s] = bettingCall[s]
      BY <2>2, <3>2, SpectatorLeavesOthers
    <3>4. HoldsBet(s)' <=> HoldsBet(s)
      BY <3>3 DEF HoldsBet, HasBetFor
    <3> QED
      BY <3>1, <3>3, <3>4, CopyStays
  <2> QED
    BY <2>1, <2>2
<1>4. CASE (\E h \in HorseJockeys : LoggedHorse(h)) \/ LoggedLauncher \/ UNCHANGED loggedVars
  <2>1. (\E h \in HorseJockeys : HorseNext(h)) \/ LauncherNext \/ UNCHANGED vars
    BY <1>4, LoggedHorseIsTimely DEF TimelyHorse, LoggedLauncher, LauncherNext, loggedVars
  <2>2. UNCHANGED <<spectatorPc, spectatorRace, bets, bettingCall>>
    BY <2>1, OthersLeaveBooks DEF bookVars, betsVars
  <2>3. SameBook(log', log)
    BY <1>4, HorseRecords, LauncherRecords, NothingRecorded DEF loggedVars
  <2>4. HoldsBet(s)' <=> HoldsBet(s)
    BY <2>2 DEF HoldsBet, HasBetFor
  <2> QED
    BY <2>2, <2>3, <2>4, CopyStays DEF SameBook
<1> QED
  BY <1>1, <1>2, <1>3, <1>4 DEF LoggedNext

LEMMA CopiesInit == LoggedInit => \A s \in Spectators : CopyIsKept(s)
<1> SUFFICES ASSUME LoggedInit, NEW s \in Spectators PROVE CopyIsKept(s)
  OBVIOUS
<1>1. log.spectatorStatus[s] = "WFRTS"
  BY DEF LoggedInit, repository!RepositoryOf
<1>2. spectatorRace[s] = 0 /\ spectatorPc[s] = "controlCentre.waitForTheNextRace"
  BY DEF LoggedInit, Init
<1> QED
  BY <1>1, <1>2 DEF CopyIsKept, HoldsBet, HasBetFor, Showing

LEMMA CopiesAreKept == Logged => [](\A s \in Spectators : CopyIsKept(s))
<1> DEFINE Copies == \A s \in Spectators : CopyIsKept(s)
<1>1. Copies /\ (log \in Records) /\ ReportTypes' /\ BetsInv /\ MoneyInv
        /\ [LoggedNext]_loggedVars => Copies'
  BY CopiesNext
<1>2. LoggedInit => Copies
  BY CopiesInit
<1> HIDE DEF Copies
<1>3. Logged => []Copies
  BY <1>1, <1>2, RecordsAreKept, ReportsAreInRange, LoggedIsTimely, TimelyIsSpec,
     BetsAreInOrder, MoneyIsCovered, PTL DEF Logged
<1> QED
  BY <1>3 DEF Copies

(* In an event of any size, and whatever the delays of the requests, the   *)
(* log shows of every spectator that watches or collects the bet that the  *)
(* betting centre settles, also when the records of its race have been     *)
(* cleared before it did (GeneralInformationRepository.setSpectatorBet...  *)
(* and raceIsOver, newSnapshot).                                           *)
THEOREM LoggedBetsArePrinted == LoggedSpec => []BetsArePrinted
<1>1. ASSUME \A s \in Spectators : CopyIsKept(s)
      PROVE  BetsArePrinted
  <2> SUFFICES ASSUME NEW s \in Spectators, repository!PrintsCopy(log, s)
               PROVE  /\ repository!PrintedSelection(log, s) = bets[s].horse
                      /\ repository!PrintedAmount(log, s) = bets[s].amount
    BY DEF BetsArePrinted
  <2>1. BetIsCopied(s)
    BY <1>1 DEF CopyIsKept, Showing, repository!PrintsCopy
  <2>2. /\ log.temporarySpectators[s].betSelection = bets[s].horse
        /\ log.temporarySpectators[s].betAmount = bets[s].amount
    BY <2>1 DEF BetIsCopied
  <2>3. /\ repository!NoSelection.betSelection = NoHorse
        /\ repository!NoSelection.betAmount = 0
    BY DEF repository!NoSelection
  <2>4. CASE log.spectators[s] = log.temporarySpectators[s]
    BY <2>2, <2>4 DEF repository!PrintedSelection, repository!PrintedAmount
  <2>5. CASE log.spectators[s] = repository!NoSelection
    BY <2>2, <2>3, <2>5 DEF repository!PrintedSelection, repository!PrintedAmount
  <2> QED
    BY <2>1, <2>4, <2>5 DEF BetIsCopied
<1> QED
  BY <1>1, LoggedRuns, CopiesAreKept, PTL

-----------------------------------------------------------------------------
(* The places at the finish.                                               *)

(* From the first horse of a batch on the start line until the batch is    *)
(* buried, no more horses are counted at the finish than have left the     *)
(* track, started together or not.                                         *)
FinishersAreFew ==
  /\ numberOfFinishedHorses \in Nat /\ numberOfFinishedHorses <= NUMBER_OF_PAIRS_HORSE_JOCKEY
  /\ (\E h \in HorseJockeys : LinedUp(h) \/ h \in Off)
       => numberOfFinishedHorses <= Cardinality(Off)

LEMMA FinishersInit == Init => FinishersAreFew
<1> SUFFICES ASSUME Init PROVE FinishersAreFew
  OBVIOUS
<1>1. /\ numberOfFinishedHorses = 0
      /\ \A h \in HorseJockeys : horsePc[h] = "unborn"
  BY DEF Init, racingTrack!Init
<1>2. \A h \in HorseJockeys : ~LinedUp(h) /\ h \notin Off
  BY <1>1 DEF LinedUp, Off, OffTheTrack
<1> QED
  BY <1>1, <1>2, OffAreFew DEF FinishersAreFew

LEMMA OthersKeepFinishers ==
  ASSUME FinishersAreFew, UNCHANGED numberOfFinishedHorses, Off' = Off,
         \A h \in HorseJockeys : LinedUp(h)' <=> LinedUp(h)
  PROVE  FinishersAreFew'
BY DEF FinishersAreFew

LEMMA HorseKeepsFinishers ==
  ASSUME FinishersAreFew, TrackCalls, BatchTypes, NEW h \in HorseJockeys, HorseNext(h)
  PROVE  FinishersAreFew'
<1> USE DEF HorseReturns
<1>1. CASE HorseLinesUp(h)
  <2>1. /\ horsePc[h] = "racingTrack.proceedToStartLine"
        /\ \E m \in {"none", "proceedToStartLine"} : trackCall' = [trackCall EXCEPT ![h] = m]
        /\ trackCall'[h] = "none"
             => horsePc' = [horsePc EXCEPT ![h] = "racingTrack.hasFinishLineBeenCrossed"]
        /\ trackCall'[h] # "none"
             => horsePc' = [horsePc EXCEPT ![h] = "racingTrack.proceedToStartLine"]
    BY <1>1 DEF HorseLinesUp, racingTrack!proceedToStartLine, RacingTrackAnswers,
       racingTrack!resumeProceedToStartLine, racingTrack!WaitWhile, racingTrack!None,
       racingTrack!StartLine
  <2>2. /\ \A g \in HorseJockeys \ {h} :
             /\ horsePc'[g] = horsePc[g] /\ trackCall'[g] = trackCall[g]
             /\ LinedUp(g)' <=> LinedUp(g)
        /\ horsePc[h] \notin OffTheTrack /\ horsePc'[h] \notin OffTheTrack
        /\ LinedUp(h)'
    BY <2>1 DEF BatchTypes, LinedUp, OffTheTrack
  <2>3. Off' = Off
    BY <2>2 DEF Off
  <2>4. CASE racingTrack!proceedToStartLine(h)
    <3>1. numberOfFinishedHorses' = 0
      BY <2>4 DEF racingTrack!proceedToStartLine
    <3> QED
      BY <2>3, <3>1, OffAreFew DEF FinishersAreFew
  <2>5. CASE racingTrack!resumeProceedToStartLine(h)
    <3>1. /\ numberOfFinishedHorses' = numberOfFinishedHorses
          /\ LinedUp(h)
      BY <2>1, <2>5 DEF racingTrack!resumeProceedToStartLine, racingTrack!Notified,
         racingTrack!StartLine, LinedUp
    <3> QED
      BY <2>2, <2>3, <3>1, OthersKeepFinishers
  <2> QED
    BY <1>1, <2>4, <2>5 DEF HorseLinesUp
<1>2. CASE HorseChecksFinishLine(h)
  <2>1. /\ horsePc[h] = "racingTrack.hasFinishLineBeenCrossed"
        /\ trackCall' = trackCall
        /\ horsePc' = [horsePc EXCEPT ![h] = IF racingTrack!HasCrossed(h)
                                             THEN "controlCentre.makeAMove"
                                             ELSE "racingTrack.makeAMove"]
    BY <1>2 DEF HorseChecksFinishLine, racingTrack!hasFinishLineBeenCrossed
  <2>2. /\ horsePc'[h] = IF racingTrack!HasCrossed(h) THEN "controlCentre.makeAMove"
                                                      ELSE "racingTrack.makeAMove"
        /\ \A g \in HorseJockeys \ {h} :
             horsePc'[g] = horsePc[g] /\ (LinedUp(g)' <=> LinedUp(g))
    BY <2>1 DEF BatchTypes, LinedUp
  <2>3. LinedUp(h) /\ h \notin Off
    BY <2>1 DEF LinedUp, Off, OffTheTrack
  <2>4. /\ numberOfFinishedHorses \in Nat /\ numberOfFinishedHorses <= Cardinality(Off)
        /\ Cardinality(Off) \in Nat /\ IsFiniteSet(Off)
        /\ Cardinality(Off) < NUMBER_OF_PAIRS_HORSE_JOCKEY /\ NUMBER_OF_PAIRS_HORSE_JOCKEY \in Nat
    BY <2>3, OffAreFew DEF FinishersAreFew
  <2>5. CASE racingTrack!HasCrossed(h)
    <3>1. Off' = Off \cup {h}
      BY <2>2, <2>5 DEF Off, OffTheTrack
    <3>2. numberOfFinishedHorses' = numberOfFinishedHorses + 1
      BY <1>2, <2>5 DEF HorseChecksFinishLine, racingTrack!hasFinishLineBeenCrossed
    <3>3. Cardinality(Off') = Cardinality(Off) + 1
      BY <2>3, <2>4, <3>1, FS_AddElement
    <3> QED
      BY <2>4, <3>2, <3>3 DEF FinishersAreFew
  <2>6. CASE ~racingTrack!HasCrossed(h)
    <3>1. Off' = Off
      BY <2>1, <2>2, <2>6 DEF Off, OffTheTrack
    <3>2. LinedUp(h)'
      BY <2>2, <2>6 DEF LinedUp
    <3>3. numberOfFinishedHorses' = numberOfFinishedHorses
      BY <1>2, <2>6 DEF HorseChecksFinishLine, racingTrack!hasFinishLineBeenCrossed
    <3> QED
      BY <2>2, <2>3, <3>1, <3>2, <3>3, OthersKeepFinishers
  <2> QED
    BY <2>5, <2>6
<1>3. CASE HorseMoves(h)
  <2>1. /\ horsePc[h] = "racingTrack.makeAMove"
        /\ numberOfFinishedHorses' = numberOfFinishedHorses
        /\ \E m : trackCall' = [trackCall EXCEPT ![h] = m]
        /\ \E pc \in {"racingTrack.hasFinishLineBeenCrossed", "racingTrack.makeAMove"} :
             horsePc' = [horsePc EXCEPT ![h] = pc]
    BY <1>3 DEF HorseMoves, racingTrack!makeAMove, racingTrack!resumeMakeAMove,
       racingTrack!MoveOrWait, racingTrack!Wait, racingTrack!NotifyAllAndReturn,
       racingTrack!WaitWhile, racingTrack!Move, RacingTrackAnswers
  <2>2. /\ horsePc'[h] \in {"racingTrack.hasFinishLineBeenCrossed", "racingTrack.makeAMove"}
        /\ \A g \in HorseJockeys \ {h} : horsePc'[g] = horsePc[g] /\ trackCall'[g] = trackCall[g]
    BY <2>1 DEF BatchTypes
  <2>3. Off' = Off /\ \A g \in HorseJockeys : LinedUp(g)' <=> LinedUp(g)
    BY <2>1, <2>2 DEF Off, OffTheTrack, LinedUp
  <2> QED
    BY <2>1, <2>3, OthersKeepFinishers
<1>4. CASE ~HorseLinesUp(h) /\ ~HorseChecksFinishLine(h) /\ ~HorseMoves(h)
  <2>1. /\ UNCHANGED trackVars
        /\ \E pc : /\ horsePc' = [horsePc EXCEPT ![h] = pc]
                   /\ pc \in OffTheTrack <=> horsePc[h] \in OffTheTrack
                   /\ pc \notin {"racingTrack.hasFinishLineBeenCrossed", "racingTrack.makeAMove"}
                   /\ horsePc[h] \notin OnTheTrack
    BY <1>4 DEF HorseNext, HorseSetsAbility, HorseArrivesAtStable, HorseLeavesForPaddock,
       HorseParades, HorseLeavesPaddock, HorseFinishes, HorseGoesToRest, InBettingCentre,
       InStable, InControlCentre, InPaddock, OffTheTrack, OnTheTrack
  <2>2. trackCall[h] = "none"
    BY <2>1 DEF TrackCalls, OnTheTrack, BatchTypes, TrackMethods
  <2>3. /\ \A g \in HorseJockeys \ {h} : horsePc'[g] = horsePc[g]
        /\ horsePc'[h] \in OffTheTrack <=> horsePc[h] \in OffTheTrack
        /\ horsePc'[h] \notin {"racingTrack.hasFinishLineBeenCrossed", "racingTrack.makeAMove"}
        /\ horsePc[h] \notin OnTheTrack
    BY <2>1 DEF BatchTypes
  <2>4. Off' = Off /\ \A g \in HorseJockeys : LinedUp(g)' <=> LinedUp(g)
    BY <2>1, <2>2, <2>3 DEF Off, LinedUp, OnTheTrack, trackVars
  <2> QED
    BY <2>1, <2>4, OthersKeepFinishers DEF trackVars
<1> QED
  BY <1>1, <1>2, <1>3, <1>4

LEMMA FinishersNext ==
  FinishersAreFew /\ TrackCalls /\ StartInv /\ [Next]_vars => FinishersAreFew'
<1> SUFFICES ASSUME FinishersAreFew, TrackCalls, StartInv, [Next]_vars
             PROVE  FinishersAreFew'
  OBVIOUS
<1>1. BatchTypes
  BY DEF StartInv
<1>2. ASSUME UNCHANGED <<horsePc, trackCall, numberOfFinishedHorses>>
      PROVE  FinishersAreFew'
  BY <1>2, OthersKeepFinishers DEF Off, LinedUp
<1>3. CASE BrokerNext
  <2>1. UNCHANGED <<trackCall, numberOfFinishedHorses>>
    BY <1>3 DEF BrokerNext, BrokerSummonsHorses, BrokerAnnouncesRace,
       BrokerAcceptsBets, BrokerStartsRace, BrokerSupervisesRace, BrokerReportsResults,
       BrokerLooksForWinners, BrokerHonoursBets, BrokerSetsRace, BrokerEntertainsGuests,
       InStable, InControlCentre, InBettingCentre, InNoRegion, trackVars,
       racingTrack!startTheRace, racingTrack!setRace
  <2>2. UNCHANGED horsePc
    BY <1>3 DEF BrokerNext, BrokerSummonsHorses, BrokerAnnouncesRace,
       BrokerAcceptsBets, BrokerStartsRace, BrokerSupervisesRace, BrokerReportsResults,
       BrokerLooksForWinners, BrokerHonoursBets, BrokerSetsRace, BrokerEntertainsGuests,
       InStable, InControlCentre, InBettingCentre, InNoRegion, horseVars, BrokerReturns
  <2> QED
    BY <1>2, <2>1, <2>2
<1>4. CASE (\E s \in Spectators : SpectatorNext(s)) \/ UNCHANGED vars
  BY <1>2, <1>4, SpectatorsKeepStart DEF vars, horseVars, trackVars
<1>5. CASE \E h \in HorseJockeys : HorseNext(h)
  BY <1>1, <1>5, HorseKeepsFinishers
<1>6. CASE LaunchNextBatch
  <2>1. /\ UNCHANGED trackVars
        /\ \A h \in HorseJockeys : horsePc[h] = "deceased" /\ horsePc'[h] = "unborn"
    BY <1>6 DEF LaunchNextBatch, InNoRegion, InStable
  <2>2. \A h \in HorseJockeys : ~LinedUp(h)' /\ h \notin Off'
    BY <2>1 DEF LinedUp, Off, OffTheTrack
  <2> QED
    BY <2>1, <2>2, OffAreFew DEF FinishersAreFew, trackVars
<1>7. ASSUME NEW h \in HorseJockeys, LaunchHorse(h)
      PROVE  FinishersAreFew'
  <2>1. /\ UNCHANGED trackVars
        /\ horsePc[h] = "unborn" /\ horsePc'[h] = "bettingCentre.setAbility"
        /\ \A g \in HorseJockeys \ {h} : horsePc'[g] = horsePc[g]
    BY <1>1, <1>7 DEF LaunchHorse, InNoRegion, InStable, BatchTypes
  <2>2. Off' = Off /\ \A g \in HorseJockeys : LinedUp(g)' <=> LinedUp(g)
    BY <2>1 DEF Off, OffTheTrack, LinedUp, trackVars
  <2> QED
    BY <2>1, <2>2, OthersKeepFinishers DEF trackVars
<1> QED
  BY <1>3, <1>4, <1>5, <1>6, <1>7 DEF Next, LauncherNext

LEMMA FinishersAreCountedOnce == Spec => []FinishersAreFew
BY FinishersInit, FinishersNext, HorsesCallTheTrackInOrder, StartsAreInOrder, PTL DEF Spec

StandsAreFew ==
  \A h \in HorseJockeys :
    log.horseJockeys[h].finalStandPosition <= NUMBER_OF_PAIRS_HORSE_JOCKEY

LEMMA StandsNext ==
  StandsAreFew /\ log \in Records /\ ReportTypes /\ ReportTypes' /\ FinishersAreFew'
    /\ [LoggedNext]_loggedVars => StandsAreFew'
<1> SUFFICES ASSUME StandsAreFew, log \in Records, ReportTypes, ReportTypes', FinishersAreFew',
                    [LoggedNext]_loggedVars
             PROVE  StandsAreFew'
  OBVIOUS
<1>0. NUMBER_OF_PAIRS_HORSE_JOCKEY \in Nat
  BY OffAreFew
<1>1. SameRuns(log', log) => StandsAreFew'
  BY DEF SameRuns, SameStand, StandsAreFew
<1>2. CASE LoggedBroker
  BY <1>1, <1>2, BrokerRecords
<1>3. CASE BrokerEndsRace
  <2>1. \A h \in HorseJockeys : log'.horseJockeys[h] = repository!NoRun
    BY <1>3, EndIsRecorded DEF BrokerEndsRace
  <2> QED
    BY <1>0, <2>1 DEF StandsAreFew, repository!NoRun
<1>4. CASE \E s \in Spectators : LoggedSpectator(s)
  BY <1>1, <1>4, SpectatorRecords
<1>5. ASSUME NEW h \in HorseJockeys, LoggedHorse(h)
      PROVE  StandsAreFew'
  <2>1. /\ \A g \in HorseJockeys \ {h} : SameStand(log', log, g)
        /\ \/ SameStand(log', log, h)
           \/ log'.horseJockeys[h].finalStandPosition = 0
           \/ HorseIsRanked(h)
    BY <1>5, HorseRecords
  <2>2. HorseIsRanked(h)
          => log'.horseJockeys[h].finalStandPosition <= NUMBER_OF_PAIRS_HORSE_JOCKEY
    BY DEF HorseIsRanked, FinishersAreFew
  <2> QED
    BY <1>0, <2>1, <2>2 DEF SameStand, StandsAreFew
<1>6. CASE LoggedLauncher
  BY <1>1, <1>6, LauncherRecords
<1>7. CASE UNCHANGED loggedVars
  BY <1>7 DEF loggedVars, StandsAreFew
<1> QED
  BY <1>2, <1>3, <1>4, <1>5, <1>6, <1>7 DEF LoggedNext

LEMMA StandsInit == LoggedInit => StandsAreFew
<1> SUFFICES ASSUME LoggedInit, NEW h \in HorseJockeys
             PROVE  log.horseJockeys[h].finalStandPosition <= NUMBER_OF_PAIRS_HORSE_JOCKEY
  BY DEF StandsAreFew
<1>1. log.horseJockeys[h].finalStandPosition = 0
  BY DEF LoggedInit, repository!RepositoryOf, repository!NoRun
<1> QED
  BY <1>1, OffAreFew

LEMMA StandsAreCounted == Logged => []StandsAreFew
BY StandsInit, StandsNext, RecordsAreKept, ReportsAreInRange, FinishersAreCountedOnce,
   LoggedIsTimely, TimelyIsSpec, PTL DEF Logged

(* In an event of any size, whatever the delays, the records of the log    *)
(* keep their types: in particular a horse gets a place at the finish      *)
(* between the first and the last, as many as run                          *)
(* (setHorseJockeyFinalStandPosition, of the number that the horses count  *)
(* in RacingTrack.hasFinishLineBeenCrossed).                               *)
THEOREM LoggedLogTypeOK == LoggedSpec => []LogTypeOK
<1>1. ASSUME log \in Records, StandsAreFew
      PROVE  LogTypeOK
  <2>1. /\ log.brokerStatus \in repository!BrokerStates
        /\ log.spectatorStatus \in [Spectators -> repository!SpectatorStates]
        /\ log.amountOfMoney \in [Spectators -> Nat]
        /\ log.spectators \in [Spectators -> Selections]
        /\ log.temporarySpectators \in [Spectators -> Selections]
        /\ log.horseJockeyStatus \in [HorseJockeys -> repository!HorseJockeyStates]
        /\ log.currentRace.identification \in Races
    BY <1>1 DEF Records
  <2>2. log.horseJockeys \in [HorseJockeys ->
          [ability : Nat, probabilityToWin : Nat, numberOfIncrementsDid : Nat,
           positionOnTrack : Nat, finalStandPosition : 0 .. NUMBER_OF_PAIRS_HORSE_JOCKEY]]
    <3>1. log.horseJockeys \in [HorseJockeys -> RunRecords]
      BY <1>1 DEF Records
    <3>2. ASSUME NEW h \in HorseJockeys
          PROVE  log.horseJockeys[h].finalStandPosition \in 0 .. NUMBER_OF_PAIRS_HORSE_JOCKEY
      <4>1. log.horseJockeys[h].finalStandPosition \in Nat
        BY <3>1 DEF RunRecords
      <4> QED
        BY <1>1, <4>1, OffAreFew DEF StandsAreFew
    <3> QED
      BY <3>1, <3>2 DEF RunRecords
  <2>3. /\ repository!Races = Races
        /\ repository!NUMBER_OF_PAIRS_HORSE_JOCKEY = NUMBER_OF_PAIRS_HORSE_JOCKEY
    BY DEF repository!Races, Races, repository!NUMBER_OF_PAIRS_HORSE_JOCKEY,
       NUMBER_OF_PAIRS_HORSE_JOCKEY, repository!Cardinality, Cardinality
  <2> QED
    BY <2>1, <2>2, <2>3 DEF LogTypeOK, repository!TypeOK, Selections
<1> QED
  BY <1>1, LoggedRuns, RecordsAreKept, StandsAreCounted, PTL

-----------------------------------------------------------------------------
(* The run of a race in the log.                                           *)

RunIsRecorded(h) ==
  LET run == log.horseJockeys[h]
  IN /\ run.positionOnTrack = currentHorsesPositions[h]
     /\ run.positionOnTrack \in
          run.numberOfIncrementsDid .. run.numberOfIncrementsDid * horseAbility[h]

(* The broker clears the records of a race before it calls for the next    *)
(* one, so that they are clear when it starts; from then on they follow    *)
(* the horses until they rest.                                             *)
EndIsToCome ==
  raceToEnd => brokerPc \in {"stable.summonHorsesToPaddock", "controlCentre.entertainTheGuests"}

RecordsAreClear ==
  \A h \in HorseJockeys : /\ log.horseJockeys[h].positionOnTrack = 0
                          /\ log.horseJockeys[h].numberOfIncrementsDid = 0

RunsAreRecorded == \A h \in HorseJockeys \ Rested : RunIsRecorded(h)

RecordsInv ==
  /\ EndIsToCome
  /\ ~raceToEnd /\ Started = brokerRace => RecordsAreClear
  /\ Started > Reported /\ batch = Reported => RunsAreRecorded

LEMMA RecordsInvInit == LoggedInit => RecordsInv
<1> SUFFICES ASSUME LoggedInit PROVE RecordsInv
  OBVIOUS
<1>1. /\ brokerPc = "stable.summonHorsesToPaddock" /\ brokerRace = 0
      /\ ~raceToEnd
      /\ \A h \in HorseJockeys : log.horseJockeys[h] = repository!NoRun
  BY DEF LoggedInit, Init, repository!RepositoryOf
<1>2. Started = 0 /\ Reported = 0
  BY <1>1 DEF Started, Reported, BeforeAcceptance, AfterReport
<1> QED
  BY <1>1, <1>2 DEF RecordsInv, EndIsToCome, RecordsAreClear, repository!NoRun

LEMMA ClearRecordsStay ==
  ASSUME RecordsAreClear, \A h \in HorseJockeys : SamePlace(log', log, h)
  PROVE  RecordsAreClear'
BY DEF RecordsAreClear, SamePlace

LEMMA RunStaysRecorded ==
  ASSUME NEW h \in HorseJockeys, RunIsRecorded(h), SamePlace(log', log, h),
         currentHorsesPositions'[h] = currentHorsesPositions[h],
         horseAbility'[h] = horseAbility[h]
  PROVE  RunIsRecorded(h)'
BY DEF RunIsRecorded, SamePlace

LEMMA OthersKeepRecords ==
  ASSUME RecordsInv, SameRuns(log', log), Rested \subseteq Rested',
         UNCHANGED <<raceToEnd, brokerPc, brokerRace, batch, currentHorsesPositions,
                     horseAbility>>
  PROVE  RecordsInv'
<1>1. Started' = Started /\ Reported' = Reported
  BY DEF Started, Reported
<1>2. RecordsAreClear => RecordsAreClear'
  BY ClearRecordsStay DEF SameRuns
<1>3. RunsAreRecorded => RunsAreRecorded'
  BY RunStaysRecorded DEF RunsAreRecorded, SameRuns
<1>4. EndIsToCome'
  BY DEF RecordsInv, EndIsToCome
<1> QED
  BY <1>1, <1>2, <1>3, <1>4 DEF RecordsInv

(* When the broker starts a race the horses are at the start and their     *)
(* records are clear.                                                      *)
LEMMA StartKeepsRecords ==
  ASSUME RecordsInv, log \in Records, ReportTypes, ReportTypes', TrackInv, RaceInv,
         AllAreInPlace, LoggedBroker, BrokerStartsRace
  PROVE  RecordsInv'
<1>1. /\ brokerPc = "racingTrack.startTheRace" /\ brokerPc' = "controlCentre.startTheRace"
      /\ UNCHANGED <<horsePc, horseAbility, batch, brokerRace, currentHorsesPositions>>
      /\ brokerRace \in Nat /\ batch \in Nat
  BY DEF BrokerStartsRace, BrokerReturns, racingTrack!startTheRace, racingTrack!runVars,
     horseVars, RaceInv, BetsInv, BetTypes, StartInv, BatchTypes
<1>2. /\ Started = brokerRace /\ Started' = brokerRace + 1 /\ Reported' = brokerRace
  BY <1>1 DEF Started, Reported, BeforeAcceptance, AfterReport
<1>3. /\ ~raceToEnd /\ ~raceToEnd'
      /\ \A h \in HorseJockeys : trackCall[h] = "proceedToStartLine"
  BY <1>1 DEF LoggedBroker, RaceHasEnded, LineUpBeforeTheStart, AllAreInPlace
<1>4. \A h \in HorseJockeys : SamePlace(log', log, h)
  BY BrokerRecords DEF SameRuns
<1>5. RecordsAreClear'
  BY <1>2, <1>3, <1>4, ClearRecordsStay DEF RecordsInv
<1>6. ASSUME batch = brokerRace, NEW h \in HorseJockeys
      PROVE  RunIsRecorded(h)'
  <2>1. LinedUp(h)
    BY <1>3 DEF RaceInv, TrackCalls, LinedUp
  <2>2. currentHorsesPositions[h] = 0
    BY <1>1, <1>2, <1>6, <2>1 DEF TrackInv, AtTheStart
  <2>3. /\ log'.horseJockeys[h].positionOnTrack = 0
        /\ log'.horseJockeys[h].numberOfIncrementsDid = 0
    BY <1>5 DEF RecordsAreClear
  <2>4. horseAbility[h] \in Nat
    BY DEF ReportTypes
  <2> QED
    BY <1>1, <2>2, <2>3, <2>4 DEF RunIsRecorded
<1>7. RunsAreRecorded' \/ batch' # Reported'
  BY <1>1, <1>2, <1>6 DEF RunsAreRecorded
<1> QED
  BY <1>1, <1>2, <1>3, <1>7 DEF RecordsInv, EndIsToCome

LEMMA BrokerKeepsRecords ==
  ASSUME RecordsInv, log \in Records, ReportTypes, ReportTypes', TrackInv, RaceInv,
         AllAreInPlace, LoggedBroker
  PROVE  RecordsInv'
<1>1. CASE BrokerStartsRace
  BY <1>1, StartKeepsRecords
<1>2. CASE ~BrokerStartsRace
  <2>1. BrokerNext /\ ~raceToEnd /\ raceToEnd' = RaceHasEnded
    BY LoggedBrokerIsTimely DEF LoggedBroker, TimelyBroker
  <2>2. UNCHANGED <<horsePc, horseAbility, batch, currentHorsesPositions>>
    BY <1>2, <2>1 DEF BrokerNext, BrokerSummonsHorses, BrokerAnnouncesRace,
       BrokerAcceptsBets, BrokerSupervisesRace, BrokerReportsResults, BrokerLooksForWinners,
       BrokerHonoursBets, BrokerSetsRace, BrokerEntertainsGuests, InStable, InControlCentre,
       InBettingCentre, InNoRegion, trackVars, horseVars, BrokerReturns, racingTrack!setRace,
       racingTrack!runVars
  <2>3. /\ Started' = Started /\ (BrokerReportsResults \/ Reported' = Reported)
    BY <1>2, <2>1, BrokerStages DEF RaceInv, BetsInv
  <2>4. BrokerReportsResults => Started' = Reported'
    BY DEF BrokerReportsResults, BrokerReturns, Started, Reported, BeforeAcceptance, AfterReport
  <2>5. \A h \in HorseJockeys : SamePlace(log', log, h)
    BY BrokerRecords DEF SameRuns
  <2>6. EndIsToCome'
    BY <2>1 DEF EndIsToCome, RaceHasEnded
  <2>7. ~raceToEnd' /\ Started' = brokerRace' => RecordsAreClear'
    <3>1. CASE Started = brokerRace
      BY <2>1, <2>5, <3>1, ClearRecordsStay DEF RecordsInv
    <3>2. CASE Started # brokerRace
      <4>1. /\ brokerPc \notin BeforeAcceptance \cup {"racingTrack.startTheRace"}
            /\ Started = brokerRace + 1 /\ brokerRace \in Nat
        BY <3>2 DEF Started, RaceInv, BetsInv, BetTypes
      <4>2. brokerRace' = brokerRace \/ BrokerSetsRace
        BY <2>1 DEF BrokerNext, BrokerSummonsHorses, BrokerAnnouncesRace, BrokerAcceptsBets,
           BrokerStartsRace, BrokerSupervisesRace, BrokerReportsResults, BrokerLooksForWinners,
           BrokerHonoursBets, BrokerEntertainsGuests
      <4>3. BrokerSetsRace => raceToEnd'
        BY <2>1 DEF BrokerSetsRace, BrokerReturns, RaceHasEnded
      <4> QED
        BY <2>3, <4>1, <4>2, <4>3
    <3> QED
      BY <3>1, <3>2
  <2>8. Started' > Reported' /\ batch' = Reported' => RunsAreRecorded'
    <3> SUFFICES ASSUME Started' > Reported', batch' = Reported', NEW h \in HorseJockeys,
                        h \notin Rested'
                 PROVE  RunIsRecorded(h)'
      BY DEF RunsAreRecorded
    <3>1. Reported' = Reported
      <4>1. Started' \in Nat
        BY <2>3, BrokerProgress DEF RaceInv, BetsInv
      <4> QED
        BY <2>3, <2>4, <4>1
    <3>2. RunIsRecorded(h)
      BY <2>2, <2>3, <3>1 DEF RecordsInv, RunsAreRecorded, Rested
    <3> QED
      BY <2>2, <2>5, <3>2, RunStaysRecorded
  <2> QED
    BY <2>6, <2>7, <2>8 DEF RecordsInv
<1> QED
  BY <1>1, <1>2

(* The end of a race is recorded when none is being run.                   *)
LEMMA EndKeepsRecords ==
  ASSUME RecordsInv, log \in Records, RaceInv, BrokerEndsRace
  PROVE  RecordsInv'
<1>1. /\ raceToEnd /\ ~raceToEnd'
      /\ UNCHANGED <<brokerPc, brokerRace>>
  BY DEF BrokerEndsRace, vars, brokerVars
<1>2. brokerPc \in {"stable.summonHorsesToPaddock", "controlCentre.entertainTheGuests"}
      /\ brokerRace \in Nat
  BY <1>1 DEF RecordsInv, EndIsToCome, RaceInv, BetsInv, BetTypes
<1>3. Started' = Reported' /\ Reported' \in Nat
  <2>1. Started' = Started /\ Reported' = Reported
    BY <1>1 DEF Started, Reported
  <2>2. CASE brokerPc = "stable.summonHorsesToPaddock"
    <3>1. Started = brokerRace /\ Reported = brokerRace
      BY <2>2 DEF Started, Reported, BeforeAcceptance, AfterReport
    <3> QED
      BY <1>2, <2>1, <3>1
  <2>3. CASE brokerPc = "controlCentre.entertainTheGuests"
    <3>1. Started = brokerRace + 1 /\ Reported = brokerRace + 1
      BY <2>3 DEF Started, Reported, BeforeAcceptance, AfterReport
    <3> QED
      BY <1>2, <2>1, <3>1
  <2> QED
    BY <1>2, <2>2, <2>3
<1>4. \A h \in HorseJockeys : log'.horseJockeys[h] = repository!NoRun
  BY EndIsRecorded DEF BrokerEndsRace
<1>5. RecordsAreClear'
  BY <1>4 DEF RecordsAreClear, repository!NoRun
<1> QED
  BY <1>1, <1>3, <1>5 DEF RecordsInv, EndIsToCome

(* A horse that moves takes at most as many steps as it is able to, in a   *)
(* race that has been started and not reported; and the track is cleared   *)
(* under no horse that runs.                                               *)
LEMMA MoveKeepsRecords ==
  ASSUME RecordsInv, log \in Records, ReportTypes, RaceInv,
         NEW h \in HorseJockeys, HorseIsPlaced(h),
         \A g \in HorseJockeys \ {h} : SamePlace(log', log, g),
         UNCHANGED <<raceToEnd, brokerPc, brokerRace, batch, horseAbility>>,
         Rested \subseteq Rested'
  PROVE  RecordsInv'
<1>1. /\ horsePc[h] = "racingTrack.makeAMove" /\ trackCall'[h] = "none"
      /\ racingTrack!MoveOrWait(h, horseAbility[h])
      /\ log'.horseJockeys[h].positionOnTrack = currentHorsesPositions'[h]
      /\ log'.horseJockeys[h].numberOfIncrementsDid
           = log.horseJockeys[h].numberOfIncrementsDid + 1
  BY DEF HorseIsPlaced, HorseMoves, HorseReturns, RacingTrackAnswers, racingTrack!makeAMove,
     racingTrack!resumeMakeAMove
<1>2. Started' = Started /\ Reported' = Reported
  BY DEF Started, Reported
<1>3. /\ Started > batch /\ h \notin Rested
      /\ batch \in Nat /\ BetTypes /\ trackCall \in [HorseJockeys -> TrackMethods]
      /\ currentHorsesPositions \in [HorseJockeys -> Nat]
  BY <1>1 DEF RaceInv, StartInv, BatchTypes, HasStarted, Rested, BetsInv
<1>4. Started # brokerRace
  <2>1. batch >= Reported
    BY <1>3, BrokerProgress DEF RaceInv, SupervisionInv, EarlierAreAtRest
  <2>2. Reported >= brokerRace /\ brokerRace \in Nat
    BY <1>3 DEF Reported, BetTypes
  <2> QED
    BY <1>3, <2>1, <2>2, BrokerProgress
<1>5. PICK steps \in 1 .. horseAbility[h] :
        currentHorsesPositions' = [currentHorsesPositions EXCEPT ![h] = @ + steps]
  BY <1>1, <1>3 DEF racingTrack!MoveOrWait, racingTrack!Advance, racingTrack!Wait,
     racingTrack!WaitWhile, racingTrack!None, racingTrack!Move, racingTrack!NoReply
<1>6. ASSUME RunsAreRecorded, NEW g \in HorseJockeys, g \notin Rested'
      PROVE  RunIsRecorded(g)'
  <2>1. RunIsRecorded(g)
    BY <1>6 DEF RunsAreRecorded
  <2>2. CASE g # h
    <3>1. currentHorsesPositions'[g] = currentHorsesPositions[g]
      BY <1>3, <1>5, <2>2
    <3> QED
      BY <2>1, <2>2, <3>1, RunStaysRecorded
  <2>3. CASE g = h
    <3> DEFINE i == log.horseJockeys[h].numberOfIncrementsDid
               p == currentHorsesPositions[h]
               a == horseAbility[h]
    <3>1. /\ i \in Nat /\ p \in Nat /\ a \in Nat /\ steps \in 1 .. a
          /\ log.horseJockeys[h].positionOnTrack = p
          /\ log.horseJockeys[h].positionOnTrack \in i .. i * a
      BY <1>3, <2>1, <2>3 DEF RunIsRecorded, ReportTypes, Records, RunRecords
    <3>2. /\ currentHorsesPositions'[h] = p + steps
          /\ log'.horseJockeys[h].positionOnTrack = p + steps
          /\ log'.horseJockeys[h].numberOfIncrementsDid = i + 1
          /\ horseAbility'[h] = a
      BY <1>1, <1>3, <1>5
    <3> HIDE DEF i, p, a
    <3>3. p \in i .. i * a
      BY <3>1
    <3>4. (i + 1) * a = i * a + a /\ i * a \in Nat
      BY <3>1
    <3>5. PICK ia \in Nat : ia = i * a
      BY <3>4
    <3>6. p + steps \in (i + 1) .. (ia + a)
      BY <3>1, <3>3, <3>5
    <3>7. p + steps \in (i + 1) .. (i + 1) * a
      BY <3>4, <3>5, <3>6
    <3> QED
      BY <2>3, <3>2, <3>7 DEF RunIsRecorded
  <2> QED
    BY <2>2, <2>3
<1>7. RunsAreRecorded => RunsAreRecorded'
  BY <1>6 DEF RunsAreRecorded
<1>8. EndIsToCome'
  BY DEF RecordsInv, EndIsToCome
<1> QED
  BY <1>2, <1>4, <1>7, <1>8 DEF RecordsInv

LEMMA HorseKeepsRecords ==
  ASSUME RecordsInv, log \in Records, ReportTypes, ReportTypes', TrackInv, RaceInv,
         NEW h \in HorseJockeys, LoggedHorse(h)
  PROVE  RecordsInv'
<1>1. HorseNext(h) /\ UNCHANGED raceToEnd
  BY LoggedHorseIsTimely DEF TimelyHorse, LoggedHorse
<1>2. UNCHANGED <<brokerPc, brokerRace, batch, horseAbility>>
  BY <1>1 DEF HorseNext, HorseSetsAbility, HorseArrivesAtStable, HorseLeavesForPaddock,
     HorseParades, HorseLeavesPaddock, HorseLinesUp, HorseChecksFinishLine, HorseMoves,
     HorseFinishes, HorseGoesToRest, HorseReturns, brokerVars
<1>3. /\ batch \in Nat /\ BetTypes /\ horsePc \in [HorseJockeys -> HorsePcs]
      /\ trackCall \in [HorseJockeys -> TrackMethods]
  BY DEF RaceInv, StartInv, BatchTypes, BetsInv
<1>4. Rested \subseteq Rested'
  <2>1. \E pc : /\ horsePc' = [horsePc EXCEPT ![h] = pc]
                /\ horsePc[h] \in {"stable.proceedToStable()", "deceased"}
                     => pc \in {"stable.proceedToStable()", "deceased"}
    BY <1>1 DEF HorseNext, HorseSetsAbility, HorseArrivesAtStable, HorseLeavesForPaddock,
       HorseParades, HorseLeavesPaddock, HorseLinesUp, HorseChecksFinishLine, HorseMoves,
       HorseFinishes, HorseGoesToRest, HorseReturns
  <2> QED
    BY <1>3, <2>1 DEF Rested
<1>5. \A g \in HorseJockeys \ {h} : SamePlace(log', log, g)
  BY HorseRecords
<1>6. CASE HorseIsPlaced(h)
  BY <1>1, <1>2, <1>4, <1>5, <1>6, MoveKeepsRecords
<1>7. CASE HorseStaysPlaced(h)
  <2>1. \A g \in HorseJockeys : SamePlace(log', log, g)
    BY <1>5, <1>7 DEF HorseStaysPlaced
  <2>2. Started' = Started /\ Reported' = Reported
    BY <1>2 DEF Started, Reported
  <2>3. RecordsAreClear => RecordsAreClear'
    BY <2>1, ClearRecordsStay
  <2>4. EndIsToCome'
    BY <1>1, <1>2 DEF RecordsInv, EndIsToCome
  <2>5. CASE currentHorsesPositions' = currentHorsesPositions
    <3>1. RunsAreRecorded => RunsAreRecorded'
      BY <1>2, <1>4, <2>1, <2>5, RunStaysRecorded DEF RunsAreRecorded
    <3> QED
      BY <1>1, <1>2, <2>2, <2>3, <2>4, <3>1 DEF RecordsInv
  <2>6. CASE currentHorsesPositions' # currentHorsesPositions
    <3>1. \/ HorseMoves(h)
          \/ HorseLinesUp(h) /\ racingTrack!proceedToStartLine(h)
      BY <1>1, <2>6 DEF HorseNext, HorseSetsAbility, HorseArrivesAtStable,
         HorseLeavesForPaddock, HorseParades, HorseLeavesPaddock, HorseLinesUp,
         HorseChecksFinishLine, HorseFinishes, HorseGoesToRest, InBettingCentre, InStable,
         InControlCentre, InPaddock, trackVars, racingTrack!hasFinishLineBeenCrossed,
         racingTrack!resumeProceedToStartLine, racingTrack!runVars
    <3>2. ~HorseMoves(h)
      <4>1. SUFFICES ASSUME HorseMoves(h), ~RacingTrackAnswers(h) PROVE FALSE
        BY <1>7 DEF HorseStaysPlaced, HorseMoves, HorseReturns
      <4>2. racingTrack!MoveOrWait(h, horseAbility[h]) /\ trackCall'[h] # "none"
        BY <4>1 DEF HorseMoves, RacingTrackAnswers, racingTrack!makeAMove,
           racingTrack!resumeMakeAMove
      <4> QED
        BY <1>3, <2>6, <4>2 DEF racingTrack!MoveOrWait, racingTrack!NotifyAllAndReturn,
           racingTrack!WaitWhile, racingTrack!None, racingTrack!runVars
    <3>3. horsePc[h] = "racingTrack.proceedToStartLine" /\ trackCall[h] = "none"
      BY <3>1, <3>2 DEF HorseLinesUp, HorseReturns, racingTrack!proceedToStartLine,
         racingTrack!Outside, racingTrack!None
    <3>4. ~LinedUp(h) /\ h \notin Off
      BY <3>3 DEF LinedUp, Off, OffTheTrack
    <3>5. ~(Started > batch)
      BY <3>4 DEF TrackInv, Underway
    <3> QED
      BY <1>1, <1>2, <1>3, <2>2, <2>3, <2>4, <3>5, BrokerProgress DEF RecordsInv
  <2> QED
    BY <2>5, <2>6
<1> QED
  BY <1>6, <1>7, HorseRecords

LEMMA LauncherKeepsRecords ==
  ASSUME RecordsInv, log \in Records, ReportTypes', TrackInv, RaceInv, LoggedLauncher
  PROVE  RecordsInv'
<1>1. /\ LauncherNext
      /\ UNCHANGED <<raceToEnd, brokerPc, brokerRace, currentHorsesPositions>>
  BY DEF LoggedLauncher, LauncherNext, LaunchNextBatch, LaunchHorse, InNoRegion, InStable,
     trackVars, brokerVars
<1>2. TrackInv'
  BY <1>1, LauncherKeepsTrack DEF RaceInv
<1>3. Started' = Started /\ Reported' = Reported
  BY <1>1 DEF Started, Reported
<1>4. RecordsAreClear => RecordsAreClear'
  BY LauncherRecords, ClearRecordsStay DEF SameRuns
<1>5. EndIsToCome'
  BY <1>1 DEF RecordsInv, EndIsToCome
<1>6. ~(Started' > batch')
  <2>1. PICK h \in HorseJockeys :
          \/ horsePc[h] = "unborn" /\ batch' = batch /\ ~(Started > batch)
          \/ horsePc'[h] = "unborn"
    <3>1. CASE LaunchNextBatch
      <4>1. PICK h \in HorseJockeys : TRUE
        BY ConfigurationAssumption DEF ConfigurationAssumption
      <4> QED
        BY <3>1, <4>1 DEF LaunchNextBatch
    <3>2. ASSUME NEW h \in HorseJockeys, LaunchHorse(h)
          PROVE  horsePc[h] = "unborn" /\ batch' = batch /\ ~(Started > batch)
      <4>1. horsePc[h] = "unborn" /\ batch' = batch
        BY <3>2 DEF LaunchHorse
      <4>2. ~LinedUp(h) /\ h \notin Off
        BY <4>1 DEF LinedUp, Off, OffTheTrack
      <4> QED
        BY <4>1, <4>2 DEF TrackInv, Underway
    <3> QED
      BY <1>1, <3>1, <3>2 DEF LauncherNext
  <2>2. CASE horsePc'[h] = "unborn"
    <3>1. ~LinedUp(h)' /\ h \notin Off'
      BY <2>2 DEF LinedUp, Off, OffTheTrack
    <3> QED
      BY <1>2, <3>1 DEF TrackInv, Underway
  <2> QED
    BY <1>3, <2>1, <2>2
<1>7. ~(Started' > Reported' /\ batch' = Reported')
  BY <1>6
<1> QED
  BY <1>1, <1>3, <1>4, <1>5, <1>7 DEF RecordsInv

LEMMA RecordsInvNext ==
  ASSUME AllAreInPlace
  PROVE  RecordsInv /\ (log \in Records) /\ ReportTypes /\ ReportTypes' /\ TrackInv /\ RaceInv
           /\ [LoggedNext]_loggedVars => RecordsInv'
<1> SUFFICES ASSUME RecordsInv, log \in Records, ReportTypes, ReportTypes', TrackInv, RaceInv,
                    [LoggedNext]_loggedVars
             PROVE  RecordsInv'
  OBVIOUS
<1>1. CASE LoggedBroker
  BY <1>1, BrokerKeepsRecords
<1>2. CASE BrokerEndsRace
  BY <1>2, EndKeepsRecords
<1>3. ASSUME NEW s \in Spectators, LoggedSpectator(s)
      PROVE  RecordsInv'
  <2>1. SpectatorNext(s) /\ UNCHANGED raceToEnd
    BY <1>3, LoggedSpectatorIsTimely DEF LoggedSpectator, TimelySpectator
  <2>2. UNCHANGED <<trackVars, brokerVars, horseVars>>
    BY <2>1, SpectatorsKeepStart
  <2>3. UNCHANGED <<raceToEnd, brokerPc, brokerRace, batch, currentHorsesPositions,
                    horseAbility, horsePc>>
    BY <2>1, <2>2 DEF trackVars, brokerVars, horseVars
  <2>4. Rested \subseteq Rested'
    BY <2>3 DEF Rested
  <2>5. SameRuns(log', log)
    BY <1>3, SpectatorRecords
  <2> QED
    BY <2>3, <2>4, <2>5, OthersKeepRecords
<1>4. ASSUME NEW h \in HorseJockeys, LoggedHorse(h)
      PROVE  RecordsInv'
  BY <1>4, HorseKeepsRecords
<1>5. CASE LoggedLauncher
  BY <1>5, LauncherKeepsRecords
<1>6. CASE UNCHANGED loggedVars
  <2>1. log' = log /\ UNCHANGED <<raceToEnd, trackVars, brokerVars, horseVars>>
    BY <1>6 DEF loggedVars, vars
  <2>2. UNCHANGED <<raceToEnd, brokerPc, brokerRace, batch, currentHorsesPositions,
                    horseAbility, horsePc>>
    BY <2>1 DEF trackVars, brokerVars, horseVars
  <2>3. Rested \subseteq Rested'
    BY <2>2 DEF Rested
  <2>4. SameRuns(log', log)
    BY <2>1 DEF SameRuns, SamePlace, SameStand
  <2> QED
    BY <2>2, <2>3, <2>4, OthersKeepRecords
<1> QED
  BY <1>1, <1>2, <1>3, <1>4, <1>5, <1>6 DEF LoggedNext

LEMMA RecordsFollowTheRuns ==
  ASSUME AllAreInPlace
  PROVE  Logged => []RecordsInv
<1>1. LoggedInit => RecordsInv
  BY RecordsInvInit
<1>2. RecordsInv /\ (log \in Records) /\ ReportTypes /\ ReportTypes' /\ TrackInv /\ RaceInv
        /\ [LoggedNext]_loggedVars => RecordsInv'
  BY RecordsInvNext
<1>3. Logged => [](log \in Records)
  BY RecordsAreKept
<1>4. Timely => []TrackInv /\ []RaceInv
  BY RacesAreRun, RacesAreInTheirPlace, PTL
<1> QED
  BY <1>1, <1>2, <1>3, <1>4, ReportsAreInRange, LoggedIsTimely, PTL DEF Logged

(* In an event of any size in which horses and spectators are in place for *)
(* the start and the finish of a race, a line of the log shows of a running horse where it is on the    *)
(* track, after as many moves as that can take: neither the moves of the   *)
(* race before, nor the late request of the broker that clears them, show  *)
(* up in this one (GeneralInformationRepository.setHorseJockeyMove,        *)
(* raceIsOver; RacingTrack.proceedToStartLine).                            *)
THEOREM LoggedRunIsPrinted ==
  ASSUME AllAreInPlace
  PROVE  LoggedSpec => []RunIsPrinted
<1>1. ASSUME RecordsInv, RaceInv, NEW h \in HorseJockeys,
             horsePc[h] \in {"racingTrack.hasFinishLineBeenCrossed",
                             "racingTrack.makeAMove", "controlCentre.makeAMove"}
      PROVE  RunIsRecorded(h)
  <2>1. h \notin Rested /\ HasStarted(h)
    BY <1>1 DEF Rested, HasStarted, OffTheTrack
  <2>2. Started > batch /\ batch \in Nat
    BY <1>1, <2>1 DEF RaceInv, StartInv, BatchTypes
  <2>3. Reported \in Nat /\ Started \in Nat /\ Started <= Reported + 1
    BY <1>1, RaceBeingRun DEF RaceInv, BetsInv
  <2>4. ~(batch < Reported)
    BY <1>1, <2>1 DEF RaceInv, SupervisionInv, EarlierAreAtRest
  <2>5. batch = Reported /\ Started > Reported
    BY <2>2, <2>3, <2>4
  <2> QED
    BY <1>1, <2>1, <2>5 DEF RecordsInv, RunsAreRecorded
<1>2. RecordsInv /\ RaceInv => RunIsPrinted
  BY <1>1 DEF RunIsPrinted, RunIsRecorded
<1> QED
  BY <1>2, RecordsFollowTheRuns, RacesAreInTheirPlace, LoggedRuns, LoggedIsTimely, PTL
=============================================================================
