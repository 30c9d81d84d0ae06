-------------------------- MODULE HippodromeProofs --------------------------
(***************************************************************************)
(* The whole simulation, for an event of any size, whatever the delays of  *)
(* the requests; and the paddock alone.                                    *)
(***************************************************************************)
EXTENDS HippodromeSafety, ConfigurationProofs, SequenceTheorems

BrokerPcs == {"stable.summonHorsesToPaddock", "controlCentre.summonHorsesToPaddock",
              "bettingCentre.acceptTheBets", "racingTrack.startTheRace",
              "controlCentre.startTheRace", "controlCentre.reportResults",
              "bettingCentre.areThereAnyWinners", "bettingCentre.honourTheBets",
              "racingTrack.setRace", "controlCentre.entertainTheGuests",
              "playing host at the bar"}

SpectatorPcs == {"controlCentre.waitForTheNextRace", "paddock.goCheckHorses()",
                 "controlCentre.goCheckHorses", "paddock.goCheckHorses(boolean)",
                 "bettingCentre.placeABet", "controlCentre.goWatchTheRace",
                 "bettingCentre.haveIWon", "bettingCentre.goCollectTheGains",
                 "controlCentre.relaxABit", "celebrating"}

(***************************************************************************)
(* The broker's progress, as the number of races it is done with at four   *)
(* places of its iteration.                                                *)
(***************************************************************************)
BeforeAcceptance == {"stable.summonHorsesToPaddock", "controlCentre.summonHorsesToPaddock",
                     "bettingCentre.acceptTheBets"}
AfterReport == {"bettingCentre.areThereAnyWinners", "bettingCentre.honourTheBets",
                "racingTrack.setRace", "controlCentre.entertainTheGuests",
                "playing host at the bar"}

Accepted == IF brokerPc \in BeforeAcceptance THEN brokerRace ELSE brokerRace + 1
Started ==
  IF brokerPc \in BeforeAcceptance \cup {"racingTrack.startTheRace"}
  THEN brokerRace ELSE brokerRace + 1
Reported == IF brokerPc \in AfterReport THEN brokerRace + 1 ELSE brokerRace
Decided ==
  IF brokerPc \in AfterReport \ {"bettingCentre.areThereAnyWinners"}
  THEN brokerRace + 1 ELSE brokerRace

(* The methods of the control centre and of the betting centre that block. *)
CentreMethods == {"none", "summonHorsesToPaddock", "startTheRace", "waitForTheNextRace",
                  "goWatchTheRace"}
BettingMethods == {"none", "acceptTheBets", "honourTheBets", "placeABet", "haveIWon",
                   "goCollectTheGains", "failed"}

-----------------------------------------------------------------------------
(* The bets.                                                               *)

BetTypes ==
  /\ brokerPc \in BrokerPcs
  /\ brokerRace \in Nat
  /\ spectatorPc \in [Spectators -> SpectatorPcs]
  /\ spectatorRace \in [Spectators -> Nat]
  /\ bettingQueue \in Seq(Spectators)
  /\ brokerDidNotReportResults \in BOOLEAN
  /\ brokerDoesNotAllowToProceedToHaveIWon \in BOOLEAN
  /\ centreCall \in [Spectators \cup {Broker} -> CentreMethods]
  /\ bettingCall \in [Spectators \cup {Broker} -> BettingMethods]

(* haveIWon lets nobody pass between acceptTheBets and areThereAnyWinners. *)
ResultsAreHeldBack ==
  /\ bettingCall[Broker] # "none"
       => brokerPc \in {"bettingCentre.acceptTheBets", "bettingCentre.honourTheBets"}
  /\ ~brokerDoesNotAllowToProceedToHaveIWon
    => /\ brokerPc \in (AfterReport \ {"bettingCentre.areThereAnyWinners"}) \cup BeforeAcceptance
       /\ brokerPc = "bettingCentre.acceptTheBets" => bettingCall[Broker] # "acceptTheBets"

QueuedOnce ==
  \A i, j \in 1 .. Len(bettingQueue) : bettingQueue[i] = bettingQueue[j] => i = j

(* The races s has entered, in waitForTheNextRace.                         *)
Entered(s) ==
  IF \/ spectatorPc[s] = "controlCentre.waitForTheNextRace" /\ centreCall[s] = "none"
     \/ spectatorPc[s] \in {"controlCentre.relaxABit", "celebrating"}
  THEN spectatorRace[s] ELSE spectatorRace[s] + 1

(* A spectator is inside a method only where its life cycle has called it. *)
WaitsWhereItCalled(s) ==
  /\ centreCall[s] # "none" => spectatorPc[s] \in {"controlCentre.waitForTheNextRace",
                                                   "controlCentre.goWatchTheRace"}
  /\ bettingCall[s] # "none" => spectatorPc[s] \in {"bettingCentre.placeABet",
                                                    "bettingCentre.haveIWon",
                                                    "bettingCentre.goCollectTheGains"}

(* The report of a race stands until a spectator enters the next one, and  *)
(* s does not ask for results or gains of a race that is not decided.      *)
FollowsTheBroker(s) ==
  /\ ~brokerDidNotReportResults => Entered(s) <= Reported
  /\ spectatorPc[s] = "bettingCentre.haveIWon" => spectatorRace[s] < Reported
  /\ spectatorPc[s] = "bettingCentre.goCollectTheGains" => spectatorRace[s] < Decided
  /\ spectatorRace[s] <= Decided

(* s has bet on the races whose bets are accepted, and is in the queue if  *)
(* it has bet on the next one.                                             *)
BetsOnceForARace(s) ==
  /\ Accepted > 0 => HasBetFor(s, Accepted - 1)
  /\ bettingCentre!HasQueued(s) <=> HasBetFor(s, Accepted)

SpectatorInOrder(s) == WaitsWhereItCalled(s) /\ FollowsTheBroker(s) /\ BetsOnceForARace(s)

BetsInv ==
  /\ BetTypes
  /\ ResultsAreHeldBack
  /\ QueuedOnce
  /\ \A s \in Spectators : SpectatorInOrder(s)

-----------------------------------------------------------------------------

LEMMA BrokerProgress ==
  ASSUME BetTypes
  PROVE  /\ Decided \in Nat /\ Reported \in Nat /\ Started \in Nat /\ Accepted \in Nat
         /\ Decided <= Reported /\ Reported <= Started /\ Started <= Accepted
         /\ Accepted <= Decided + 1
<1>1. brokerRace \in Nat
  BY DEF BetTypes
<1>2. CASE brokerPc \in BeforeAcceptance
  <2>1. brokerPc \notin AfterReport
    BY <1>2 DEF BeforeAcceptance, AfterReport
  <2> QED
    BY <1>1, <1>2, <2>1 DEF Decided, Reported, Started, Accepted
<1>3. CASE brokerPc \in AfterReport
  <2>1. brokerPc \notin BeforeAcceptance \cup {"racingTrack.startTheRace"}
    BY <1>3 DEF BeforeAcceptance, AfterReport
  <2> QED
    BY <1>1, <1>3, <2>1 DEF Decided, Reported, Started, Accepted
<1>4. CASE brokerPc \notin BeforeAcceptance \cup AfterReport
  BY <1>1, <1>4 DEF Decided, Reported, Started, Accepted
<1> QED
  BY <1>2, <1>3, <1>4

LEMMA BetsInit == Init => BetsInv
<1> SUFFICES ASSUME Init PROVE BetsInv
  OBVIOUS
<1> USE DEF Init, controlCentre!Init, bettingCentre!Init
<1>1. BetTypes
  <2>1. bettingQueue \in Seq(Spectators)
    BY EmptySeq
  <2>2. /\ centreCall \in [Spectators \cup {Broker} -> CentreMethods]
        /\ bettingCall \in [Spectators \cup {Broker} -> BettingMethods]
    BY DEF controlCentre!Threads, controlCentre!None, bettingCentre!Threads, bettingCentre!None,
           CentreMethods, BettingMethods
  <2>3. brokerPc \in BrokerPcs /\ spectatorPc \in [Spectators -> SpectatorPcs]
    BY DEF BrokerPcs, SpectatorPcs
  <2> QED
    BY <2>1, <2>2, <2>3 DEF BetTypes
<1>2. ResultsAreHeldBack
  BY DEF ResultsAreHeldBack, bettingCentre!Threads, bettingCentre!None
<1>3. Len(bettingQueue) = 0
  BY EmptySeq
<1>4. QueuedOnce
  BY <1>3 DEF QueuedOnce
<1>5. ASSUME NEW s \in Spectators
      PROVE  SpectatorInOrder(s)
  <2>1. WaitsWhereItCalled(s)
    BY DEF WaitsWhereItCalled, controlCentre!Threads, controlCentre!None,
           bettingCentre!Threads, bettingCentre!None
  <2>2. Reported = 0 /\ Decided = 0 /\ Accepted = 0
    BY DEF Reported, Decided, Accepted, BeforeAcceptance, AfterReport
  <2>3. FollowsTheBroker(s)
    BY <2>2 DEF FollowsTheBroker
  <2>4. BetsOnceForARace(s)
    BY <1>3, <2>2 DEF BetsOnceForARace, HasBetFor, bettingCentre!HasQueued
  <2> QED
    BY <2>1, <2>3, <2>4 DEF SpectatorInOrder
<1> QED
  BY <1>1, <1>2, <1>4, <1>5 DEF BetsInv

(* What is left alone by a step of another spectator or of the broker.     *)
LEMMA StaysInOrder ==
  ASSUME NEW s \in Spectators, SpectatorInOrder(s),
         ~brokerDidNotReportResults' => ~brokerDidNotReportResults,
         Reported' = Reported, Decided' = Decided, Accepted' = Accepted,
         spectatorPc'[s] = spectatorPc[s], spectatorRace'[s] = spectatorRace[s],
         centreCall'[s] = centreCall[s], bettingCall'[s] = bettingCall[s],
         bettingCentre!HasQueued(s)' <=> bettingCentre!HasQueued(s)
  PROVE  SpectatorInOrder(s)'
<1>1. WaitsWhereItCalled(s)'
  BY DEF SpectatorInOrder, WaitsWhereItCalled
<1>2. FollowsTheBroker(s)'
  BY DEF SpectatorInOrder, FollowsTheBroker, Entered
<1>3. BetsOnceForARace(s)'
  BY DEF SpectatorInOrder, BetsOnceForARace, HasBetFor
<1> QED
  BY <1>1, <1>2, <1>3 DEF SpectatorInOrder


(* A step of the broker that leaves the spectators alone and accepts,      *)
(* reports and decides no race.                                            *)
LEMMA BrokerStepKeepsBets ==
  ASSUME BetsInv, BetTypes', ResultsAreHeldBack',
         UNCHANGED <<spectatorPc, spectatorRace, bettingQueue, brokerDidNotReportResults>>,
         \A s \in Spectators : centreCall'[s] = centreCall[s] /\ bettingCall'[s] = bettingCall[s],
         Reported' = Reported, Decided' = Decided, Accepted' = Accepted
  PROVE  BetsInv'
<1>1. QueuedOnce'
  BY DEF BetsInv, QueuedOnce
<1>2. ASSUME NEW s \in Spectators
      PROVE  SpectatorInOrder(s)'
  <2>1. bettingCentre!HasQueued(s)' <=> bettingCentre!HasQueued(s)
    BY DEF bettingCentre!HasQueued
  <2> QED
    BY <2>1, StaysInOrder DEF BetsInv
<1> QED
  BY <1>1, <1>2 DEF BetsInv

LEMMA BrokerSummonKeepsBets ==
  ASSUME BetsInv, BrokerSummonsHorses \/ BrokerAnnouncesRace
  PROVE  BetsInv'
<1> USE DEF BrokerReturns, spectatorVars, CentreMethods
<1>1. CASE BrokerSummonsHorses
  <2>1. /\ brokerPc = "stable.summonHorsesToPaddock"
        /\ brokerPc' \in {"stable.summonHorsesToPaddock", "controlCentre.summonHorsesToPaddock"}
        /\ UNCHANGED <<brokerRace, spectatorPc, spectatorRace, bettingQueue,
                       brokerDidNotReportResults, brokerDoesNotAllowToProceedToHaveIWon,
                       centreCall, bettingCall>>
    BY <1>1 DEF BrokerSummonsHorses, InStable, centreVars, bettingVars
  <2>2. BetTypes' /\ ResultsAreHeldBack'
    BY <2>1 DEF BetsInv, BetTypes, ResultsAreHeldBack, BrokerPcs, BeforeAcceptance
  <2>3. Reported' = Reported /\ Decided' = Decided /\ Accepted' = Accepted
    BY <2>1 DEF Reported, Decided, Accepted, BeforeAcceptance, AfterReport
  <2> QED
    BY <2>1, <2>2, <2>3, BrokerStepKeepsBets
<1>2. CASE BrokerAnnouncesRace
  <2>1. /\ brokerPc = "controlCentre.summonHorsesToPaddock"
        /\ brokerPc' \in {"controlCentre.summonHorsesToPaddock", "bettingCentre.acceptTheBets"}
        /\ UNCHANGED <<brokerRace, spectatorPc, spectatorRace, bettingQueue,
                       brokerDidNotReportResults, brokerDoesNotAllowToProceedToHaveIWon,
                       bettingCall>>
    BY <1>2 DEF BrokerAnnouncesRace, InControlCentre, bettingVars, controlCentre!SummonOrWait,
                controlCentre!summonHorsesToPaddock, controlCentre!resumeSummonHorsesToPaddock
  <2>2. /\ centreCall' \in [Spectators \cup {Broker} -> CentreMethods]
        /\ \A s \in Spectators : centreCall'[s] = centreCall[s]
    BY <1>2, DistinctClients
       DEF BrokerAnnouncesRace, controlCentre!SummonOrWait, controlCentre!WaitWhile,
           controlCentre!summonHorsesToPaddock, controlCentre!resumeSummonHorsesToPaddock,
           controlCentre!Summon, controlCentre!None, BetsInv, BetTypes
  <2>3. BetTypes' /\ ResultsAreHeldBack'
    BY <2>1, <2>2 DEF BetsInv, BetTypes, ResultsAreHeldBack, BrokerPcs, BeforeAcceptance
  <2>4. Reported' = Reported /\ Decided' = Decided /\ Accepted' = Accepted
    BY <2>1 DEF Reported, Decided, Accepted, BeforeAcceptance, AfterReport
  <2> QED
    BY <2>1, <2>2, <2>3, <2>4, BrokerStepKeepsBets
<1> QED
  BY <1>1, <1>2

(* acceptTheBets returns when as many have bet as there are spectators:    *)
(* all of them.                                                            *)
LEMMA FullQueue ==
  ASSUME bettingQueue \in Seq(Spectators), QueuedOnce, bettingCentre!AllHaveBet,
         NEW s \in Spectators
  PROVE  bettingCentre!HasQueued(s)
<1> DEFINE n == Len(bettingQueue)
<1>1. n \in Nat /\ bettingQueue \in [1 .. n -> Spectators]
  BY LenProperties
<1>2. bettingQueue \in Injection(1 .. n, Spectators)
  BY <1>1 DEF QueuedOnce, Injection, IsInjective
<1>3. IsFiniteSet(Spectators) /\ n = Cardinality(Spectators)
  BY ConfigurationAssumption
     DEF ConfigurationAssumption, bettingCentre!AllHaveBet, bettingCentre!NUMBER_OF_SPECTATORS,
         bettingCentre!Cardinality, Cardinality
<1>4. Cardinality(1 .. n) = n
  BY <1>1, FS_Interval
<1>5. bettingQueue \in Surjection(1 .. n, Spectators)
  BY <1>2, <1>3, <1>4, FS_Injection
<1> QED
  BY <1>5 DEF Surjection, bettingCentre!HasQueued

LEMMA BrokerAcceptanceKeepsBets ==
  ASSUME BetsInv, BrokerAcceptsBets
  PROVE  BetsInv'
<1> USE DEF BettingMethods, bettingCentre!None, bettingCentre!Accept, bettingCentre!NoReply
<1>1. /\ brokerPc = "bettingCentre.acceptTheBets"
      /\ brokerPc' = IF bettingCall'[Broker] = "none"
                     THEN "racingTrack.startTheRace" ELSE "bettingCentre.acceptTheBets"
      /\ UNCHANGED <<brokerRace, spectatorPc, spectatorRace, brokerDidNotReportResults, centreCall>>
  BY DEF BrokerAcceptsBets, BrokerReturns, BettingCentreAnswers, InBettingCentre, centreVars,
         spectatorVars
<1>2. CASE /\ bettingCall' = [bettingCall EXCEPT ![Broker] = "failed"]
           /\ UNCHANGED <<bettingQueue, brokerDoesNotAllowToProceedToHaveIWon>>
  <2>1. /\ bettingCall' \in [Spectators \cup {Broker} -> BettingMethods]
        /\ \A s \in Spectators : bettingCall'[s] = bettingCall[s]
        /\ bettingCall'[Broker] = "failed"
    BY <1>2, DistinctClients DEF BetsInv, BetTypes
  <2>2. brokerPc' = brokerPc
    BY <1>1, <2>1
  <2>3. BetTypes' /\ ResultsAreHeldBack'
    BY <1>1, <1>2, <2>1, <2>2 DEF BetsInv, BetTypes, ResultsAreHeldBack
  <2>4. Reported' = Reported /\ Decided' = Decided /\ Accepted' = Accepted
    BY <1>1, <2>2 DEF Reported, Decided, Accepted
  <2> QED
    BY <1>1, <1>2, <2>1, <2>3, <2>4, BrokerStepKeepsBets
<1>3. CASE /\ bettingCall' = [bettingCall EXCEPT ![Broker] = "acceptTheBets"]
           /\ UNCHANGED bettingQueue
           /\ brokerDoesNotAllowToProceedToHaveIWon'
  <2>1. /\ bettingCall' \in [Spectators \cup {Broker} -> BettingMethods]
        /\ \A s \in Spectators : bettingCall'[s] = bettingCall[s]
        /\ bettingCall'[Broker] = "acceptTheBets"
    BY <1>3, DistinctClients DEF BetsInv, BetTypes
  <2>2. brokerPc' = brokerPc
    BY <1>1, <2>1
  <2>3. BetTypes' /\ ResultsAreHeldBack'
    BY <1>1, <1>3, <2>1, <2>2 DEF BetsInv, BetTypes, ResultsAreHeldBack
  <2>4. Reported' = Reported /\ Decided' = Decided /\ Accepted' = Accepted
    BY <1>1, <2>2 DEF Reported, Decided, Accepted
  <2> QED
    BY <1>1, <1>3, <2>1, <2>3, <2>4, BrokerStepKeepsBets
<1>4. CASE /\ bettingCall' = [bettingCall EXCEPT ![Broker] = "none"]
           /\ bettingCentre!AllHaveBet
           /\ bettingQueue' = <<>>
           /\ brokerDoesNotAllowToProceedToHaveIWon'
  <2>1. /\ bettingCall' \in [Spectators \cup {Broker} -> BettingMethods]
        /\ \A s \in Spectators : bettingCall'[s] = bettingCall[s]
        /\ bettingCall'[Broker] = "none"
    BY <1>4, DistinctClients DEF BetsInv, BetTypes
  <2>2. brokerPc' = "racingTrack.startTheRace"
    BY <1>1, <2>1
  <2>3. bettingQueue' \in Seq(Spectators) /\ Len(bettingQueue') = 0
    BY <1>4, EmptySeq
  <2>4. BetTypes' /\ ResultsAreHeldBack'
    BY <1>1, <1>4, <2>1, <2>2, <2>3 DEF BetsInv, BetTypes, ResultsAreHeldBack, BrokerPcs
  <2>5. /\ Reported' = Reported /\ Decided' = Decided
        /\ Accepted = Decided /\ Accepted' = Accepted + 1
    BY <1>1, <2>2 DEF Reported, Decided, Accepted, BeforeAcceptance, AfterReport
  <2>6. QueuedOnce'
    BY <2>3 DEF QueuedOnce
  <2>7. ASSUME NEW s \in Spectators
        PROVE  SpectatorInOrder(s)'
    <3>1. WaitsWhereItCalled(s)'
      BY <1>1, <2>1 DEF BetsInv, SpectatorInOrder, WaitsWhereItCalled
    <3>2. FollowsTheBroker(s)'
      BY <1>1, <2>5 DEF BetsInv, SpectatorInOrder, FollowsTheBroker, Entered
    <3>3. HasBetFor(s, Accepted)
      BY <1>4, FullQueue DEF BetsInv, BetTypes, SpectatorInOrder, BetsOnceForARace
    <3>4. spectatorRace[s] <= Accepted /\ spectatorRace[s] \in Nat /\ Accepted \in Nat
      BY <2>5, BrokerProgress DEF BetsInv, BetTypes, SpectatorInOrder, FollowsTheBroker
    <3>5. HasBetFor(s, Accepted - 1)' /\ ~HasBetFor(s, Accepted)'
      BY <1>1, <2>1, <2>5, <3>3, <3>4 DEF HasBetFor
    <3>6. BetsOnceForARace(s)'
      BY <2>3, <2>5, <3>5 DEF BetsOnceForARace, HasBetFor, bettingCentre!HasQueued
    <3> QED
      BY <3>1, <3>2, <3>6 DEF SpectatorInOrder
  <2> QED
    BY <2>4, <2>6, <2>7 DEF BetsInv
<1> USE DEF bettingCentre!AcceptOrWait, bettingCentre!Wait, bettingCentre!NotifyAllAndReturn,
            bettingCentre!WaitWhile, bettingCentre!betVars
<1>5. CASE bettingCentre!acceptTheBets
  BY <1>2, <1>3, <1>4, <1>5 DEF bettingCentre!acceptTheBets
<1>6. CASE bettingCentre!acceptTheBetsFails
  BY <1>2, <1>6 DEF bettingCentre!acceptTheBetsFails, bettingCentre!resultVars
<1>7. CASE bettingCentre!resumeAcceptTheBets
  <2>1. bettingCall[Broker] = "acceptTheBets"
    BY <1>7 DEF bettingCentre!resumeAcceptTheBets, bettingCentre!Notified
  <2>2. brokerDoesNotAllowToProceedToHaveIWon /\ brokerDoesNotAllowToProceedToHaveIWon'
    BY <1>1, <1>7, <2>1 DEF bettingCentre!resumeAcceptTheBets, bettingCentre!resultVars,
                            BetsInv, ResultsAreHeldBack
  <2> QED
    BY <1>3, <1>4, <1>7, <2>2 DEF bettingCentre!resumeAcceptTheBets
<1> QED
  BY <1>5, <1>6, <1>7 DEF BrokerAcceptsBets

(* The steps from the start of the race to its supervision, after the      *)
(* bets have been honoured, and to the next race.                          *)
LEMMA BrokerProgressKeepsBets ==
  ASSUME BetsInv,
         BrokerStartsRace \/ BrokerSupervisesRace \/ BrokerSetsRace \/ BrokerEntertainsGuests
  PROVE  BetsInv'
<1> USE DEF BrokerReturns, spectatorVars
<1>1. CASE BrokerStartsRace
  <2>1. /\ brokerPc = "racingTrack.startTheRace" /\ brokerPc' = "controlCentre.startTheRace"
        /\ UNCHANGED <<brokerRace, spectatorPc, spectatorRace, bettingQueue,
                       brokerDidNotReportResults, brokerDoesNotAllowToProceedToHaveIWon,
                       centreCall, bettingCall>>
    BY <1>1 DEF BrokerStartsRace, InRacingTrack, centreVars, bettingVars
  <2>2. BetTypes' /\ ResultsAreHeldBack'
    BY <2>1 DEF BetsInv, BetTypes, ResultsAreHeldBack, BrokerPcs, BeforeAcceptance, AfterReport
  <2>3. Reported' = Reported /\ Decided' = Decided /\ Accepted' = Accepted
    BY <2>1 DEF Reported, Decided, Accepted, BeforeAcceptance, AfterReport
  <2> QED
    BY <2>1, <2>2, <2>3, BrokerStepKeepsBets
<1>2. CASE BrokerSupervisesRace
  <2>1. /\ brokerPc = "controlCentre.startTheRace"
        /\ brokerPc' \in {"controlCentre.startTheRace", "controlCentre.reportResults"}
        /\ UNCHANGED <<brokerRace, spectatorPc, spectatorRace, bettingQueue,
                       brokerDidNotReportResults, brokerDoesNotAllowToProceedToHaveIWon,
                       bettingCall>>
    BY <1>2 DEF BrokerSupervisesRace, InControlCentre, bettingVars,
                controlCentre!startTheRace, controlCentre!resumeStartTheRace,
                controlCentre!SuperviseOrWait
  <2>2. /\ centreCall' \in [Spectators \cup {Broker} -> CentreMethods]
        /\ \A s \in Spectators : centreCall'[s] = centreCall[s]
    BY <1>2, DistinctClients
       DEF BrokerSupervisesRace, controlCentre!startTheRace, controlCentre!resumeStartTheRace,
           controlCentre!SuperviseOrWait, controlCentre!WaitWhile, controlCentre!Supervise,
           controlCentre!None, BetsInv, BetTypes, CentreMethods
  <2>3. BetTypes' /\ ResultsAreHeldBack'
    BY <2>1, <2>2 DEF BetsInv, BetTypes, ResultsAreHeldBack, BrokerPcs, BeforeAcceptance,
                      AfterReport
  <2>4. Reported' = Reported /\ Decided' = Decided /\ Accepted' = Accepted
    BY <2>1 DEF Reported, Decided, Accepted, BeforeAcceptance, AfterReport
  <2> QED
    BY <2>1, <2>2, <2>3, <2>4, BrokerStepKeepsBets
<1>3. CASE BrokerSetsRace
  <2>1. /\ brokerPc = "racingTrack.setRace" /\ brokerPc' = "stable.summonHorsesToPaddock"
        /\ brokerRace' = brokerRace + 1
        /\ UNCHANGED <<spectatorPc, spectatorRace, bettingQueue,
                       brokerDidNotReportResults, brokerDoesNotAllowToProceedToHaveIWon,
                       centreCall, bettingCall>>
    BY <1>3 DEF BrokerSetsRace, InRacingTrack, centreVars, bettingVars
  <2>2. BetTypes' /\ ResultsAreHeldBack'
    BY <2>1 DEF BetsInv, BetTypes, ResultsAreHeldBack, BrokerPcs, BeforeAcceptance, AfterReport
  <2>3. Reported' = Reported /\ Decided' = Decided /\ Accepted' = Accepted
    BY <2>1 DEF Reported, Decided, Accepted, BeforeAcceptance, AfterReport
  <2> QED
    BY <2>1, <2>2, <2>3, BrokerStepKeepsBets
<1>4. CASE BrokerEntertainsGuests
  <2>1. /\ brokerPc = "controlCentre.entertainTheGuests" /\ brokerPc' = "playing host at the bar"
        /\ UNCHANGED <<brokerRace, spectatorPc, spectatorRace, bettingQueue,
                       brokerDidNotReportResults, brokerDoesNotAllowToProceedToHaveIWon,
                       centreCall, bettingCall>>
    BY <1>4 DEF BrokerEntertainsGuests, InNoRegion, InStable, centreVars, bettingVars
  <2>2. BetTypes' /\ ResultsAreHeldBack'
    BY <2>1 DEF BetsInv, BetTypes, ResultsAreHeldBack, BrokerPcs, BeforeAcceptance, AfterReport
  <2>3. Reported' = Reported /\ Decided' = Decided /\ Accepted' = Accepted
    BY <2>1 DEF Reported, Decided, Accepted, BeforeAcceptance, AfterReport
  <2> QED
    BY <2>1, <2>2, <2>3, BrokerStepKeepsBets
<1> QED
  BY <1>1, <1>2, <1>3, <1>4

(* reportResults lets the watchers go: those of this race, as nobody has   *)
(* entered a later one.                                                    *)
LEMMA BrokerReportKeepsBets ==
  ASSUME BetsInv, BrokerReportsResults
  PROVE  BetsInv'
<1>1. /\ brokerPc = "controlCentre.reportResults"
      /\ brokerPc' = "bettingCentre.areThereAnyWinners"
      /\ UNCHANGED <<brokerRace, spectatorPc, spectatorRace, bettingQueue,
                     brokerDoesNotAllowToProceedToHaveIWon, bettingCall>>
      /\ ~brokerDidNotReportResults'
  BY DEF BrokerReportsResults, BrokerReturns, spectatorVars, InControlCentre, bettingVars,
         controlCentre!reportResults
<1>2. /\ centreCall' \in [Spectators \cup {Broker} -> CentreMethods]
      /\ \A s \in Spectators : centreCall'[s] = centreCall[s]
      /\ brokerDidNotReportResults' \in BOOLEAN
  BY DistinctClients
     DEF BrokerReportsResults, controlCentre!reportResults, controlCentre!NotifyAllAndReturn,
         controlCentre!WaitWhile, controlCentre!None, BetsInv, BetTypes, CentreMethods
<1>3. BetTypes' /\ ResultsAreHeldBack' /\ QueuedOnce'
  BY <1>1, <1>2 DEF BetsInv, BetTypes, ResultsAreHeldBack, QueuedOnce, BrokerPcs,
                    BeforeAcceptance, AfterReport
<1>4. /\ Decided' = Decided /\ Accepted' = Accepted
      /\ Reported = Decided /\ Reported' = Decided + 1
  BY <1>1 DEF Reported, Decided, Accepted, BeforeAcceptance, AfterReport
<1>5. ASSUME NEW s \in Spectators
      PROVE  SpectatorInOrder(s)'
  <2>1. WaitsWhereItCalled(s)' /\ BetsOnceForARace(s)'
    BY <1>1, <1>2, <1>4 DEF BetsInv, SpectatorInOrder, WaitsWhereItCalled, BetsOnceForARace,
                            HasBetFor, bettingCentre!HasQueued
  <2>2. spectatorRace[s] \in Nat /\ Decided \in Nat /\ spectatorRace[s] <= Decided
    BY BrokerProgress DEF BetsInv, BetTypes, SpectatorInOrder, FollowsTheBroker
  <2>3. Entered(s)' <= Reported'
    BY <1>1, <1>2, <1>4, <2>2 DEF Entered
  <2>4. FollowsTheBroker(s)'
    BY <1>1, <1>4, <2>2, <2>3 DEF BetsInv, SpectatorInOrder, FollowsTheBroker
  <2> QED
    BY <2>1, <2>4 DEF SpectatorInOrder
<1> QED
  BY <1>3, <1>5 DEF BetsInv

(* areThereAnyWinners decides the race, honourTheBets is the last of it.   *)
LEMMA BrokerSettlementKeepsBets ==
  ASSUME BetsInv, BrokerLooksForWinners \/ BrokerHonoursBets
  PROVE  BetsInv'
<1> USE DEF BrokerReturns, spectatorVars, InBettingCentre, centreVars, BettingMethods,
            bettingCentre!None, bettingCentre!WaitWhile, bettingCentre!NotifyAllAndReturn
<1>1. AfterTheBets \in {"racingTrack.setRace", "controlCentre.entertainTheGuests"}
  BY DEF AfterTheBets
<1>2. CASE BrokerLooksForWinners
  <2>1. /\ brokerPc = "bettingCentre.areThereAnyWinners"
        /\ brokerPc' \in {"bettingCentre.honourTheBets", "racingTrack.setRace",
                          "controlCentre.entertainTheGuests"}
        /\ UNCHANGED <<brokerRace, spectatorPc, spectatorRace, bettingQueue,
                       brokerDidNotReportResults, centreCall>>
        /\ brokerDoesNotAllowToProceedToHaveIWon' = FALSE
    BY <1>1, <1>2 DEF BrokerLooksForWinners, bettingCentre!areThereAnyWinners,
                      bettingCentre!betVars
  <2>2. /\ bettingCall' \in [Spectators \cup {Broker} -> BettingMethods]
        /\ bettingCall'[Broker] = "none"
        /\ \A s \in Spectators : bettingCall'[s] = bettingCall[s]
    BY <1>2, DistinctClients
       DEF BrokerLooksForWinners, bettingCentre!areThereAnyWinners, BetsInv, BetTypes
  <2>3. BetTypes' /\ ResultsAreHeldBack' /\ QueuedOnce'
    BY <2>1, <2>2 DEF BetsInv, BetTypes, ResultsAreHeldBack, QueuedOnce, BrokerPcs,
                      BeforeAcceptance, AfterReport
  <2>4. Reported' = Reported /\ Accepted' = Accepted /\ Decided' = Decided + 1
    BY <2>1 DEF Reported, Decided, Accepted, BeforeAcceptance, AfterReport
  <2>5. ASSUME NEW s \in Spectators
        PROVE  SpectatorInOrder(s)'
    <3>1. WaitsWhereItCalled(s)' /\ BetsOnceForARace(s)'
      BY <2>1, <2>2, <2>4 DEF BetsInv, SpectatorInOrder, WaitsWhereItCalled, BetsOnceForARace,
                              HasBetFor, bettingCentre!HasQueued
    <3>2. spectatorRace[s] \in Nat /\ Decided \in Nat
      BY BrokerProgress DEF BetsInv, BetTypes
    <3>3. FollowsTheBroker(s)'
      BY <2>1, <2>4, <3>2 DEF BetsInv, SpectatorInOrder, FollowsTheBroker, Entered
    <3> QED
      BY <3>1, <3>3 DEF SpectatorInOrder
  <2> QED
    BY <2>3, <2>5 DEF BetsInv
<1>3. CASE BrokerHonoursBets
  <2>1. /\ brokerPc = "bettingCentre.honourTheBets"
        /\ \/ bettingCall'[Broker] = "none" /\ brokerPc' = AfterTheBets
           \/ bettingCall'[Broker] # "none" /\ brokerPc' = "bettingCentre.honourTheBets"
        /\ UNCHANGED <<brokerRace, spectatorPc, spectatorRace, bettingQueue,
                       brokerDidNotReportResults, brokerDoesNotAllowToProceedToHaveIWon,
                       centreCall>>
    BY <1>3 DEF BrokerHonoursBets, BettingCentreAnswers, bettingCentre!honourTheBets,
                bettingCentre!resumeHonourTheBets, bettingCentre!HonourOrWait,
                bettingCentre!betVars, bettingCentre!resultVars
  <2>2. /\ bettingCall' \in [Spectators \cup {Broker} -> BettingMethods]
        /\ \A s \in Spectators : bettingCall'[s] = bettingCall[s]
    BY <1>3, DistinctClients
       DEF BrokerHonoursBets, bettingCentre!honourTheBets, bettingCentre!resumeHonourTheBets,
           bettingCentre!HonourOrWait, bettingCentre!Honour, bettingCentre!Wait, BetsInv, BetTypes
  <2>3. BetTypes' /\ ResultsAreHeldBack'
    BY <1>1, <2>1, <2>2 DEF BetsInv, BetTypes, ResultsAreHeldBack, BrokerPcs,
                      BeforeAcceptance, AfterReport
  <2>4. Reported' = Reported /\ Accepted' = Accepted /\ Decided' = Decided
    BY <1>1, <2>1 DEF Reported, Decided, Accepted, BeforeAcceptance, AfterReport
  <2> QED
    BY <2>1, <2>2, <2>3, <2>4, BrokerStepKeepsBets
<1> QED
  BY <1>2, <1>3

(***************************************************************************)
(* The steps of a spectator.                                               *)
(***************************************************************************)
LEMMA SpectatorStepKeepsBets ==
  ASSUME BetsInv, NEW s \in Spectators, BetTypes', QueuedOnce',
         UNCHANGED <<brokerPc, brokerRace, brokerDoesNotAllowToProceedToHaveIWon>>,
         bettingCall'[Broker] = bettingCall[Broker],
         ~brokerDidNotReportResults' => ~brokerDidNotReportResults,
         \A t \in Spectators \ {s} :
           /\ spectatorPc'[t] = spectatorPc[t] /\ spectatorRace'[t] = spectatorRace[t]
           /\ centreCall'[t] = centreCall[t] /\ bettingCall'[t] = bettingCall[t]
           /\ bettingCentre!HasQueued(t)' <=> bettingCentre!HasQueued(t),
         SpectatorInOrder(s)'
  PROVE  BetsInv'
<1>1. ResultsAreHeldBack'
  BY DEF BetsInv, ResultsAreHeldBack
<1>2. Reported' = Reported /\ Decided' = Decided /\ Accepted' = Accepted
  BY DEF Reported, Decided, Accepted
<1>3. ASSUME NEW t \in Spectators \ {s}
      PROVE  SpectatorInOrder(t)'
  BY <1>2, <1>3, StaysInOrder DEF BetsInv
<1> QED
  BY <1>1, <1>3 DEF BetsInv

(* A step of s that neither bets nor ends a race.                          *)
LEMMA SpectatorMovesOn ==
  ASSUME BetsInv, NEW s \in Spectators, NEW pc \in SpectatorPcs,
         UNCHANGED <<brokerPc, brokerRace, spectatorRace, bettingQueue,
                     brokerDoesNotAllowToProceedToHaveIWon>>,
         spectatorPc' = [spectatorPc EXCEPT ![s] = pc],
         centreCall' \in [Spectators \cup {Broker} -> CentreMethods],
         bettingCall' \in [Spectators \cup {Broker} -> BettingMethods],
         bettingCall'[Broker] = bettingCall[Broker],
         \A t \in Spectators \ {s} :
           centreCall'[t] = centreCall[t] /\ bettingCall'[t] = bettingCall[t],
         brokerDidNotReportResults' \in BOOLEAN,
         ~brokerDidNotReportResults' => ~brokerDidNotReportResults /\ Entered(s)' = Entered(s),
         WaitsWhereItCalled(s)',
         pc = "bettingCentre.haveIWon" => spectatorRace[s] < Reported,
         pc = "bettingCentre.goCollectTheGains" => spectatorRace[s] < Decided,
         HasBetFor(s, spectatorRace[s])' <=> HasBetFor(s, spectatorRace[s])
  PROVE  BetsInv'
<1>1. /\ spectatorPc'[s] = pc
      /\ \A t \in Spectators \ {s} : spectatorPc'[t] = spectatorPc[t]
  BY DEF BetsInv, BetTypes
<1>2. BetTypes' /\ QueuedOnce'
  BY DEF BetsInv, BetTypes, QueuedOnce
<1>3. Reported' = Reported /\ Decided' = Decided /\ Accepted' = Accepted
  BY DEF Reported, Decided, Accepted
<1>4. \A t \in Spectators : bettingCentre!HasQueued(t)' <=> bettingCentre!HasQueued(t)
  BY DEF bettingCentre!HasQueued
<1>5. FollowsTheBroker(s)'
  BY <1>1, <1>3 DEF BetsInv, SpectatorInOrder, FollowsTheBroker
<1>6. \A r : HasBetFor(s, r)' <=> HasBetFor(s, r)
  BY DEF HasBetFor
<1>7. BetsOnceForARace(s)'
  <2>1. /\ HasBetFor(s, Accepted - 1)' <=> HasBetFor(s, Accepted - 1)
        /\ HasBetFor(s, Accepted)' <=> HasBetFor(s, Accepted)
    BY <1>3, <1>6 DEF HasBetFor
  <2> QED
    BY <1>3, <1>4, <2>1 DEF BetsInv, SpectatorInOrder, BetsOnceForARace
<1>8. SpectatorInOrder(s)'
  BY <1>5, <1>7 DEF SpectatorInOrder
<1> QED
  BY <1>1, <1>2, <1>4, <1>8, SpectatorStepKeepsBets


LEMMA SpectatorRacesKeepBets ==
  ASSUME BetsInv, NEW s \in Spectators,
         SpectatorWaitsForRace(s) \/ LastSpectatorTellsBroker(s) \/ SpectatorWatchesRace(s)
  PROVE  BetsInv'
<1> USE DEF SpectatorReturns, brokerVars, InControlCentre, bettingVars, SpectatorPcs,
            CentreMethods, controlCentre!WaitWhile, controlCentre!None
<1>1. /\ SpectatorInOrder(s)
      /\ spectatorPc[s] \in SpectatorPcs
      /\ UNCHANGED <<brokerPc, brokerRace, spectatorRace, bettingQueue, bettingCall,
                     brokerDoesNotAllowToProceedToHaveIWon>>
      /\ bettingCall' \in [Spectators \cup {Broker} -> BettingMethods]
      /\ s # Broker
  BY DistinctClients DEF BetsInv, BetTypes, SpectatorWaitsForRace, LastSpectatorTellsBroker, SpectatorWatchesRace
<1>2. CASE SpectatorWaitsForRace(s)
  <2> DEFINE called == IF lastHorseJockeyHasNotArrivedOnPaddock
                       THEN "waitForTheNextRace" ELSE "none"
             pc == IF lastHorseJockeyHasNotArrivedOnPaddock
                   THEN "controlCentre.waitForTheNextRace" ELSE "paddock.goCheckHorses()"
  <2>1. /\ spectatorPc[s] = "controlCentre.waitForTheNextRace"
        /\ centreCall' = [centreCall EXCEPT ![s] = called]
    BY <1>2 DEF SpectatorWaitsForRace, controlCentre!waitForTheNextRace,
                controlCentre!resumeWaitForTheNextRace, controlCentre!AwaitRace
  <2>2. \/ centreCall[s] = "none" /\ brokerDidNotReportResults' = TRUE
        \/ centreCall[s] = "waitForTheNextRace" /\ UNCHANGED brokerDidNotReportResults
    BY <1>2 DEF SpectatorWaitsForRace, controlCentre!waitForTheNextRace,
                controlCentre!resumeWaitForTheNextRace, controlCentre!AwaitRace,
                controlCentre!Outside, controlCentre!Notified
  <2>3. /\ centreCall' \in [Spectators \cup {Broker} -> CentreMethods]
        /\ centreCall'[s] = called
        /\ \A t \in Spectators \ {s} : centreCall'[t] = centreCall[t]
    BY <2>1 DEF BetsInv, BetTypes
  <2>4. spectatorPc' = [spectatorPc EXCEPT ![s] = pc]
    BY <1>2, <2>3 DEF SpectatorWaitsForRace, ControlCentreAnswers
  <2>5. spectatorPc'[s] = pc
    BY <2>4 DEF BetsInv, BetTypes
  <2>6. bettingCall[s] = "none"
    BY <1>1, <2>1 DEF SpectatorInOrder, WaitsWhereItCalled
  <2>7. WaitsWhereItCalled(s)'
    BY <1>1, <2>3, <2>5, <2>6 DEF WaitsWhereItCalled
  <2>8. ~brokerDidNotReportResults' => ~brokerDidNotReportResults /\ Entered(s)' = Entered(s)
    BY <1>1, <2>1, <2>2, <2>3, <2>5 DEF Entered
  <2>9. HasBetFor(s, spectatorRace[s])' <=> HasBetFor(s, spectatorRace[s])
    BY <1>1, <2>1, <2>5, <2>6 DEF HasBetFor
  <2>10. brokerDidNotReportResults' \in BOOLEAN
    BY <2>2 DEF BetsInv, BetTypes
  <2>11. pc \in SpectatorPcs /\ pc # "bettingCentre.haveIWon"
         /\ pc # "bettingCentre.goCollectTheGains"
    OBVIOUS
  <2> HIDE DEF pc, called
  <2> QED
    BY <1>1, <2>3, <2>4, <2>7, <2>8, <2>9, <2>10, <2>11, SpectatorMovesOn
<1>3. CASE LastSpectatorTellsBroker(s)
  <2> DEFINE pc == "paddock.goCheckHorses(boolean)"
  <2>1. /\ spectatorPc[s] = "controlCentre.goCheckHorses"
        /\ spectatorPc' = [spectatorPc EXCEPT ![s] = pc]
        /\ UNCHANGED <<centreCall, brokerDidNotReportResults>>
    BY <1>3 DEF LastSpectatorTellsBroker, controlCentre!goCheckHorses
  <2>2. spectatorPc'[s] = pc
    BY <2>1 DEF BetsInv, BetTypes
  <2>3. /\ centreCall' \in [Spectators \cup {Broker} -> CentreMethods]
        /\ brokerDidNotReportResults' \in BOOLEAN
    BY <2>1 DEF BetsInv, BetTypes
  <2>4. centreCall[s] = "none" /\ bettingCall[s] = "none"
    BY <1>1, <2>1 DEF SpectatorInOrder, WaitsWhereItCalled
  <2>5. WaitsWhereItCalled(s)'
    BY <1>1, <2>1, <2>4 DEF WaitsWhereItCalled
  <2>6. Entered(s)' = Entered(s)
    BY <1>1, <2>1, <2>2 DEF Entered
  <2>7. HasBetFor(s, spectatorRace[s])' <=> HasBetFor(s, spectatorRace[s])
    BY <1>1, <2>1, <2>2 DEF HasBetFor
  <2> QED
    BY <1>1, <2>1, <2>3, <2>5, <2>6, <2>7, SpectatorMovesOn
<1>4. CASE SpectatorWatchesRace(s)
  <2> DEFINE called == IF brokerDidNotReportResults THEN "goWatchTheRace" ELSE "none"
             pc == IF brokerDidNotReportResults
                   THEN "controlCentre.goWatchTheRace" ELSE "bettingCentre.haveIWon"
  <2>1. /\ spectatorPc[s] = "controlCentre.goWatchTheRace"
        /\ centreCall' = [centreCall EXCEPT ![s] = called]
        /\ UNCHANGED brokerDidNotReportResults
    BY <1>4 DEF SpectatorWatchesRace, controlCentre!goWatchTheRace,
                controlCentre!resumeGoWatchTheRace, controlCentre!Watch
  <2>2. /\ centreCall' \in [Spectators \cup {Broker} -> CentreMethods]
        /\ centreCall'[s] = called
        /\ \A t \in Spectators \ {s} : centreCall'[t] = centreCall[t]
        /\ brokerDidNotReportResults' \in BOOLEAN
    BY <2>1 DEF BetsInv, BetTypes
  <2>3. spectatorPc' = [spectatorPc EXCEPT ![s] = pc]
    BY <1>4, <2>2 DEF SpectatorWatchesRace, ControlCentreAnswers
  <2>4. spectatorPc'[s] = pc
    BY <2>3 DEF BetsInv, BetTypes
  <2>5. bettingCall[s] = "none"
    BY <1>1, <2>1 DEF SpectatorInOrder, WaitsWhereItCalled
  <2>6. WaitsWhereItCalled(s)'
    BY <1>1, <2>2, <2>4, <2>5 DEF WaitsWhereItCalled
  <2>7. Entered(s)' = Entered(s) /\ Entered(s) = spectatorRace[s] + 1
    BY <1>1, <2>1, <2>4 DEF Entered
  <2>8. HasBetFor(s, spectatorRace[s])' <=> HasBetFor(s, spectatorRace[s])
    BY <1>1, <2>1, <2>4 DEF HasBetFor
  <2>9. Reported \in Nat /\ spectatorRace[s] \in Nat
    BY BrokerProgress DEF BetsInv, BetTypes
  <2>10. pc = "bettingCentre.haveIWon" => spectatorRace[s] < Reported
    BY <1>1, <2>7, <2>9 DEF SpectatorInOrder, FollowsTheBroker
  <2>11. pc \in SpectatorPcs /\ pc # "bettingCentre.goCollectTheGains"
    OBVIOUS
  <2> HIDE DEF pc, called
  <2> QED
    BY <1>1, <2>1, <2>2, <2>3, <2>6, <2>7, <2>8, <2>10, <2>11, SpectatorMovesOn
<1> QED
  BY <1>2, <1>3, <1>4


LEMMA SpectatorAppraisalKeepsBets ==
  ASSUME BetsInv, NEW s \in Spectators,
         SpectatorIsCounted(s) \/ SpectatorAppraisesHorses(s) \/ SpectatorRelaxes(s)
  PROVE  BetsInv'
<1> DEFINE Around == {"paddock.goCheckHorses()", "controlCentre.goCheckHorses",
                      "paddock.goCheckHorses(boolean)", "bettingCentre.placeABet"}
<1>1. /\ UNCHANGED <<brokerPc, brokerRace, spectatorRace, bettingQueue, bettingCall, centreCall,
                     brokerDidNotReportResults, brokerDoesNotAllowToProceedToHaveIWon>>
      /\ spectatorPc[s] \in SpectatorPcs
  BY DEF SpectatorIsCounted, SpectatorAppraisesHorses, SpectatorRelaxes, SpectatorReturns,
         InPaddock, InNoRegion, InStable, centreVars, bettingVars, brokerVars, BetsInv, BetTypes
<1>2. PICK pc \in SpectatorPcs :
        /\ spectatorPc' = [spectatorPc EXCEPT ![s] = pc]
        /\ \/ spectatorPc[s] \in Around \ {"bettingCentre.placeABet"} /\ pc \in Around
           \/ spectatorPc[s] = "controlCentre.relaxABit" /\ pc = "celebrating"
  <2>1. CASE SpectatorIsCounted(s)
    BY <2>1 DEF SpectatorIsCounted, SpectatorReturns, SpectatorPcs
  <2>2. CASE SpectatorAppraisesHorses(s)
    BY <2>2 DEF SpectatorAppraisesHorses, SpectatorReturns, SpectatorPcs
  <2>3. CASE SpectatorRelaxes(s)
    BY <2>3 DEF SpectatorRelaxes, SpectatorReturns, SpectatorPcs
  <2> QED
    BY <2>1, <2>2, <2>3
<1>3. /\ spectatorPc'[s] = pc
      /\ SpectatorInOrder(s)
      /\ centreCall' \in [Spectators \cup {Broker} -> CentreMethods]
      /\ bettingCall' \in [Spectators \cup {Broker} -> BettingMethods]
      /\ brokerDidNotReportResults' \in BOOLEAN
  BY <1>1, <1>2 DEF BetsInv, BetTypes
<1>4. centreCall[s] = "none" /\ bettingCall[s] = "none"
  BY <1>2, <1>3 DEF SpectatorInOrder, WaitsWhereItCalled
<1>5. WaitsWhereItCalled(s)'
  BY <1>1, <1>4 DEF WaitsWhereItCalled
<1>6. Entered(s)' = Entered(s)
  BY <1>1, <1>2, <1>3, <1>4 DEF Entered
<1>7. HasBetFor(s, spectatorRace[s])' <=> HasBetFor(s, spectatorRace[s])
  BY <1>1, <1>2, <1>3, <1>4 DEF HasBetFor
<1>8. pc # "bettingCentre.haveIWon" /\ pc # "bettingCentre.goCollectTheGains"
  BY <1>2
<1> QED
  BY <1>1, <1>2, <1>3, <1>5, <1>6, <1>7, <1>8, SpectatorMovesOn

(* placeABet: a spectator in the race whose bets come next has not bet on  *)
(* it, and is entered in the queue once.                                   *)
LEMMA SpectatorBetKeepsBets ==
  ASSUME BetsInv, NEW s \in Spectators, SpectatorPlacesBet(s)
  PROVE  BetsInv'
<1> USE DEF BettingMethods, bettingCentre!None, bettingCentre!WaitWhile, bettingCentre!Place
<1> DEFINE called == IF brokerHaveNotAcceptedTheBet THEN "placeABet" ELSE "none"
           pc == IF brokerHaveNotAcceptedTheBet
                 THEN "bettingCentre.placeABet" ELSE "controlCentre.goWatchTheRace"
<1>1. /\ spectatorPc[s] = "bettingCentre.placeABet"
      /\ bettingCall' = [bettingCall EXCEPT ![s] = called]
      /\ UNCHANGED <<brokerPc, brokerRace, spectatorRace, centreCall,
                     brokerDidNotReportResults, brokerDoesNotAllowToProceedToHaveIWon>>
  BY DEF SpectatorPlacesBet, SpectatorReturns, brokerVars, InBettingCentre, centreVars,
         bettingCentre!placeABet, bettingCentre!resumePlaceABet, bettingCentre!resultVars
<1>2. \/ bettingCall[s] = "none" /\ bettingQueue' = Append(bettingQueue, s)
      \/ bettingCall[s] = "placeABet" /\ UNCHANGED bettingQueue
  BY DEF SpectatorPlacesBet, bettingCentre!placeABet, bettingCentre!resumePlaceABet,
         bettingCentre!Outside, bettingCentre!Notified, bettingCentre!betVars
<1>3. /\ bettingCall' \in [Spectators \cup {Broker} -> BettingMethods]
      /\ bettingCall'[s] = called
      /\ \A t \in Spectators \ {s} : bettingCall'[t] = bettingCall[t]
      /\ bettingCall'[Broker] = bettingCall[Broker]
      /\ centreCall' \in [Spectators \cup {Broker} -> CentreMethods]
      /\ brokerDidNotReportResults' \in BOOLEAN
  BY <1>1, DistinctClients DEF BetsInv, BetTypes
<1>4. spectatorPc' = [spectatorPc EXCEPT ![s] = pc]
  BY <1>3 DEF SpectatorPlacesBet, SpectatorReturns, BettingCentreAnswers
<1>5. /\ spectatorPc'[s] = pc
      /\ \A t \in Spectators \ {s} : spectatorPc'[t] = spectatorPc[t]
      /\ pc \in SpectatorPcs
  BY <1>4 DEF BetsInv, BetTypes, SpectatorPcs
<1>6. SpectatorInOrder(s) /\ centreCall[s] = "none"
  BY <1>1 DEF BetsInv, SpectatorInOrder, WaitsWhereItCalled
<1>7. WaitsWhereItCalled(s)'
  BY <1>1, <1>3, <1>5, <1>6 DEF WaitsWhereItCalled
<1>8. Entered(s)' = Entered(s)
  BY <1>1, <1>5, <1>6 DEF Entered
<1>9. CASE bettingCall[s] = "placeABet"
  <2>1. HasBetFor(s, spectatorRace[s])' <=> HasBetFor(s, spectatorRace[s])
    BY <1>1, <1>3, <1>5, <1>9 DEF HasBetFor
  <2>2. UNCHANGED bettingQueue /\ pc # "bettingCentre.haveIWon"
        /\ pc # "bettingCentre.goCollectTheGains"
    BY <1>2, <1>9
  <2> HIDE DEF pc, called
  <2> QED
    BY <1>1, <1>3, <1>4, <1>5, <1>7, <1>8, <2>1, <2>2, SpectatorMovesOn
<1>10. CASE bettingCall[s] = "none"
  <2>1. /\ Accepted \in Nat /\ Decided \in Nat /\ Decided <= Accepted
        /\ spectatorRace[s] \in Nat /\ spectatorRace[s] <= Decided
        /\ spectatorRace' = spectatorRace
    BY <1>1, <1>6, BrokerProgress DEF BetsInv, BetTypes, SpectatorInOrder, FollowsTheBroker
  <2>2. \A r : HasBetFor(s, r) <=> spectatorRace[s] > r
    BY <1>1, <1>10 DEF HasBetFor
  <2>3. spectatorRace[s] = Accepted
    <3>1. Accepted > 0 => HasBetFor(s, Accepted - 1)
      BY <1>6 DEF SpectatorInOrder, BetsOnceForARace
    <3>2. Accepted > 0 => spectatorRace[s] > Accepted - 1
      BY <2>2, <3>1
    <3> QED
      BY <2>1, <3>2
  <2>4. ~bettingCentre!HasQueued(s)
    BY <1>6, <2>1, <2>2, <2>3 DEF SpectatorInOrder, BetsOnceForARace
  <2>5. /\ bettingQueue \in Seq(Spectators) /\ Len(bettingQueue) \in Nat
        /\ bettingQueue' \in Seq(Spectators)
        /\ Len(bettingQueue') = Len(bettingQueue) + 1
        /\ bettingQueue'[Len(bettingQueue) + 1] = s
        /\ \A i \in 1 .. Len(bettingQueue) : bettingQueue'[i] = bettingQueue[i]
    <3>1. bettingQueue \in Seq(Spectators) /\ bettingQueue' = Append(bettingQueue, s)
      BY <1>2, <1>10 DEF BetsInv, BetTypes
    <3> QED
      BY <3>1, AppendProperties, LenProperties
  <2>6. QueuedOnce'
    BY <2>4, <2>5 DEF BetsInv, QueuedOnce, bettingCentre!HasQueued
  <2>7. BetTypes'
    BY <1>1, <1>3, <1>4, <1>5, <2>5 DEF BetsInv, BetTypes
  <2>8. /\ bettingCentre!HasQueued(s)'
        /\ \A t \in Spectators \ {s} :
             bettingCentre!HasQueued(t)' <=> bettingCentre!HasQueued(t)
    BY <2>5 DEF bettingCentre!HasQueued
  <2>9. Reported' = Reported /\ Decided' = Decided /\ Accepted' = Accepted
    BY <1>1 DEF Reported, Decided, Accepted
  <2>10. FollowsTheBroker(s)'
    BY <1>1, <1>5, <1>6, <1>8, <2>9 DEF SpectatorInOrder, FollowsTheBroker
  <2>11. HasBetFor(s, Accepted)' /\ (Accepted > 0 => HasBetFor(s, Accepted - 1)')
    BY <1>3, <1>5, <2>1, <2>3, <2>9 DEF HasBetFor
  <2>12. BetsOnceForARace(s)'
    BY <2>8, <2>9, <2>11 DEF BetsOnceForARace
  <2>13. SpectatorInOrder(s)'
    BY <1>7, <2>10, <2>12 DEF SpectatorInOrder
  <2>14. \A t \in Spectators \ {s} :
           spectatorRace'[t] = spectatorRace[t] /\ centreCall'[t] = centreCall[t]
    BY <1>1
  <2> QED
    BY <1>1, <1>3, <1>5, <2>6, <2>7, <2>8, <2>13, <2>14, SpectatorStepKeepsBets
<1> QED
  BY <1>2, <1>9, <1>10


(* Only results that have been decided let a spectator go to the gains or  *)
(* to the next race.                                                       *)
LEMMA SpectatorResultKeepsBets ==
  ASSUME BetsInv, NEW s \in Spectators, SpectatorAsksResult(s) \/ SpectatorCollectsGains(s)
  PROVE  BetsInv'
<1> USE DEF bettingCentre!None, bettingCentre!WaitWhile, bettingCentre!AskResult,
            bettingCentre!Collect, BettingMethods
<1>1. /\ UNCHANGED <<brokerPc, brokerRace, bettingQueue, centreCall, brokerDidNotReportResults,
                     brokerDoesNotAllowToProceedToHaveIWon>>
      /\ spectatorPc[s] \in {"bettingCentre.haveIWon", "bettingCentre.goCollectTheGains"}
  BY DEF SpectatorAsksResult, SpectatorCollectsGains, SpectatorReturns, brokerVars,
         InBettingCentre, centreVars, bettingCentre!haveIWon, bettingCentre!resumeHaveIWon,
         bettingCentre!AskOrWait, bettingCentre!goCollectTheGains,
         bettingCentre!resumeGoCollectTheGains, bettingCentre!betVars, bettingCentre!resultVars
<1>2. PICK called \in {"none", "haveIWon", "goCollectTheGains"} :
        /\ bettingCall' = [bettingCall EXCEPT ![s] = called]
        /\ called = "none" /\ spectatorPc[s] = "bettingCentre.haveIWon"
             => ~brokerDoesNotAllowToProceedToHaveIWon
  <2>1. CASE SpectatorAsksResult(s)
    BY <2>1 DEF SpectatorAsksResult, bettingCentre!haveIWon, bettingCentre!resumeHaveIWon,
                bettingCentre!AskOrWait
  <2>2. CASE SpectatorCollectsGains(s)
    BY <2>2 DEF SpectatorCollectsGains, SpectatorReturns, bettingCentre!goCollectTheGains,
                bettingCentre!resumeGoCollectTheGains
  <2> QED
    BY <2>1, <2>2
<1>3. /\ bettingCall' \in [Spectators \cup {Broker} -> BettingMethods]
      /\ bettingCall'[s] = called
      /\ \A t \in Spectators \ {s} : bettingCall'[t] = bettingCall[t]
      /\ bettingCall'[Broker] = bettingCall[Broker]
      /\ centreCall' \in [Spectators \cup {Broker} -> CentreMethods]
      /\ brokerDidNotReportResults' \in BOOLEAN
  BY <1>1, <1>2, DistinctClients DEF BetsInv, BetTypes
<1>4. /\ SpectatorInOrder(s) /\ centreCall[s] = "none"
      /\ Reported \in Nat /\ Decided \in Nat /\ Accepted \in Nat
      /\ Decided <= Reported /\ Decided <= Accepted /\ spectatorRace[s] \in Nat
  BY <1>1, BrokerProgress DEF BetsInv, BetTypes, SpectatorInOrder, WaitsWhereItCalled
<1>5. PICK pc \in SpectatorPcs :
        /\ spectatorPc' = [spectatorPc EXCEPT ![s] = pc]
        /\ \/ UNCHANGED spectatorRace /\ pc = spectatorPc[s]
           \/ /\ called = "none"
              /\ UNCHANGED spectatorRace
              /\ spectatorPc[s] = "bettingCentre.haveIWon"
              /\ pc = "bettingCentre.goCollectTheGains"
           \/ /\ called = "none"
              /\ spectatorRace' = [spectatorRace EXCEPT ![s] = spectatorRace[s] + 1]
              /\ pc \in {"controlCentre.relaxABit", "controlCentre.waitForTheNextRace"}
  <2>1. AfterTheRace(s) \in {"controlCentre.relaxABit", "controlCentre.waitForTheNextRace"}
    BY DEF AfterTheRace
  <2>2. CASE SpectatorAsksResult(s)
    BY <1>3, <2>1, <2>2 DEF SpectatorAsksResult, SpectatorReturns, GoToNextRace,
                            BettingCentreAnswers, SpectatorPcs
  <2>3. CASE SpectatorCollectsGains(s)
    BY <1>3, <2>1, <2>3 DEF SpectatorCollectsGains, SpectatorReturns, GoToNextRace,
                            BettingCentreAnswers, SpectatorPcs
  <2> QED
    BY <2>2, <2>3
<1>6. /\ spectatorPc'[s] = pc
      /\ \A t \in Spectators \ {s} : spectatorPc'[t] = spectatorPc[t]
  BY <1>5 DEF BetsInv, BetTypes
<1>7. called = "none" => spectatorRace[s] < Decided
  <2>1. spectatorPc[s] = "bettingCentre.haveIWon" => spectatorRace[s] < Reported
    BY <1>4 DEF SpectatorInOrder, FollowsTheBroker
  <2>2. spectatorPc[s] = "bettingCentre.goCollectTheGains" => spectatorRace[s] < Decided
    BY <1>4 DEF SpectatorInOrder, FollowsTheBroker
  <2>3. ~brokerDoesNotAllowToProceedToHaveIWon => Reported = Decided
    BY DEF BetsInv, ResultsAreHeldBack, Reported, Decided, BeforeAcceptance, AfterReport
  <2> QED
    BY <1>1, <1>2, <2>1, <2>2, <2>3
<1>8. CASE UNCHANGED spectatorRace
  <2>1. \/ pc = spectatorPc[s]
        \/ /\ spectatorPc[s] = "bettingCentre.haveIWon"
           /\ pc = "bettingCentre.goCollectTheGains" /\ called = "none"
    <3>1. spectatorRace' = [spectatorRace EXCEPT ![s] = spectatorRace[s] + 1]
            => spectatorRace'[s] = spectatorRace[s] + 1
      BY DEF BetsInv, BetTypes
    <3> QED
      BY <1>4, <1>5, <1>8, <3>1
  <2>2. WaitsWhereItCalled(s)'
    BY <1>1, <1>3, <1>4, <1>6, <2>1 DEF WaitsWhereItCalled
  <2>3. Entered(s)' = Entered(s)
    BY <1>1, <1>6, <1>8, <2>1 DEF Entered
  <2>4. HasBetFor(s, spectatorRace[s])' <=> HasBetFor(s, spectatorRace[s])
    BY <1>1, <1>6, <1>8, <2>1 DEF HasBetFor
  <2>5. /\ pc = "bettingCentre.haveIWon" => spectatorRace[s] < Reported
        /\ pc = "bettingCentre.goCollectTheGains" => spectatorRace[s] < Decided
    BY <1>4, <1>7, <2>1 DEF SpectatorInOrder, FollowsTheBroker
  <2> QED
    BY <1>1, <1>3, <1>4, <1>5, <1>8, <2>2, <2>3, <2>4, <2>5, SpectatorMovesOn
<1>9. CASE /\ called = "none"
           /\ spectatorRace' = [spectatorRace EXCEPT ![s] = spectatorRace[s] + 1]
           /\ pc \in {"controlCentre.relaxABit", "controlCentre.waitForTheNextRace"}
  <2>1. /\ spectatorRace' \in [Spectators -> Nat]
        /\ spectatorRace'[s] = spectatorRace[s] + 1
        /\ \A t \in Spectators \ {s} : spectatorRace'[t] = spectatorRace[t]
    BY <1>9 DEF BetsInv, BetTypes
  <2>2. BetTypes' /\ QueuedOnce'
    BY <1>1, <1>3, <1>5, <2>1 DEF BetsInv, BetTypes, QueuedOnce
  <2>3. Reported' = Reported /\ Decided' = Decided /\ Accepted' = Accepted
    BY <1>1 DEF Reported, Decided, Accepted
  <2>4. \A t \in Spectators : bettingCentre!HasQueued(t)' <=> bettingCentre!HasQueued(t)
    BY <1>1 DEF bettingCentre!HasQueued
  <2>5. WaitsWhereItCalled(s)'
    BY <1>1, <1>3, <1>4, <1>9 DEF WaitsWhereItCalled
  <2>6. Entered(s)' = Entered(s)
    BY <1>1, <1>4, <1>6, <1>9, <2>1 DEF Entered
  <2>7. spectatorRace'[s] <= Decided
    BY <1>4, <1>7, <1>9, <2>1
  <2>8. FollowsTheBroker(s)'
    BY <1>1, <1>4, <1>6, <1>9, <2>3, <2>6, <2>7 DEF SpectatorInOrder, FollowsTheBroker
  <2>9. \A r \in Int : /\ spectatorRace'[s] > r => spectatorRace[s] >= r
                       /\ spectatorRace[s] >= r => spectatorRace'[s] > r
    BY <1>4, <2>1
  <2>10. \A r \in Int : HasBetFor(s, r) <=> spectatorRace[s] >= r
    BY <1>1, <1>4 DEF HasBetFor
  <2>11. /\ HasBetFor(s, Accepted - 1)' <=> spectatorRace'[s] > Accepted - 1
         /\ HasBetFor(s, Accepted)' <=> spectatorRace'[s] > Accepted
    BY <1>6, <1>9, <2>3 DEF HasBetFor
  <2>12. BetsOnceForARace(s)'
    BY <1>4, <2>3, <2>4, <2>9, <2>10, <2>11 DEF SpectatorInOrder, BetsOnceForARace
  <2>13. SpectatorInOrder(s)'
    BY <2>5, <2>8, <2>12 DEF SpectatorInOrder
  <2>14. \A t \in Spectators \ {s} : centreCall'[t] = centreCall[t]
    BY <1>1
  <2> QED
    BY <1>1, <1>3, <1>6, <2>1, <2>2, <2>4, <2>13, <2>14, SpectatorStepKeepsBets
<1> QED
  BY <1>5, <1>8, <1>9


(* The horses and their launcher touch none of this.                       *)
betsVars == <<brokerPc, brokerRace, spectatorPc, spectatorRace, bettingQueue,
              brokerDidNotReportResults, brokerDoesNotAllowToProceedToHaveIWon,
              centreCall, bettingCall>>

LEMMA HorsesDoNotBet ==
  ASSUME NEW h \in HorseJockeys, HorseNext(h)
  PROVE  UNCHANGED betsVars
<1> USE DEF betsVars, HorseReturns, brokerVars, spectatorVars, bettingVars, centreVars
<1>1. CASE HorseSetsAbility(h)
  BY <1>1 DEF HorseSetsAbility, InBettingCentre, bettingCentre!setAbility,
              bettingCentre!betVars, bettingCentre!resultVars
<1>2. CASE HorseArrivesAtStable(h)
  BY <1>2 DEF HorseArrivesAtStable, InStable
<1>3. CASE HorseLeavesForPaddock(h)
  BY <1>3 DEF HorseLeavesForPaddock, InControlCentre, controlCentre!proceedToPaddock
<1>4. CASE HorseParades(h)
  BY <1>4 DEF HorseParades, InPaddock
<1>5. CASE HorseLeavesPaddock(h)
  BY <1>5 DEF HorseLeavesPaddock, InPaddock
<1>6. CASE HorseLinesUp(h)
  BY <1>6 DEF HorseLinesUp, InRacingTrack
<1>7. CASE HorseChecksFinishLine(h)
  BY <1>7 DEF HorseChecksFinishLine, InRacingTrack
<1>8. CASE HorseMoves(h)
  BY <1>8 DEF HorseMoves, InRacingTrack
<1>9. CASE HorseFinishes(h)
  BY <1>9 DEF HorseFinishes, InControlCentre, controlCentre!makeAMove
<1>10. CASE HorseGoesToRest(h)
  BY <1>10 DEF HorseGoesToRest, InStable
<1> QED
  BY <1>1, <1>2, <1>3, <1>4, <1>5, <1>6, <1>7, <1>8, <1>9, <1>10 DEF HorseNext

LEMMA LauncherDoesNotBet == LauncherNext => UNCHANGED betsVars
<1>1. LaunchNextBatch => UNCHANGED betsVars
  BY DEF LaunchNextBatch, InNoRegion, InStable, betsVars, brokerVars, spectatorVars,
         bettingVars, centreVars
<1>2. ASSUME NEW h \in HorseJockeys, LaunchHorse(h) PROVE UNCHANGED betsVars
  BY <1>2 DEF LaunchHorse, InNoRegion, InStable, betsVars, brokerVars, spectatorVars,
              bettingVars, centreVars
<1> QED
  BY <1>1, <1>2 DEF LauncherNext

LEMMA OthersKeepBets == BetsInv /\ UNCHANGED betsVars => BetsInv'
<1> SUFFICES ASSUME BetsInv, UNCHANGED betsVars PROVE BetsInv'
  OBVIOUS
<1> USE DEF betsVars
<1>1. BetTypes' /\ ResultsAreHeldBack'
  BY DEF BetsInv, BetTypes, ResultsAreHeldBack
<1>2. Reported' = Reported /\ Decided' = Decided /\ Accepted' = Accepted
  BY DEF Reported, Decided, Accepted
<1> QED
  BY <1>1, <1>2, BrokerStepKeepsBets

LEMMA BetsNext == BetsInv /\ [Next]_vars => BetsInv'
<1> SUFFICES ASSUME BetsInv, [Next]_vars PROVE BetsInv'
  OBVIOUS
<1>1. CASE BrokerNext
  BY <1>1, BrokerSummonKeepsBets, BrokerAcceptanceKeepsBets, BrokerProgressKeepsBets,
     BrokerReportKeepsBets, BrokerSettlementKeepsBets DEF BrokerNext
<1>2. CASE \E s \in Spectators : SpectatorNext(s)
  BY <1>2, SpectatorRacesKeepBets, SpectatorAppraisalKeepsBets, SpectatorBetKeepsBets,
     SpectatorResultKeepsBets DEF SpectatorNext
<1>3. CASE \E h \in HorseJockeys : HorseNext(h)
  BY <1>3, HorsesDoNotBet, OthersKeepBets
<1>4. CASE LauncherNext
  BY <1>4, LauncherDoesNotBet, OthersKeepBets
<1>5. CASE UNCHANGED vars
  BY <1>5, OthersKeepBets DEF vars, betsVars, brokerVars, spectatorVars, bettingVars, centreVars
<1> QED
  BY <1>1, <1>2, <1>3, <1>4, <1>5 DEF Next

LEMMA BetsAreInOrder == Spec => []BetsInv
  BY BetsInit, BetsNext, PTL DEF Spec

(* The count of the queue in acceptTheBets stands for all the spectators   *)
(* and for this race alone, whatever the number of spectators and however  *)
(* late the requests: the broker starts no race somebody has not bet on.   *)
THEOREM HippodromeAcceptedMeansAllBet == Spec => []AcceptedMeansAllBet
<1>1. ASSUME BetsInv, NEW s \in Spectators,
             brokerPc \in {"racingTrack.startTheRace", "controlCentre.startTheRace",
                           "controlCentre.reportResults", "bettingCentre.areThereAnyWinners",
                           "bettingCentre.honourTheBets"}
      PROVE  HasBetFor(s, brokerRace)
  <2>1. Accepted = brokerRace + 1 /\ brokerRace \in Nat
    BY <1>1 DEF Accepted, BeforeAcceptance, BetsInv, BetTypes
  <2>2. Accepted > 0 => HasBetFor(s, Accepted - 1)
    BY <1>1 DEF BetsInv, SpectatorInOrder, BetsOnceForARace
  <2> QED
    BY <2>1, <2>2
<1>2. BetsInv => AcceptedMeansAllBet
  BY <1>1 DEF AcceptedMeansAllBet
<1> QED
  BY <1>2, BetsAreInOrder, PTL

-----------------------------------------------------------------------------
(* The start of the races.                                                 *)

HorsePcs == BeforeThePaddock \cup {"paddock.proceedToPaddock", "paddock.proceedToStartLine"}
              \cup OnTheTrack \cup OffTheTrack

TrackMethods == {"none", "proceedToStartLine", "makeAMove", "failed"}

BatchTypes ==
  /\ batch \in Nat
  /\ horsePc \in [HorseJockeys -> HorsePcs]
  /\ horseAbility \in [HorseJockeys -> Abilities]
  /\ currentHorsesPositions \in [HorseJockeys -> Nat]
  /\ brokerDidNotOrderToStartTheRace \in BOOLEAN
  /\ trackCall \in [HorseJockeys -> TrackMethods]

(* h has seen the start order of its race.                                 *)
HasStarted(h) ==
  horsePc[h] \in OffTheTrack \cup {"racingTrack.hasFinishLineBeenCrossed", "racingTrack.makeAMove"}

(* A start order is for a race of this batch or of a later one that is not *)
(* yet born: a finisher withdraws it before its batch can die, and nobody  *)
(* of the next batch takes it for the next one's.                          *)
StartInv ==
  /\ BatchTypes
  /\ batch <= Started
  /\ ~brokerDidNotOrderToStartTheRace => Started > batch
  /\ \A h \in HorseJockeys : HasStarted(h) => Started > batch
  /\ \A h \in HorseJockeys :
       horsePc[h] \in OffTheTrack /\ Started = batch + 1 => brokerDidNotOrderToStartTheRace

LEMMA StartInit == Init => StartInv
<1> SUFFICES ASSUME Init PROVE StartInv
  OBVIOUS
<1>1. BatchTypes
  BY DEF Init, racingTrack!Init, BatchTypes, HorsePcs, BeforeThePaddock, TrackMethods,
         racingTrack!Threads, racingTrack!None
<1>2. \A h \in HorseJockeys : horsePc[h] = "unborn"
  BY DEF Init
<1>3. \A h \in HorseJockeys : ~HasStarted(h) /\ horsePc[h] \notin OffTheTrack
  BY <1>2 DEF HasStarted, OffTheTrack
<1>4. Started = 0 /\ batch = 0 /\ brokerDidNotOrderToStartTheRace
  BY DEF Init, racingTrack!Init, Started, BeforeAcceptance
<1> QED
  BY <1>1, <1>3, <1>4 DEF StartInv

LEMMA HorseStepKeepsStart ==
  ASSUME StartInv, BetTypes, NEW h \in HorseJockeys, NEW pc \in HorsePcs,
         UNCHANGED <<brokerPc, brokerRace, batch, horseAbility>>,
         horsePc' = [horsePc EXCEPT ![h] = pc],
         currentHorsesPositions' \in [HorseJockeys -> Nat],
         brokerDidNotOrderToStartTheRace' \in BOOLEAN,
         trackCall' \in [HorseJockeys -> TrackMethods],
         ~brokerDidNotOrderToStartTheRace' => ~brokerDidNotOrderToStartTheRace,
         HasStarted(h)' => HasStarted(h) \/ ~brokerDidNotOrderToStartTheRace,
         pc \in OffTheTrack => horsePc[h] \in OffTheTrack \/ brokerDidNotOrderToStartTheRace'
  PROVE  StartInv'
<1>1. /\ horsePc'[h] = pc
      /\ \A g \in HorseJockeys \ {h} : horsePc'[g] = horsePc[g]
  BY DEF StartInv, BatchTypes
<1>2. BatchTypes'
  BY DEF StartInv, BatchTypes
<1>3. Started' = Started
  BY DEF Started
<1>4. \A g \in HorseJockeys : HasStarted(g)' => Started' > batch'
  BY <1>1, <1>3 DEF StartInv, HasStarted
<1>5. \A g \in HorseJockeys :
        horsePc'[g] \in OffTheTrack /\ Started' = batch' + 1 => brokerDidNotOrderToStartTheRace'
  BY <1>1, <1>2, <1>3 DEF StartInv, BatchTypes
<1> QED
  BY <1>2, <1>3, <1>4, <1>5 DEF StartInv

LEMMA HorseKeepsStart ==
  ASSUME StartInv, BetTypes, NEW h \in HorseJockeys, HorseNext(h)
  PROVE  StartInv'
<1> USE DEF HorseReturns, brokerVars, trackVars, HorsePcs, BeforeThePaddock, OnTheTrack,
            OffTheTrack
<1>1. /\ UNCHANGED <<brokerPc, brokerRace, batch, horseAbility>>
      /\ horsePc[h] \in HorsePcs
      /\ currentHorsesPositions \in [HorseJockeys -> Nat]
      /\ brokerDidNotOrderToStartTheRace \in BOOLEAN
      /\ trackCall \in [HorseJockeys -> TrackMethods]
  BY DEF StartInv, BatchTypes, HorseNext, HorseSetsAbility, HorseArrivesAtStable,
         HorseLeavesForPaddock, HorseParades, HorseLeavesPaddock, HorseLinesUp,
         HorseChecksFinishLine, HorseMoves, HorseFinishes, HorseGoesToRest
<1> DEFINE To(pc) == horsePc' = [horsePc EXCEPT ![h] = pc]
<1>2. ASSUME NEW pc, To(pc) PROVE horsePc'[h] = pc
  BY <1>2 DEF StartInv, BatchTypes
<1>3. CASE HorseSetsAbility(h) \/ HorseArrivesAtStable(h) \/ HorseLeavesForPaddock(h)
           \/ HorseParades(h) \/ HorseLeavesPaddock(h)
  <2>1. UNCHANGED <<currentHorsesPositions, brokerDidNotOrderToStartTheRace, trackCall>>
    BY <1>3 DEF HorseSetsAbility, HorseArrivesAtStable, HorseLeavesForPaddock, HorseParades,
                HorseLeavesPaddock, InBettingCentre, InStable, InControlCentre, InPaddock
  <2>2. PICK pc \in {"bettingCentre.setAbility", "stable.proceedToStable(int)",
                     "controlCentre.proceedToPaddock", "paddock.proceedToPaddock",
                     "paddock.proceedToStartLine", "racingTrack.proceedToStartLine"} : To(pc)
    BY <1>3 DEF HorseSetsAbility, HorseArrivesAtStable, HorseLeavesForPaddock, HorseParades,
                HorseLeavesPaddock
  <2>3. ~HasStarted(h)' /\ pc \notin OffTheTrack /\ pc \in HorsePcs
    BY <1>2, <2>2 DEF HasStarted
  <2> QED
    BY <1>1, <2>1, <2>2, <2>3, HorseStepKeepsStart
<1>4. CASE HorseLinesUp(h)
  <2>1. /\ UNCHANGED brokerDidNotOrderToStartTheRace
        /\ \/ UNCHANGED currentHorsesPositions
           \/ currentHorsesPositions' = [g \in HorseJockeys |-> 0]
        /\ trackCall' = [trackCall EXCEPT ![h] = IF brokerDidNotOrderToStartTheRace
                                                 THEN "proceedToStartLine" ELSE "none"]
    BY <1>4 DEF HorseLinesUp, racingTrack!proceedToStartLine, racingTrack!WaitWhile,
                racingTrack!resumeProceedToStartLine, racingTrack!runVars, racingTrack!None,
                racingTrack!StartLine
  <2>2. /\ currentHorsesPositions' \in [HorseJockeys -> Nat]
        /\ trackCall' \in [HorseJockeys -> TrackMethods]
        /\ trackCall'[h] = "none" => ~brokerDidNotOrderToStartTheRace
    BY <1>1, <2>1 DEF TrackMethods
  <2>3. PICK pc \in {"racingTrack.proceedToStartLine", "racingTrack.hasFinishLineBeenCrossed"} :
          /\ To(pc)
          /\ pc = "racingTrack.hasFinishLineBeenCrossed" => trackCall'[h] = "none"
    BY <1>4 DEF HorseLinesUp, RacingTrackAnswers
  <2>4. /\ HasStarted(h)' => ~brokerDidNotOrderToStartTheRace
        /\ pc \notin OffTheTrack /\ pc \in HorsePcs
    BY <1>2, <2>2, <2>3 DEF HasStarted
  <2> QED
    BY <1>1, <2>1, <2>2, <2>3, <2>4, HorseStepKeepsStart
<1>5. CASE HorseChecksFinishLine(h)
  <2>1. /\ UNCHANGED <<currentHorsesPositions, trackCall>>
        /\ horsePc[h] = "racingTrack.hasFinishLineBeenCrossed"
        /\ \/ /\ racingTrack!HasCrossed(h)
              /\ brokerDidNotOrderToStartTheRace' = TRUE
           \/ /\ ~racingTrack!HasCrossed(h)
              /\ UNCHANGED brokerDidNotOrderToStartTheRace
    BY <1>5 DEF HorseChecksFinishLine, racingTrack!hasFinishLineBeenCrossed, racingTrack!runVars
  <2>2. PICK pc \in {"controlCentre.makeAMove", "racingTrack.makeAMove"} :
          /\ To(pc)
          /\ pc = "controlCentre.makeAMove" => racingTrack!HasCrossed(h)
    BY <1>5 DEF HorseChecksFinishLine
  <2>3. HasStarted(h) /\ (pc \in OffTheTrack => brokerDidNotOrderToStartTheRace')
        /\ pc \in HorsePcs /\ brokerDidNotOrderToStartTheRace' \in BOOLEAN
        /\ (~brokerDidNotOrderToStartTheRace' => ~brokerDidNotOrderToStartTheRace)
    BY <1>1, <2>1, <2>2 DEF HasStarted
  <2> QED
    BY <1>1, <2>1, <2>2, <2>3, HorseStepKeepsStart
<1>6. CASE HorseMoves(h)
  <2>1. /\ UNCHANGED brokerDidNotOrderToStartTheRace
        /\ \/ UNCHANGED currentHorsesPositions
           \/ \E steps \in 1 .. horseAbility[h] :
                currentHorsesPositions' = [currentHorsesPositions EXCEPT
                                             ![h] = currentHorsesPositions[h] + steps]
        /\ \E m \in TrackMethods : trackCall' = [trackCall EXCEPT ![h] = m]
    BY <1>6 DEF HorseMoves, racingTrack!makeAMove, racingTrack!resumeMakeAMove,
                racingTrack!MoveOrWait, racingTrack!Advance, racingTrack!runVars,
                racingTrack!Wait, racingTrack!NotifyAllAndReturn, racingTrack!WaitWhile,
                racingTrack!None, racingTrack!Move, racingTrack!NoReply, TrackMethods
  <2>2. horseAbility[h] \in Nat
    BY HippodromeAssumption DEF HippodromeAssumption, StartInv, BatchTypes
  <2>3. /\ currentHorsesPositions' \in [HorseJockeys -> Nat]
        /\ trackCall' \in [HorseJockeys -> TrackMethods]
    BY <1>1, <2>1, <2>2
  <2>4. PICK pc \in {"racingTrack.hasFinishLineBeenCrossed", "racingTrack.makeAMove"} : To(pc)
    BY <1>6 DEF HorseMoves
  <2>5. HasStarted(h) /\ pc \notin OffTheTrack /\ pc \in HorsePcs
    BY <1>6, <2>4 DEF HorseMoves, HasStarted
  <2> QED
    BY <1>1, <2>1, <2>3, <2>4, <2>5, HorseStepKeepsStart
<1>7. CASE HorseFinishes(h) \/ HorseGoesToRest(h)
  <2>1. UNCHANGED <<currentHorsesPositions, brokerDidNotOrderToStartTheRace, trackCall>>
    BY <1>7 DEF HorseFinishes, HorseGoesToRest, InControlCentre, InStable
  <2>2. PICK pc \in OffTheTrack : To(pc)
    BY <1>7 DEF HorseFinishes, HorseGoesToRest
  <2>3. horsePc[h] \in OffTheTrack /\ HasStarted(h) /\ pc \in HorsePcs
    BY <1>7, <2>2 DEF HorseFinishes, HorseGoesToRest, HasStarted
  <2> QED
    BY <1>1, <2>1, <2>2, <2>3, HorseStepKeepsStart
<1> QED
  BY <1>3, <1>4, <1>5, <1>6, <1>7 DEF HorseNext

(* The launcher waits for the end of a whole batch, so that no start order *)
(* stands when the next one is born.                                       *)
LEMMA LauncherKeepsStart ==
  ASSUME StartInv, BetTypes, LauncherNext
  PROVE  StartInv'
<1>1. UNCHANGED <<brokerPc, brokerRace, currentHorsesPositions,
                  brokerDidNotOrderToStartTheRace, trackCall>>
  BY DEF LauncherNext, LaunchNextBatch, LaunchHorse, InNoRegion, InStable, trackVars, brokerVars
<1>2. Started' = Started /\ Started \in Nat
  BY <1>1, BrokerProgress DEF Started
<1>3. CASE LaunchNextBatch
  <2>1. /\ batch' = batch + 1
        /\ horsePc' = [h \in HorseJockeys |-> "unborn"]
        /\ horseAbility' = horseAbility
        /\ \A h \in HorseJockeys : horsePc[h] = "deceased"
    BY <1>3 DEF LaunchNextBatch
  <2>2. BatchTypes'
    BY <1>1, <2>1 DEF StartInv, BatchTypes, HorsePcs, BeforeThePaddock
  <2>3. PICK h \in HorseJockeys : horsePc[h] = "deceased"
    BY <2>1, ConfigurationAssumption DEF ConfigurationAssumption
  <2>4. Started > batch /\ (Started = batch + 1 => brokerDidNotOrderToStartTheRace)
    BY <2>3 DEF StartInv, HasStarted, OffTheTrack
  <2>5. \A g \in HorseJockeys : ~HasStarted(g)' /\ horsePc'[g] \notin OffTheTrack
    BY <2>1 DEF HasStarted, OffTheTrack
  <2>6. batch' <= Started' /\ (~brokerDidNotOrderToStartTheRace' => Started' > batch')
    BY <1>1, <1>2, <2>1, <2>4 DEF StartInv, BatchTypes
  <2> QED
    BY <2>2, <2>5, <2>6 DEF StartInv
<1>4. ASSUME NEW h \in HorseJockeys, LaunchHorse(h)
      PROVE  StartInv'
  <2> DEFINE pc == "bettingCentre.setAbility"
  <2>1. /\ batch' = batch
        /\ horsePc' = [horsePc EXCEPT ![h] = pc]
        /\ \E ability \in Abilities : horseAbility' = [horseAbility EXCEPT ![h] = ability]
    BY <1>4 DEF LaunchHorse
  <2>2. /\ horsePc'[h] = pc
        /\ \A g \in HorseJockeys \ {h} : horsePc'[g] = horsePc[g]
    BY <2>1 DEF StartInv, BatchTypes
  <2>3. BatchTypes'
    BY <1>1, <2>1 DEF StartInv, BatchTypes, HorsePcs, BeforeThePaddock
  <2>4. ~HasStarted(h)' /\ horsePc'[h] \notin OffTheTrack
    BY <2>2 DEF HasStarted, OffTheTrack
  <2>5. \A g \in HorseJockeys \ {h} : HasStarted(g)' <=> HasStarted(g)
    BY <2>2 DEF HasStarted
  <2> QED
    BY <1>1, <1>2, <2>1, <2>2, <2>3, <2>4, <2>5 DEF StartInv
<1> QED
  BY <1>3, <1>4 DEF LauncherNext

(* The broker orders the start of a race after all those that have run.    *)
LEMMA BrokerKeepsStart ==
  ASSUME StartInv, BetTypes, BrokerNext
  PROVE  StartInv'
<1> USE DEF BrokerReturns, horseVars, trackVars
<1>1. /\ UNCHANGED <<horsePc, horseAbility, batch, currentHorsesPositions, trackCall>>
      /\ Started \in Nat /\ batch \in Nat
  BY BrokerProgress
     DEF StartInv, BatchTypes, BrokerNext, BrokerSummonsHorses, BrokerAnnouncesRace,
         BrokerAcceptsBets, BrokerStartsRace, BrokerSupervisesRace, BrokerReportsResults,
         BrokerLooksForWinners, BrokerHonoursBets, BrokerSetsRace, BrokerEntertainsGuests,
         InStable, InControlCentre, InBettingCentre, InNoRegion, racingTrack!startTheRace,
         racingTrack!setRace, racingTrack!runVars
<1>2. \A h \in HorseJockeys : HasStarted(h)' <=> HasStarted(h)
  BY <1>1 DEF HasStarted
<1>3. CASE BrokerStartsRace
  <2>1. Started' = Started + 1 /\ brokerDidNotOrderToStartTheRace' = FALSE
    BY <1>3 DEF BrokerStartsRace, racingTrack!startTheRace, Started, BeforeAcceptance,
                BetTypes
  <2>2. Started' # batch' + 1 \/ \A h \in HorseJockeys : horsePc'[h] \notin OffTheTrack
    BY <1>1, <2>1 DEF StartInv, HasStarted
  <2>3. BatchTypes'
    BY <1>1, <2>1 DEF StartInv, BatchTypes
  <2> QED
    BY <1>1, <1>2, <2>1, <2>2, <2>3 DEF StartInv
<1>4. CASE ~BrokerStartsRace
  <2>1. UNCHANGED brokerDidNotOrderToStartTheRace
    BY <1>4
     DEF BrokerNext, BrokerSummonsHorses, BrokerAnnouncesRace,
         BrokerAcceptsBets, BrokerSupervisesRace, BrokerReportsResults,
         BrokerLooksForWinners, BrokerHonoursBets, BrokerSetsRace, BrokerEntertainsGuests,
         InStable, InControlCentre, InBettingCentre, InNoRegion, racingTrack!setRace
  <2>2. Started' = Started
    <3> USE DEF Started, BeforeAcceptance, BetTypes
    <3>1. CASE BrokerSummonsHorses \/ BrokerAnnouncesRace \/ BrokerAcceptsBets
      BY <3>1 DEF BrokerSummonsHorses, BrokerAnnouncesRace, BrokerAcceptsBets
    <3>2. CASE BrokerSupervisesRace \/ BrokerReportsResults \/ BrokerSetsRace
               \/ BrokerEntertainsGuests
      BY <3>2 DEF BrokerSupervisesRace, BrokerReportsResults, BrokerSetsRace,
                  BrokerEntertainsGuests
    <3>3. CASE BrokerLooksForWinners \/ BrokerHonoursBets
      BY <3>3 DEF BrokerLooksForWinners, BrokerHonoursBets, AfterTheBets
    <3> QED
      BY <1>4, <3>1, <3>2, <3>3 DEF BrokerNext
  <2>3. BatchTypes'
    BY <1>1, <2>1 DEF StartInv, BatchTypes
  <2> QED
    BY <1>1, <1>2, <2>1, <2>2, <2>3 DEF StartInv
<1> QED
  BY <1>3, <1>4

LEMMA OthersKeepStart ==
  ASSUME StartInv, UNCHANGED <<trackVars, brokerVars, horseVars>>
  PROVE  StartInv'
BY DEF trackVars, brokerVars, horseVars, StartInv, BatchTypes, Started, HasStarted

LEMMA SpectatorsKeepStart ==
  ASSUME NEW s \in Spectators, SpectatorNext(s)
  PROVE  UNCHANGED <<trackVars, brokerVars, horseVars>>
<1> USE DEF SpectatorReturns
<1>1. CASE SpectatorWaitsForRace(s) \/ LastSpectatorTellsBroker(s) \/ SpectatorWatchesRace(s)
  BY <1>1 DEF SpectatorWaitsForRace, LastSpectatorTellsBroker, SpectatorWatchesRace,
              InControlCentre
<1>2. CASE SpectatorIsCounted(s) \/ SpectatorAppraisesHorses(s) \/ SpectatorRelaxes(s)
  BY <1>2 DEF SpectatorIsCounted, SpectatorAppraisesHorses, SpectatorRelaxes, InPaddock,
              InNoRegion, InStable
<1>3. CASE SpectatorPlacesBet(s) \/ SpectatorAsksResult(s) \/ SpectatorCollectsGains(s)
  BY <1>3 DEF SpectatorPlacesBet, SpectatorAsksResult, SpectatorCollectsGains, InBettingCentre
<1> QED
  BY <1>1, <1>2, <1>3 DEF SpectatorNext

LEMMA StartNext == StartInv /\ BetTypes /\ [Next]_vars => StartInv'
<1> SUFFICES ASSUME StartInv, BetTypes, [Next]_vars PROVE StartInv'
  OBVIOUS
<1>1. CASE BrokerNext
  BY <1>1, BrokerKeepsStart
<1>2. CASE \E s \in Spectators : SpectatorNext(s)
  BY <1>2, SpectatorsKeepStart, OthersKeepStart
<1>3. CASE \E h \in HorseJockeys : HorseNext(h)
  BY <1>3, HorseKeepsStart
<1>4. CASE LauncherNext
  BY <1>4, LauncherKeepsStart
<1>5. CASE UNCHANGED vars
  BY <1>5, OthersKeepStart DEF vars
<1> QED
  BY <1>1, <1>2, <1>3, <1>4, <1>5 DEF Next

LEMMA StartsAreInOrder == Spec => []StartInv
<1>1. BetsInv => BetTypes
  BY DEF BetsInv
<1> QED
  BY <1>1, StartInit, StartNext, BetsAreInOrder, PTL DEF Spec

(* Only a horse that has seen the start order of its own race advances.    *)
LEMMA OnlyStartersAdvance ==
  ASSUME StartInv, [Next]_vars, NEW h \in HorseJockeys,
         currentHorsesPositions'[h] > currentHorsesPositions[h]
  PROVE  Started > batch
<1>1. /\ currentHorsesPositions \in [HorseJockeys -> Nat]
      /\ currentHorsesPositions' # currentHorsesPositions
  BY DEF StartInv, BatchTypes
<1>2. PICK g \in HorseJockeys : HorseLinesUp(g) \/ HorseMoves(g)
  <2> USE <1>1 DEF trackVars
  <2>1. ~BrokerNext
    BY DEF BrokerNext, BrokerSummonsHorses, BrokerAnnouncesRace,
         BrokerAcceptsBets, BrokerStartsRace, BrokerSupervisesRace, BrokerReportsResults,
         BrokerLooksForWinners, BrokerHonoursBets, BrokerSetsRace, BrokerEntertainsGuests,
         InStable, InControlCentre, InBettingCentre, InNoRegion, racingTrack!startTheRace,
         racingTrack!setRace, racingTrack!runVars
  <2>2. ~\E s \in Spectators : SpectatorNext(s)
    BY SpectatorsKeepStart
  <2>3. ~LauncherNext
    BY DEF LauncherNext, LaunchNextBatch, LaunchHorse, InNoRegion, InStable
  <2>4. PICK g \in HorseJockeys : HorseNext(g)
    BY <2>1, <2>2, <2>3 DEF Next, vars
  <2>5. ~( \/ HorseSetsAbility(g) \/ HorseArrivesAtStable(g) \/ HorseLeavesForPaddock(g)
           \/ HorseParades(g) \/ HorseLeavesPaddock(g) \/ HorseFinishes(g)
           \/ HorseGoesToRest(g))
    BY DEF HorseSetsAbility, HorseArrivesAtStable, HorseLeavesForPaddock, HorseParades,
           HorseLeavesPaddock, HorseFinishes, HorseGoesToRest, InBettingCentre, InStable,
           InControlCentre, InPaddock
  <2>6. ~HorseChecksFinishLine(g)
    BY DEF HorseChecksFinishLine, racingTrack!hasFinishLineBeenCrossed, racingTrack!runVars
  <2> QED
    BY <2>4, <2>5, <2>6 DEF HorseNext
<1>3. ~HorseLinesUp(g)
  <2>1. HorseLinesUp(g) => currentHorsesPositions' = [f \in HorseJockeys |-> 0]
    BY <1>1 DEF HorseLinesUp, racingTrack!proceedToStartLine,
                racingTrack!resumeProceedToStartLine, racingTrack!runVars
  <2>2. currentHorsesPositions[h] \in Nat
    BY <1>1
  <2> QED
    BY <2>1, <2>2
<1>4. horsePc[g] = "racingTrack.makeAMove"
  BY <1>2, <1>3 DEF HorseMoves, HorseReturns
<1> QED
  BY <1>4 DEF StartInv, HasStarted

(* No horse advances before every spectator has bet on its race, whatever  *)
(* the sizes and the delays: the start order is withdrawn by the finishers *)
(* of its race before the launcher lets the next batch be born, so it is   *)
(* never taken for the order of a race whose bets are still to come        *)
(* (startTheRace, hasFinishLineBeenCrossed, proceedToStartLine).           *)
THEOREM HippodromeRaceAfterTheBets == Spec => RaceAfterTheBets
<1> DEFINE Advances == \A h \in HorseJockeys :
             currentHorsesPositions'[h] > currentHorsesPositions[h]
               => \A s \in Spectators : HasBetFor(s, batch)
<1>1. ASSUME BetsInv, StartInv, [Next]_vars, NEW h \in HorseJockeys,
             currentHorsesPositions'[h] > currentHorsesPositions[h], NEW s \in Spectators
      PROVE  HasBetFor(s, batch)
  <2>1. Started > batch
    BY <1>1, OnlyStartersAdvance
  <2>2. /\ Accepted \in Nat /\ Started \in Nat /\ batch \in Nat /\ spectatorRace[s] \in Nat
        /\ Started <= Accepted
    BY <1>1, BrokerProgress DEF BetsInv, BetTypes, StartInv, BatchTypes
  <2>3. HasBetFor(s, Accepted - 1) /\ batch <= Accepted - 1
    BY <1>1, <2>1, <2>2 DEF BetsInv, SpectatorInOrder, BetsOnceForARace
  <2> QED
    BY <2>2, <2>3 DEF HasBetFor
<1>2. BetsInv /\ StartInv /\ [Next]_vars => Advances
  BY <1>1
<1>3. BetsInv /\ StartInv /\ [Next]_vars => [Advances]_currentHorsesPositions
  BY <1>2
<1> QED
  BY <1>3, BetsAreInOrder, StartsAreInOrder, PTL DEF Spec, RaceAfterTheBets


-----------------------------------------------------------------------------
(* The honouring of the bets.                                              *)

(* s has come for the gains of the last race that was decided, or is done  *)
(* with that race.                                                         *)
Arrived(s) ==
  \/ spectatorRace[s] >= Decided
  \/ spectatorPc[s] = "bettingCentre.goCollectTheGains" /\ bettingCall[s] # "none"

AllArrived == \A s \in winners : Arrived(s)

(* From the acceptance of the bets to the decision of their race.          *)
BetsAreClosed ==
  \/ brokerPc = "bettingCentre.acceptTheBets" /\ bettingCall[Broker] = "acceptTheBets"
  \/ brokerPc \in {"racingTrack.startTheRace", "controlCentre.startTheRace",
                   "controlCentre.reportResults", "bettingCentre.areThereAnyWinners"}

HonourInv ==
  /\ winners \subseteq Spectators
  /\ allWinnersAreNotOnBettingCentre \in BOOLEAN
  /\ winnersArrived = Cardinality({s \in winners : Arrived(s)})
  /\ \A s \in Spectators :
       spectatorPc[s] = "bettingCentre.goCollectTheGains" => s \in winners
  /\ ~allWinnersAreNotOnBettingCentre \/ brokerPc # "bettingCentre.honourTheBets" => AllArrived
  /\ BetsAreClosed => allWinnersAreNotOnBettingCentre

LEMMA HonourInit == Init => HonourInv
<1> SUFFICES ASSUME Init PROVE HonourInv
  OBVIOUS
<1> USE DEF Init, bettingCentre!Init
<1>1. winners = {} /\ {s \in winners : Arrived(s)} = {}
  OBVIOUS
<1>2. ~BetsAreClosed
  BY DEF BetsAreClosed
<1>3. winnersArrived = Cardinality({s \in winners : Arrived(s)})
  BY <1>1, FS_EmptySet
<1> QED
  BY <1>1, <1>2, <1>3 DEF HonourInv, AllArrived

(* Any step but the decision of a race and the arrival of a winner.        *)
LEMMA StepKeepsHonour ==
  ASSUME HonourInv,
         UNCHANGED <<winners, winnersArrived>>,
         allWinnersAreNotOnBettingCentre' \in BOOLEAN,
         allWinnersAreNotOnBettingCentre => allWinnersAreNotOnBettingCentre',
         \A s \in winners : Arrived(s)' <=> Arrived(s),
         \A s \in Spectators : spectatorPc'[s] = "bettingCentre.goCollectTheGains"
           => s \in winners,
         \/ brokerPc' = "bettingCentre.honourTheBets"
         \/ brokerPc # "bettingCentre.honourTheBets"
         \/ ~allWinnersAreNotOnBettingCentre,
         BetsAreClosed' => BetsAreClosed \/ allWinnersAreNotOnBettingCentre'
  PROVE  HonourInv'
<1>1. {s \in winners' : Arrived(s)'} = {s \in winners : Arrived(s)}
  OBVIOUS
<1>2. winnersArrived' = Cardinality({s \in winners : Arrived(s)})'
  BY <1>1 DEF HonourInv
<1>3. AllArrived => AllArrived'
  BY DEF AllArrived
<1>4. ~allWinnersAreNotOnBettingCentre' \/ brokerPc' # "bettingCentre.honourTheBets"
        => AllArrived'
  BY <1>3 DEF HonourInv
<1> QED
  BY <1>2, <1>4 DEF HonourInv

(* The steps that leave the betting centre alone.                          *)
LEMMA OthersKeepHonour ==
  ASSUME HonourInv, UNCHANGED <<winners, winnersArrived, allWinnersAreNotOnBettingCentre>>,
         UNCHANGED <<brokerPc, brokerRace, spectatorPc, spectatorRace, bettingCall>>
  PROVE  HonourInv'
<1>1. \A s : Arrived(s)' <=> Arrived(s)
  BY DEF Arrived, Decided
<1>2. BetsAreClosed' <=> BetsAreClosed
  BY DEF BetsAreClosed
<1> QED
  BY <1>1, <1>2, StepKeepsHonour DEF HonourInv

LEMMA BrokerKeepsHonour ==
  ASSUME HonourInv, BetsInv,
         UNCHANGED <<winners, winnersArrived, spectatorPc, spectatorRace>>,
         allWinnersAreNotOnBettingCentre' \in BOOLEAN,
         allWinnersAreNotOnBettingCentre => allWinnersAreNotOnBettingCentre',
         \A s \in Spectators : bettingCall'[s] = bettingCall[s],
         Decided' = Decided,
         \/ brokerPc' = "bettingCentre.honourTheBets"
         \/ brokerPc # "bettingCentre.honourTheBets"
         \/ ~allWinnersAreNotOnBettingCentre,
         BetsAreClosed' => BetsAreClosed \/ allWinnersAreNotOnBettingCentre'
  PROVE  HonourInv'
<1>1. \A s \in Spectators : Arrived(s)' <=> Arrived(s)
  BY DEF Arrived
<1> QED
  BY <1>1, StepKeepsHonour DEF HonourInv


LEMMA BrokerNextKeepsHonour ==
  ASSUME HonourInv, BetsInv, BrokerNext
  PROVE  HonourInv'
<1> USE DEF BrokerReturns, spectatorVars, bettingVars, bettingCentre!None, bettingCentre!Accept,
            bettingCentre!Honour, bettingCentre!NoReply
<1>1. UNCHANGED <<spectatorPc, spectatorRace>>
  BY DEF BrokerNext, BrokerSummonsHorses, BrokerAnnouncesRace, BrokerAcceptsBets,
         BrokerStartsRace, BrokerSupervisesRace, BrokerReportsResults, BrokerLooksForWinners,
         BrokerHonoursBets, BrokerSetsRace, BrokerEntertainsGuests
<1>2. /\ bettingCall \in [Spectators \cup {Broker} -> BettingMethods]
      /\ allWinnersAreNotOnBettingCentre \in BOOLEAN
  BY DEF BetsInv, BetTypes, HonourInv
<1>3. CASE BrokerSummonsHorses \/ BrokerAnnouncesRace \/ BrokerStartsRace
           \/ BrokerSupervisesRace \/ BrokerReportsResults \/ BrokerSetsRace
           \/ BrokerEntertainsGuests
  <2>1. UNCHANGED <<winners, winnersArrived, allWinnersAreNotOnBettingCentre, bettingCall>>
    BY <1>3 DEF BrokerSummonsHorses, BrokerAnnouncesRace, BrokerStartsRace,
                BrokerSupervisesRace, BrokerReportsResults, BrokerSetsRace,
                BrokerEntertainsGuests, InStable, InControlCentre, InRacingTrack, InNoRegion
  <2>2. Decided' = Decided /\ brokerPc # "bettingCentre.honourTheBets"
    BY <1>3 DEF BrokerSummonsHorses, BrokerAnnouncesRace, BrokerStartsRace,
                BrokerSupervisesRace, BrokerReportsResults, BrokerSetsRace,
                BrokerEntertainsGuests, Decided, AfterReport
  <2>3. BetsAreClosed' => BetsAreClosed
    <3>1. CASE BrokerAnnouncesRace
      <4>1. bettingCall[Broker] = "none"
        BY <3>1, <1>2 DEF BrokerAnnouncesRace, BetsInv, ResultsAreHeldBack
      <4> QED
        BY <2>1, <3>1, <4>1 DEF BrokerAnnouncesRace, BetsAreClosed
    <3>2. CASE ~BrokerAnnouncesRace
      BY <1>3, <2>1, <3>2
         DEF BrokerSummonsHorses, BrokerStartsRace,
             BrokerSupervisesRace, BrokerReportsResults, BrokerSetsRace,
             BrokerEntertainsGuests, BetsAreClosed
    <3> QED
      BY <3>1, <3>2
  <2> QED
    BY <1>1, <1>2, <2>1, <2>2, <2>3, BrokerKeepsHonour
<1>4. CASE BrokerAcceptsBets
  <2>1. /\ brokerPc = "bettingCentre.acceptTheBets"
        /\ brokerPc' = IF bettingCall'[Broker] = "none"
                       THEN "racingTrack.startTheRace" ELSE "bettingCentre.acceptTheBets"
        /\ UNCHANGED <<brokerRace, winners, winnersArrived>>
    BY <1>4 DEF BrokerAcceptsBets, BettingCentreAnswers, bettingCentre!acceptTheBets,
                bettingCentre!acceptTheBetsFails, bettingCentre!resumeAcceptTheBets,
                bettingCentre!resultVars, bettingCentre!payVars
  <2>2. /\ \A s \in Spectators : bettingCall'[s] = bettingCall[s]
        /\ \/ /\ UNCHANGED allWinnersAreNotOnBettingCentre
              /\ bettingCall'[Broker] = "failed"
           \/ /\ UNCHANGED allWinnersAreNotOnBettingCentre
              /\ bettingCall[Broker] = "acceptTheBets"
           \/ allWinnersAreNotOnBettingCentre' = TRUE
    BY <1>2, <1>4, DistinctClients
       DEF BrokerAcceptsBets, bettingCentre!acceptTheBets,
           bettingCentre!acceptTheBetsFails, bettingCentre!resumeAcceptTheBets,
           bettingCentre!AcceptOrWait, bettingCentre!Wait, bettingCentre!NotifyAllAndReturn,
           bettingCentre!WaitWhile, bettingCentre!Notified, bettingCentre!payVars
  <2>3. Decided' = Decided
    BY <2>1 DEF Decided, AfterReport
  <2>4. BetsAreClosed' => BetsAreClosed \/ allWinnersAreNotOnBettingCentre'
    BY <2>1, <2>2 DEF BetsAreClosed
  <2>5. /\ allWinnersAreNotOnBettingCentre' \in BOOLEAN
        /\ allWinnersAreNotOnBettingCentre => allWinnersAreNotOnBettingCentre'
    <3>1. UNCHANGED allWinnersAreNotOnBettingCentre \/ allWinnersAreNotOnBettingCentre' = TRUE
      BY <2>2
    <3> QED
      BY <1>2, <3>1
  <2>6. brokerPc # "bettingCentre.honourTheBets"
    BY <2>1
  <2> QED
    BY <1>1, <2>1, <2>2, <2>3, <2>4, <2>5, <2>6, BrokerKeepsHonour
<1>5. CASE BrokerLooksForWinners
  <2>1. /\ brokerPc = "bettingCentre.areThereAnyWinners"
        /\ brokerPc' = IF winners' # {} THEN "bettingCentre.honourTheBets" ELSE AfterTheBets
        /\ UNCHANGED <<brokerRace, allWinnersAreNotOnBettingCentre>>
        /\ winners' \subseteq Spectators
        /\ winnersArrived' = 0
    BY <1>5 DEF BrokerLooksForWinners, bettingCentre!areThereAnyWinners,
                bettingCentre!BettorsOn
  <2>2. AfterTheBets \in {"racingTrack.setRace", "controlCentre.entertainTheGuests"}
    BY DEF AfterTheBets
  <2>3. /\ allWinnersAreNotOnBettingCentre'
        /\ Decided' = Decided + 1 /\ Accepted = Decided + 1 /\ ~BetsAreClosed'
    BY <2>1, <2>2 DEF HonourInv, BetsAreClosed, Decided, Accepted, AfterReport,
                      BeforeAcceptance
  <2>4. ASSUME NEW s \in Spectators
        PROVE  spectatorPc'[s] # "bettingCentre.goCollectTheGains" /\ ~Arrived(s)'
    <3>1. Decided \in Nat /\ spectatorRace[s] \in Nat /\ Accepted \in Nat
      BY BrokerProgress DEF BetsInv, BetTypes
    <3>2. HasBetFor(s, Decided)
      BY <2>3, <3>1 DEF BetsInv, SpectatorInOrder, BetsOnceForARace
    <3>3. spectatorRace[s] = Decided
      BY <3>1, <3>2 DEF HasBetFor, BetsInv, SpectatorInOrder, FollowsTheBroker
    <3>4. spectatorPc[s] # "bettingCentre.goCollectTheGains"
      BY <3>1, <3>3 DEF BetsInv, SpectatorInOrder, FollowsTheBroker
    <3> QED
      BY <1>1, <2>3, <3>1, <3>3, <3>4 DEF Arrived
  <2>5. {s \in winners' : Arrived(s)'} = {}
    BY <2>1, <2>4
  <2>6. winnersArrived' = Cardinality({s \in winners : Arrived(s)})'
    BY <2>1, <2>5, FS_EmptySet
  <2>7. brokerPc' # "bettingCentre.honourTheBets" => AllArrived'
    BY <2>1 DEF AllArrived
  <2> QED
    BY <1>2, <2>1, <2>3, <2>4, <2>6, <2>7 DEF HonourInv
<1>6. CASE BrokerHonoursBets
  <2>1. /\ brokerPc = "bettingCentre.honourTheBets"
        /\ \/ /\ allWinnersAreNotOnBettingCentre
              /\ bettingCall'[Broker] = "honourTheBets"
              /\ brokerPc' = "bettingCentre.honourTheBets"
           \/ /\ ~allWinnersAreNotOnBettingCentre
              /\ brokerPc' \in {AfterTheBets, "bettingCentre.honourTheBets"}
        /\ \A s \in Spectators : bettingCall'[s] = bettingCall[s]
        /\ UNCHANGED <<brokerRace, winners, winnersArrived, allWinnersAreNotOnBettingCentre>>
    BY <1>2, <1>6, DistinctClients
       DEF BrokerHonoursBets, BettingCentreAnswers, bettingCentre!honourTheBets,
           bettingCentre!resumeHonourTheBets, bettingCentre!HonourOrWait,
           bettingCentre!Wait, bettingCentre!NotifyAllAndReturn, bettingCentre!WaitWhile,
           bettingCentre!resultVars, bettingCentre!payVars
  <2>2. AfterTheBets \in {"racingTrack.setRace", "controlCentre.entertainTheGuests"}
    BY DEF AfterTheBets
  <2>3. Decided' = Decided /\ ~BetsAreClosed'
    BY <2>1, <2>2 DEF Decided, AfterReport, BetsAreClosed
  <2> QED
    BY <1>1, <1>2, <2>1, <2>3, BrokerKeepsHonour
<1> QED
  BY <1>3, <1>4, <1>5, <1>6 DEF BrokerNext


LEMMA SpectatorStepKeepsHonour ==
  ASSUME HonourInv, BetTypes, NEW s \in Spectators, NEW pc,
         UNCHANGED <<brokerPc, brokerRace, winners, winnersArrived,
                     allWinnersAreNotOnBettingCentre>>,
         bettingCall'[Broker] = bettingCall[Broker],
         spectatorPc' = [spectatorPc EXCEPT ![s] = pc],
         pc = "bettingCentre.goCollectTheGains" => s \in winners,
         \A t \in Spectators \ {s} :
           spectatorRace'[t] = spectatorRace[t] /\ bettingCall'[t] = bettingCall[t],
         s \in winners => (Arrived(s)' <=> Arrived(s))
  PROVE  HonourInv'
<1>1. /\ spectatorPc'[s] = pc
      /\ \A t \in Spectators \ {s} : spectatorPc'[t] = spectatorPc[t]
  BY DEF BetTypes
<1>2. Decided' = Decided
  BY DEF Decided
<1>3. \A t \in Spectators \ {s} : Arrived(t)' <=> Arrived(t)
  BY <1>1, <1>2 DEF Arrived
<1>4. \A t \in winners : Arrived(t)' <=> Arrived(t)
  BY <1>3 DEF HonourInv
<1>5. \A t \in Spectators :
        spectatorPc'[t] = "bettingCentre.goCollectTheGains" => t \in winners
  BY <1>1 DEF HonourInv
<1>6. BetsAreClosed' => BetsAreClosed
  BY DEF BetsAreClosed
<1> QED
  BY <1>4, <1>5, <1>6, StepKeepsHonour DEF HonourInv

(* The steps of a spectator that is not after results or gains.            *)
LEMMA SpectatorRacesKeepHonour ==
  ASSUME HonourInv, BetsInv, NEW s \in Spectators, SpectatorNext(s),
         ~SpectatorAsksResult(s), ~SpectatorCollectsGains(s)
  PROVE  HonourInv'
<1> USE DEF SpectatorReturns, brokerVars, bettingVars
<1>1. PICK pc : /\ spectatorPc' = [spectatorPc EXCEPT ![s] = pc]
                /\ pc # "bettingCentre.goCollectTheGains"
                /\ spectatorPc[s] # "bettingCentre.goCollectTheGains"
  BY DEF SpectatorNext, SpectatorWaitsForRace, SpectatorIsCounted, LastSpectatorTellsBroker,
         SpectatorAppraisesHorses, SpectatorPlacesBet, SpectatorWatchesRace, SpectatorRelaxes
<1>2. UNCHANGED <<brokerPc, brokerRace, spectatorRace, winners, winnersArrived,
                  allWinnersAreNotOnBettingCentre>>
  BY DEF SpectatorNext, SpectatorWaitsForRace, SpectatorIsCounted, LastSpectatorTellsBroker,
         SpectatorAppraisesHorses, SpectatorPlacesBet, SpectatorWatchesRace, SpectatorRelaxes,
         InControlCentre, InPaddock, InNoRegion, InStable, bettingCentre!placeABet,
         bettingCentre!resumePlaceABet, bettingCentre!resultVars, bettingCentre!payVars
<1>3. \A t \in (Spectators \ {s}) \cup {Broker} : bettingCall'[t] = bettingCall[t]
  <2>1. CASE SpectatorPlacesBet(s)
    BY <2>1, DistinctClients DEF SpectatorPlacesBet, bettingCentre!placeABet,
         bettingCentre!resumePlaceABet, bettingCentre!WaitWhile, BetsInv, BetTypes
  <2>2. CASE ~SpectatorPlacesBet(s)
    BY <2>2 DEF SpectatorNext, SpectatorWaitsForRace, SpectatorIsCounted,
         LastSpectatorTellsBroker, SpectatorAppraisesHorses, SpectatorWatchesRace,
         SpectatorRelaxes, InControlCentre, InPaddock, InNoRegion, InStable
  <2> QED
    BY <2>1, <2>2
<1>4. spectatorPc'[s] = pc
  BY <1>1 DEF BetsInv, BetTypes
<1>5. Arrived(s)' <=> Arrived(s)
  BY <1>1, <1>2, <1>4 DEF Arrived, Decided
<1>6. BetTypes /\ \A t \in Spectators \ {s} : spectatorRace'[t] = spectatorRace[t]
  BY <1>2 DEF BetsInv
<1> QED
  BY <1>1, <1>2, <1>3, <1>5, <1>6, SpectatorStepKeepsHonour

(* A winner that learns that it has won is still to come.                  *)
LEMMA SpectatorResultKeepsHonour ==
  ASSUME HonourInv, BetsInv, NEW s \in Spectators, SpectatorAsksResult(s)
  PROVE  HonourInv'
<1> DEFINE returns == ~brokerDoesNotAllowToProceedToHaveIWon
           pc == IF returns
                 THEN IF s \in winners THEN "bettingCentre.goCollectTheGains"
                      ELSE AfterTheRace(s)
                 ELSE "bettingCentre.haveIWon"
<1>1. /\ spectatorPc[s] = "bettingCentre.haveIWon"
      /\ UNCHANGED <<brokerPc, brokerRace, winners, winnersArrived,
                     allWinnersAreNotOnBettingCentre>>
      /\ bettingCall' = [bettingCall EXCEPT ![s] = IF returns THEN "none" ELSE "haveIWon"]
  BY DEF SpectatorAsksResult, SpectatorReturns, brokerVars,
         bettingCentre!haveIWon, bettingCentre!resumeHaveIWon, bettingCentre!AskOrWait,
         bettingCentre!resultVars, bettingCentre!payVars, bettingCentre!WaitWhile,
         bettingCentre!None, bettingCentre!AskResult
<1>2. /\ bettingCall'[s] = IF returns THEN "none" ELSE "haveIWon"
      /\ \A t \in (Spectators \ {s}) \cup {Broker} : bettingCall'[t] = bettingCall[t]
  BY <1>1, DistinctClients DEF BetsInv, BetTypes
<1>3. /\ spectatorPc' = [spectatorPc EXCEPT ![s] = pc]
      /\ spectatorRace' = IF returns /\ s \notin winners
                          THEN [spectatorRace EXCEPT ![s] = @ + 1] ELSE spectatorRace
  BY <1>2 DEF SpectatorAsksResult, SpectatorReturns, BettingCentreAnswers, GoToNextRace,
              HasWon, bettingCentre!Won
<1>4. \A t \in Spectators \ {s} : spectatorRace'[t] = spectatorRace[t]
  BY <1>3 DEF BetsInv, BetTypes
<1>5. AfterTheRace(s) # "bettingCentre.goCollectTheGains"
  BY DEF AfterTheRace
<1>6. spectatorPc'[s] = pc
  BY <1>3 DEF BetsInv, BetTypes
<1>7. s \in winners => (Arrived(s)' <=> Arrived(s))
  BY <1>1, <1>2, <1>3, <1>6 DEF Arrived, Decided
<1> QED
  BY <1>1, <1>2, <1>3, <1>4, <1>5, <1>7, SpectatorStepKeepsHonour DEF BetsInv

(* The arrival of a winner: the last one releases the broker.              *)
LEMMA SpectatorCollectsKeepsHonour ==
  ASSUME HonourInv, BetsInv, NEW s \in Spectators, SpectatorCollectsGains(s)
  PROVE  HonourInv'
<1> DEFINE returns == ~winnersMustNotReceiveTheirMoney
           pc == IF returns THEN AfterTheRace(s) ELSE "bettingCentre.goCollectTheGains"
           isLast == winnersArrived + 1 = Cardinality(winners)
<1>1. /\ spectatorPc[s] = "bettingCentre.goCollectTheGains" /\ s \in winners
      /\ UNCHANGED <<brokerPc, brokerRace, winners>>
      /\ bettingCall' = [bettingCall EXCEPT
                           ![s] = IF returns THEN "none" ELSE "goCollectTheGains"]
  BY DEF SpectatorCollectsGains, SpectatorReturns, brokerVars, HonourInv,
         bettingCentre!goCollectTheGains, bettingCentre!resumeGoCollectTheGains,
         bettingCentre!resultVars, bettingCentre!WaitWhile, bettingCentre!None,
         bettingCentre!Collect
<1>2. /\ bettingCall'[s] = IF returns THEN "none" ELSE "goCollectTheGains"
      /\ \A t \in (Spectators \ {s}) \cup {Broker} : bettingCall'[t] = bettingCall[t]
  BY <1>1, DistinctClients DEF BetsInv, BetTypes
<1>3. /\ spectatorPc' = [spectatorPc EXCEPT ![s] = pc]
      /\ spectatorRace' = IF returns THEN [spectatorRace EXCEPT ![s] = spectatorRace[s] + 1]
                                     ELSE spectatorRace
  BY <1>2 DEF SpectatorCollectsGains, SpectatorReturns, BettingCentreAnswers, GoToNextRace
<1>4. /\ spectatorPc'[s] = pc
      /\ \A t \in Spectators \ {s} :
           spectatorRace'[t] = spectatorRace[t] /\ spectatorPc'[t] = spectatorPc[t]
      /\ spectatorRace'[s] = IF returns THEN spectatorRace[s] + 1 ELSE spectatorRace[s]
  BY <1>3 DEF BetsInv, BetTypes
<1>5. /\ Decided' = Decided /\ Decided \in Nat /\ Decided <= Accepted /\ Accepted \in Nat
      /\ spectatorRace[s] \in Nat /\ spectatorRace[s] < Decided
      /\ Accepted > 0 => HasBetFor(s, Accepted - 1)
  BY <1>1, BrokerProgress DEF BetsInv, BetTypes, SpectatorInOrder, FollowsTheBroker,
                              BetsOnceForARace, Decided
<1>6. spectatorRace[s] + 1 = Decided
  BY <1>5 DEF HasBetFor
<1>7. Arrived(s)'
  BY <1>2, <1>4, <1>5, <1>6 DEF Arrived
<1>8. \A t \in Spectators \ {s} : Arrived(t)' <=> Arrived(t)
  BY <1>2, <1>4, <1>5 DEF Arrived
<1>9. CASE bettingCall[s] = "goCollectTheGains"
  <2>1. UNCHANGED <<winnersArrived, allWinnersAreNotOnBettingCentre>>
    BY <1>9 DEF SpectatorCollectsGains, bettingCentre!goCollectTheGains,
                bettingCentre!resumeGoCollectTheGains, bettingCentre!payVars,
                bettingCentre!Outside, bettingCentre!None
  <2>2. Arrived(s)
    BY <1>1, <1>9 DEF Arrived
  <2> QED
    BY <1>1, <1>2, <1>3, <1>4, <1>7, <2>1, <2>2, SpectatorStepKeepsHonour DEF BetsInv
<1>10. CASE bettingCall[s] = "none"
  <2>1. /\ winnersArrived' = winnersArrived + 1
        /\ allWinnersAreNotOnBettingCentre' = (allWinnersAreNotOnBettingCentre /\ ~isLast)
    BY <1>10 DEF SpectatorCollectsGains, bettingCentre!goCollectTheGains,
                 bettingCentre!resumeGoCollectTheGains, bettingCentre!Notified,
                 bettingCentre!Collect, bettingCentre!Cardinality, Cardinality
  <2>2. ~Arrived(s)
    BY <1>5, <1>10 DEF Arrived
  <2>3. allWinnersAreNotOnBettingCentre /\ brokerPc = "bettingCentre.honourTheBets"
    BY <1>1, <2>2 DEF HonourInv, AllArrived
  <2> DEFINE come == {t \in winners : Arrived(t)}
             comeThen == {t \in winners' : Arrived(t)'}
  <2>4. comeThen = come \cup {s} /\ s \notin come /\ come \subseteq winners
    BY <1>1, <1>7, <1>8, <2>2 DEF HonourInv
  <2>5. IsFiniteSet(winners) /\ IsFiniteSet(come)
    BY <2>4, ConfigurationAssumption, FS_Subset DEF ConfigurationAssumption, HonourInv
  <2>6. Cardinality(comeThen) = Cardinality(come) + 1
    BY <2>4, <2>5, FS_AddElement
  <2>7. winnersArrived' = Cardinality(comeThen)
    BY <2>1, <2>6 DEF HonourInv
  <2>8. isLast => comeThen = winners
    <3>1. comeThen \subseteq winners
      BY <1>1
    <3> HIDE DEF comeThen
    <3> QED
      BY <2>1, <2>5, <2>7, <3>1, FS_Subset
  <2>9. ~allWinnersAreNotOnBettingCentre' => AllArrived'
    BY <1>1, <2>1, <2>3, <2>8 DEF AllArrived
  <2>10. \A t \in Spectators :
           spectatorPc'[t] = "bettingCentre.goCollectTheGains" => t \in winners'
    BY <1>1, <1>4 DEF HonourInv
  <2>11. ~BetsAreClosed' /\ brokerPc' = "bettingCentre.honourTheBets"
    BY <1>1, <2>3 DEF BetsAreClosed
  <2>12. allWinnersAreNotOnBettingCentre' \in BOOLEAN
    BY <2>1
  <2> QED
    BY <1>1, <2>7, <2>9, <2>10, <2>11, <2>12 DEF HonourInv
<1>11. bettingCall[s] \in {"none", "goCollectTheGains"}
  BY DEF SpectatorCollectsGains, bettingCentre!goCollectTheGains, bettingCentre!Outside,
         bettingCentre!resumeGoCollectTheGains, bettingCentre!Notified, bettingCentre!None,
         bettingCentre!Collect
<1> QED
  BY <1>9, <1>10, <1>11

LEMMA HonourNext == HonourInv /\ BetsInv /\ [Next]_vars => HonourInv'
<1> SUFFICES ASSUME HonourInv, BetsInv, [Next]_vars PROVE HonourInv'
  OBVIOUS
<1>1. CASE BrokerNext
  BY <1>1, BrokerNextKeepsHonour
<1>2. ASSUME NEW s \in Spectators, SpectatorNext(s)
      PROVE  HonourInv'
  BY <1>2, SpectatorRacesKeepHonour, SpectatorResultKeepsHonour, SpectatorCollectsKeepsHonour
<1>3. ASSUME NEW h \in HorseJockeys, HorseNext(h)
      PROVE  HonourInv'
  <2>1. UNCHANGED <<winners, winnersArrived, allWinnersAreNotOnBettingCentre>>
    BY <1>3 DEF HorseNext, HorseSetsAbility, HorseArrivesAtStable, HorseLeavesForPaddock,
         HorseParades, HorseLeavesPaddock, HorseLinesUp, HorseChecksFinishLine, HorseMoves,
         HorseFinishes, HorseGoesToRest, InStable, InControlCentre, InPaddock, InRacingTrack,
         bettingVars, bettingCentre!setAbility, bettingCentre!resultVars, bettingCentre!payVars
  <2> QED
    BY <1>3, <2>1, HorsesDoNotBet, OthersKeepHonour DEF betsVars
<1>4. CASE LauncherNext
  <2>1. UNCHANGED <<winners, winnersArrived, allWinnersAreNotOnBettingCentre>>
    BY <1>4 DEF LauncherNext, LaunchHorse, LaunchNextBatch, InNoRegion, InStable, bettingVars
  <2> QED
    BY <1>4, <2>1, LauncherDoesNotBet, OthersKeepHonour DEF betsVars
<1>5. CASE UNCHANGED vars
  BY <1>5, OthersKeepHonour DEF vars, bettingVars, brokerVars, spectatorVars
<1> QED
  BY <1>1, <1>2, <1>3, <1>4, <1>5 DEF Next

LEMMA BetsAreHonoured == Spec => []HonourInv
  BY HonourInit, HonourNext, BetsAreInOrder, PTL DEF Spec

(* The broker honours the bets when exactly as many winners have come as   *)
(* the race has, however many spectators won: winnersArrived counts each   *)
(* of them once, and the flag of the race before is withdrawn by           *)
(* acceptTheBets, before areThereAnyWinners names the next winners.        *)
THEOREM HippodromeHonouredMeansAllArrived == Spec => []HonouredMeansAllArrived
<1>1. ASSUME HonourInv, ~allWinnersAreNotOnBettingCentre
      PROVE  winnersArrived = Cardinality(winners)
  <2>1. {s \in winners : Arrived(s)} = winners
    BY <1>1 DEF HonourInv, AllArrived
  <2> QED
    BY <1>1, <2>1 DEF HonourInv
<1>2. HonourInv => HonouredMeansAllArrived
  BY <1>1 DEF HonouredMeansAllArrived
<1> QED
  BY <1>2, BetsAreHonoured, PTL


-----------------------------------------------------------------------------
(* The parade: the horses of a batch and the spectators of its race meet   *)
(* at the control centre and at the paddock before the bets.               *)

PaddockMethods == {"none", "proceedToPaddock", "goCheckHorses(boolean)"}

ParadeTypes ==
  /\ isLastSpectator \in [Spectators -> BOOLEAN]
  /\ announcing \in BOOLEAN
  /\ lastHorseJockeyHasNotArrivedOnPaddock \in BOOLEAN
  /\ lastHorseDidNotProceedToStartLine \in BOOLEAN
  /\ lastSpectatorHasNotArrivedOnPaddock \in BOOLEAN
  /\ paddockCall \in [HorseJockeys \cup Spectators -> PaddockMethods]

(* The races the broker has announced: ControlCentre.summonHorsesToPaddock *)
(* has returned.  The races the last spectator has told it that all the    *)
(* spectators have come.  The batches that have all left the stable.       *)
Announced ==
  IF brokerPc \in {"stable.summonHorsesToPaddock", "controlCentre.summonHorsesToPaddock"}
  THEN brokerRace ELSE brokerRace + 1
Told == IF announcing THEN Announced ELSE Announced + 1
OutOfStable == {h \in HorseJockeys : horsePc[h] \notin BeforeThePaddock}
Paraded == IF OutOfStable = HorseJockeys THEN batch + 1 ELSE batch

(* The races s has been let go to the paddock for, and been counted in.    *)
BetweenRaces == {"controlCentre.waitForTheNextRace", "controlCentre.relaxABit", "celebrating"}
Passed(s) == IF spectatorPc[s] \in BetweenRaces THEN spectatorRace[s] ELSE spectatorRace[s] + 1
Counted(s) ==
  IF spectatorPc[s] \in BetweenRaces \cup {"paddock.goCheckHorses()"}
  THEN spectatorRace[s] ELSE spectatorRace[s] + 1

CountedNow == {s \in Spectators : Counted(s) = Told + 1}

(* h has left the loop of Paddock.proceedToPaddock; it has left the paddock. *)
LeftTheParade(h) ==
  horsePc[h] \in {"paddock.proceedToStartLine"} \cup OnTheTrack \cup OffTheTrack
HasLeft(h) == horsePc[h] \in OnTheTrack \cup OffTheTrack

(* The flag of ControlCentre.waitForTheNextRace stands for one batch.      *)
StableIsCounted ==
  /\ Paraded = IF lastHorseJockeyHasNotArrivedOnPaddock THEN Told ELSE Told + 1
  /\ numberOfHorseJockeysOnPaddock =
       IF OutOfStable = HorseJockeys THEN 0 ELSE Cardinality(OutOfStable)

(* No spectator is a race ahead of the horses, or behind what the broker   *)
(* has been told.                                                          *)
SpectatorKeepsPace(s) ==
  /\ Told <= Counted(s) /\ Passed(s) <= Paraded
  /\ spectatorPc[s] = "controlCentre.goCheckHorses"
       => \A t \in Spectators :
            /\ Counted(t) = Told + 1
            /\ spectatorPc[t] = "controlCentre.goCheckHorses" => t = s
  /\ spectatorPc[s] = "paddock.goCheckHorses(boolean)" /\ isLastSpectator[s]
       => spectatorRace[s] + 1 <= Told

SpectatorsAreCounted ==
  currentNumberOfSpectators =
    IF Told = batch THEN Cardinality(CountedNow)
    ELSE IF \E h \in HorseJockeys : HasLeft(h) THEN 0 ELSE NUMBER_OF_SPECTATORS

(* The paddock lets the horses go when all their spectators have come, and *)
(* no horse of a later batch.                                              *)
ParadeEnds ==
  /\ ~lastSpectatorHasNotArrivedOnPaddock
       => /\ Told = batch + 1
          /\ \E s \in Spectators : spectatorPc[s] = "paddock.goCheckHorses(boolean)"
  /\ \A h \in HorseJockeys : LeftTheParade(h) => Told = batch + 1

ParadeInv ==
  /\ ParadeTypes
  /\ StableIsCounted
  /\ \A s \in Spectators : SpectatorKeepsPace(s)
  /\ SpectatorsAreCounted
  /\ ParadeEnds


LEMMA ParadeProgress ==
  ASSUME BetsInv, StartInv
  PROVE  /\ Announced \in Nat /\ Told \in Nat /\ batch \in Nat /\ Paraded \in Nat
         /\ Accepted <= Announced /\ Announced <= Told /\ batch <= Accepted
         /\ Paraded <= batch + 1 /\ batch <= Paraded
         /\ \A s \in Spectators :
              /\ spectatorRace[s] \in Nat /\ Passed(s) \in Nat /\ Counted(s) \in Nat
              /\ Counted(s) <= Passed(s)
<1>1. /\ brokerPc \in BrokerPcs /\ brokerRace \in Nat /\ batch \in Nat
      /\ batch <= Started /\ Started <= Accepted /\ Accepted \in Nat /\ Started \in Nat
  BY BrokerProgress DEF BetsInv, BetTypes, StartInv, BatchTypes
<1>2. Announced \in Nat /\ Accepted <= Announced
  BY <1>1 DEF Announced, Accepted, BeforeAcceptance
<1>3. Told \in Nat /\ Announced <= Told
  BY <1>2 DEF Told
<1>4. Paraded \in Nat /\ Paraded <= batch + 1 /\ batch <= Paraded
  BY <1>1 DEF Paraded
<1>5. ASSUME NEW s \in Spectators
      PROVE  /\ spectatorRace[s] \in Nat /\ Passed(s) \in Nat /\ Counted(s) \in Nat
             /\ Counted(s) <= Passed(s)
  BY DEF BetsInv, BetTypes, Passed, Counted, BetweenRaces
<1> QED
  BY <1>1, <1>2, <1>3, <1>4, <1>5

LEMMA ParadeInit == Init => ParadeInv
<1> SUFFICES ASSUME Init PROVE ParadeInv
  OBVIOUS
<1> USE DEF Init, controlCentre!Init, paddock!Init
<1>1. ParadeTypes
  BY DEF ParadeTypes, PaddockMethods, paddock!Threads, paddock!None
<1>2. Announced = 0 /\ Told = 0 /\ batch = 0
  BY DEF Announced, Told
<1>3. OutOfStable = {} /\ OutOfStable # HorseJockeys
  BY ConfigurationAssumption DEF OutOfStable, BeforeThePaddock, ConfigurationAssumption
<1>4. StableIsCounted /\ Paraded = 0
  BY <1>2, <1>3, FS_EmptySet DEF StableIsCounted, Paraded
<1>5. ASSUME NEW s \in Spectators
      PROVE  SpectatorKeepsPace(s) /\ Counted(s) = 0
  BY <1>2, <1>4 DEF SpectatorKeepsPace, Counted, Passed, BetweenRaces
<1>6. CountedNow = {}
  BY <1>2, <1>5 DEF CountedNow
<1>7. SpectatorsAreCounted
  BY <1>2, <1>6, FS_EmptySet DEF SpectatorsAreCounted
<1>8. ParadeEnds
  BY DEF ParadeEnds, LeftTheParade, OnTheTrack, OffTheTrack
<1> QED
  BY <1>1, <1>4, <1>5, <1>7, <1>8 DEF ParadeInv

(* The horses' part and the spectators' part, each left alone by the steps *)
(* of the other.                                                           *)
horsesParadeVars == <<horsePc, batch, numberOfHorseJockeysOnPaddock>>
spectatorsParadeVars == <<spectatorPc, spectatorRace, isLastSpectator>>

(* A step that tells the broker nothing and leaves the spectators alone.   *)
LEMMA SpectatorsKeepPace ==
  ASSUME ParadeInv, UNCHANGED spectatorsParadeVars, Told' = Told, Paraded <= Paraded',
         BetsInv, StartInv, Paraded' \in Nat
  PROVE  /\ \A s \in Spectators : SpectatorKeepsPace(s)'
         /\ CountedNow' = CountedNow
<1> USE DEF spectatorsParadeVars
<1>1. \A s : Counted(s)' = Counted(s) /\ Passed(s)' = Passed(s)
  BY DEF Counted, Passed
<1>2. CountedNow' = CountedNow
  BY <1>1 DEF CountedNow
<1>3. ASSUME NEW s \in Spectators
      PROVE  SpectatorKeepsPace(s)'
  BY <1>1, ParadeProgress DEF ParadeInv, SpectatorKeepsPace
<1> QED
  BY <1>2, <1>3

(* A step that touches nothing of the parade, except that the broker may   *)
(* take note of what it has been told.                                     *)
LEMMA OthersKeepParade ==
  ASSUME ParadeInv, BetsInv, StartInv,
         UNCHANGED <<horsesParadeVars, spectatorsParadeVars, currentNumberOfSpectators,
                     lastHorseJockeyHasNotArrivedOnPaddock, lastHorseDidNotProceedToStartLine,
                     lastSpectatorHasNotArrivedOnPaddock, paddockCall>>,
         announcing' \in BOOLEAN, Told' = Told
  PROVE  ParadeInv'
<1> USE DEF horsesParadeVars
<1>1. ParadeTypes'
  BY DEF ParadeInv, ParadeTypes, spectatorsParadeVars
<1>2. OutOfStable' = OutOfStable /\ Paraded' = Paraded
  BY DEF OutOfStable, Paraded
<1>3. StableIsCounted'
  BY <1>2 DEF ParadeInv, StableIsCounted
<1>4. (\A s \in Spectators : SpectatorKeepsPace(s)') /\ CountedNow' = CountedNow
  BY <1>2, SpectatorsKeepPace, ParadeProgress
<1>5. SpectatorsAreCounted'
  BY <1>4 DEF ParadeInv, SpectatorsAreCounted, HasLeft
<1>6. ParadeEnds'
  BY DEF ParadeInv, ParadeEnds, LeftTheParade, spectatorsParadeVars
<1> QED
  BY <1>1, <1>3, <1>4, <1>5, <1>6 DEF ParadeInv

LEMMA BrokerKeepsParade ==
  ASSUME ParadeInv, BetsInv, StartInv, BrokerNext
  PROVE  ParadeInv'
<1> USE DEF BrokerReturns, horseVars, spectatorVars, centreVars, paddockVars
<1>1. UNCHANGED <<horsePc, batch, spectatorPc, spectatorRace, isLastSpectator>>
  BY DEF BrokerNext, BrokerSummonsHorses, BrokerAnnouncesRace, BrokerAcceptsBets,
         BrokerStartsRace, BrokerSupervisesRace, BrokerReportsResults, BrokerLooksForWinners,
         BrokerHonoursBets, BrokerSetsRace, BrokerEntertainsGuests
<1>2. UNCHANGED <<currentNumberOfSpectators, lastHorseDidNotProceedToStartLine,
                  lastSpectatorHasNotArrivedOnPaddock, paddockCall>>
  BY DEF BrokerNext, BrokerSummonsHorses, BrokerAnnouncesRace, BrokerAcceptsBets,
         BrokerStartsRace, BrokerSupervisesRace, BrokerReportsResults, BrokerLooksForWinners,
         BrokerHonoursBets, BrokerSetsRace, BrokerEntertainsGuests, InStable, InControlCentre,
         InRacingTrack, InBettingCentre, InNoRegion
<1>3. UNCHANGED <<numberOfHorseJockeysOnPaddock, lastHorseJockeyHasNotArrivedOnPaddock>>
  BY DEF BrokerNext, BrokerSummonsHorses, BrokerAnnouncesRace, BrokerAcceptsBets,
         BrokerStartsRace, BrokerSupervisesRace, BrokerReportsResults, BrokerLooksForWinners,
         BrokerHonoursBets, BrokerSetsRace, BrokerEntertainsGuests, InStable,
         InRacingTrack, InBettingCentre, InNoRegion, controlCentre!summonHorsesToPaddock,
         controlCentre!resumeSummonHorsesToPaddock, controlCentre!SummonOrWait,
         controlCentre!startTheRace, controlCentre!resumeStartTheRace,
         controlCentre!SuperviseOrWait, controlCentre!reportResults, controlCentre!paddockVars
<1>4. brokerRace \in Nat /\ announcing \in BOOLEAN
      /\ centreCall \in [Spectators \cup {Broker} -> CentreMethods]
  BY DEF BetsInv, BetTypes, ParadeInv, ParadeTypes
<1>5. CASE BrokerAnnouncesRace
  <2>1. /\ brokerPc = "controlCentre.summonHorsesToPaddock"
        /\ announcing' = TRUE
        /\ UNCHANGED brokerRace
        /\ centreCall' = [centreCall EXCEPT ![Broker] = IF announcing
                                             THEN "summonHorsesToPaddock" ELSE "none"]
    BY <1>5 DEF BrokerAnnouncesRace, controlCentre!summonHorsesToPaddock,
                controlCentre!resumeSummonHorsesToPaddock, controlCentre!SummonOrWait,
                controlCentre!WaitWhile, controlCentre!None, controlCentre!Summon
  <2>2. centreCall'[Broker] = IF announcing THEN "summonHorsesToPaddock" ELSE "none"
    BY <1>4, <2>1
  <2>3. brokerPc' = IF announcing THEN "controlCentre.summonHorsesToPaddock"
                                  ELSE "bettingCentre.acceptTheBets"
    BY <1>5, <2>2 DEF BrokerAnnouncesRace, ControlCentreAnswers
  <2>4. Told' = Told
    BY <1>4, <2>1, <2>3 DEF Told, Announced
  <2> QED
    BY <1>1, <1>2, <1>3, <2>1, <2>4, OthersKeepParade DEF horsesParadeVars, spectatorsParadeVars
<1>6. CASE ~BrokerAnnouncesRace
  <2>1. UNCHANGED announcing
    BY <1>6 DEF BrokerNext, BrokerSummonsHorses, BrokerAcceptsBets,
         BrokerStartsRace, BrokerSupervisesRace, BrokerReportsResults, BrokerLooksForWinners,
         BrokerHonoursBets, BrokerSetsRace, BrokerEntertainsGuests, InStable,
         InRacingTrack, InBettingCentre, InNoRegion,
         controlCentre!startTheRace, controlCentre!resumeStartTheRace,
         controlCentre!SuperviseOrWait, controlCentre!reportResults, controlCentre!paddockVars
  <2>2. Announced' = Announced
    <3>1. CASE BrokerSummonsHorses \/ BrokerAcceptsBets \/ BrokerStartsRace
      BY <3>1 DEF BrokerSummonsHorses, BrokerAcceptsBets, BrokerStartsRace, Announced
    <3>2. CASE BrokerSupervisesRace \/ BrokerReportsResults \/ BrokerSetsRace
               \/ BrokerEntertainsGuests
      BY <1>4, <3>2 DEF BrokerSupervisesRace, BrokerReportsResults, BrokerSetsRace,
                  BrokerEntertainsGuests, Announced
    <3>3. CASE BrokerLooksForWinners \/ BrokerHonoursBets
      BY <3>3 DEF BrokerLooksForWinners, BrokerHonoursBets, AfterTheBets, Announced
    <3> QED
      BY <1>6, <3>1, <3>2, <3>3 DEF BrokerNext
  <2>3. Told' = Told
    BY <2>1, <2>2 DEF Told
  <2> QED
    BY <1>1, <1>2, <1>3, <1>4, <2>1, <2>3, OthersKeepParade
       DEF horsesParadeVars, spectatorsParadeVars
<1> QED
  BY <1>5, <1>6

(* A step of h inside the stable, at the paddock or beyond it, that the    *)
(* counts of the parade do not notice.                                     *)
LEMMA HorseStepKeepsParade ==
  ASSUME ParadeInv, BetsInv, StartInv, NEW h \in HorseJockeys, NEW pc,
         horsePc' = [horsePc EXCEPT ![h] = pc],
         pc \in BeforeThePaddock <=> horsePc[h] \in BeforeThePaddock,
         pc \in OnTheTrack \cup OffTheTrack <=> HasLeft(h),
         pc = "paddock.proceedToStartLine" => Told = batch + 1,
         UNCHANGED <<brokerPc, brokerRace, announcing, batch, spectatorsParadeVars,
                     numberOfHorseJockeysOnPaddock, lastHorseJockeyHasNotArrivedOnPaddock,
                     currentNumberOfSpectators, lastSpectatorHasNotArrivedOnPaddock>>,
         lastHorseDidNotProceedToStartLine' \in BOOLEAN,
         paddockCall' \in [HorseJockeys \cup Spectators -> PaddockMethods]
  PROVE  ParadeInv'
<1>1. /\ horsePc'[h] = pc
      /\ \A g \in HorseJockeys \ {h} : horsePc'[g] = horsePc[g]
  BY DEF StartInv, BatchTypes
<1>2. ParadeTypes'
  BY DEF ParadeInv, ParadeTypes, spectatorsParadeVars
<1>3. Told' = Told
  BY DEF Told, Announced
<1>4. OutOfStable' = OutOfStable
  BY <1>1 DEF OutOfStable
<1>5. Paraded' = Paraded
  BY <1>4 DEF Paraded
<1>6. StableIsCounted'
  BY <1>3, <1>4, <1>5 DEF ParadeInv, StableIsCounted
<1>7. (\A s \in Spectators : SpectatorKeepsPace(s)') /\ CountedNow' = CountedNow
  BY <1>3, <1>5, SpectatorsKeepPace, ParadeProgress
<1>8. \A g \in HorseJockeys : HasLeft(g)' <=> HasLeft(g)
  BY <1>1 DEF HasLeft
<1>9. SpectatorsAreCounted'
  BY <1>3, <1>7, <1>8 DEF ParadeInv, SpectatorsAreCounted
<1>10. \A g \in HorseJockeys : LeftTheParade(g)' => LeftTheParade(g) \/ Told = batch + 1
  BY <1>1 DEF LeftTheParade, HasLeft
<1>11. ParadeEnds'
  BY <1>3, <1>10 DEF ParadeInv, ParadeEnds, spectatorsParadeVars
<1> QED
  BY <1>2, <1>6, <1>7, <1>9, <1>11 DEF ParadeInv

(* The last horse of the batch to leave the stable raises the flag of      *)
(* waitForTheNextRace.                                                     *)
LEMMA HorseLeavingStableKeepsParade ==
  ASSUME ParadeInv, BetsInv, StartInv, NEW h \in HorseJockeys, HorseLeavesForPaddock(h)
  PROVE  ParadeInv'
<1> DEFINE isLast == numberOfHorseJockeysOnPaddock + 1 = NUMBER_OF_PAIRS_HORSE_JOCKEY
<1>1. /\ UNCHANGED <<brokerPc, brokerRace, announcing, batch, spectatorsParadeVars,
                     currentNumberOfSpectators, lastHorseDidNotProceedToStartLine,
                     lastSpectatorHasNotArrivedOnPaddock, paddockCall>>
      /\ horsePc[h] = "controlCentre.proceedToPaddock"
      /\ horsePc' = [horsePc EXCEPT ![h] = "paddock.proceedToPaddock"]
      /\ numberOfHorseJockeysOnPaddock' = IF isLast THEN 0 ELSE numberOfHorseJockeysOnPaddock + 1
      /\ lastHorseJockeyHasNotArrivedOnPaddock'
           = (lastHorseJockeyHasNotArrivedOnPaddock /\ ~isLast)
  BY DEF HorseLeavesForPaddock, controlCentre!proceedToPaddock, HorseReturns, brokerVars,
         spectatorVars, InControlCentre, paddockVars, spectatorsParadeVars,
         controlCentre!NUMBER_OF_PAIRS_HORSE_JOCKEY, NUMBER_OF_PAIRS_HORSE_JOCKEY,
         controlCentre!Cardinality, Cardinality
<1>2. /\ horsePc'[h] = "paddock.proceedToPaddock"
      /\ \A g \in HorseJockeys \ {h} : horsePc'[g] = horsePc[g]
  BY <1>1 DEF StartInv, BatchTypes
<1>3. /\ ParadeTypes /\ StableIsCounted
      /\ lastHorseJockeyHasNotArrivedOnPaddock \in BOOLEAN
  BY DEF ParadeInv, ParadeTypes
<1>4. ParadeTypes'
  BY <1>1, <1>3 DEF ParadeTypes, spectatorsParadeVars
<1>5. OutOfStable' = OutOfStable \cup {h} /\ h \notin OutOfStable
  BY <1>1, <1>2 DEF OutOfStable, BeforeThePaddock
<1>6. /\ IsFiniteSet(HorseJockeys) /\ OutOfStable \subseteq HorseJockeys
      /\ IsFiniteSet(OutOfStable) /\ OutOfStable' \subseteq HorseJockeys
  BY <1>5, FS_Subset, ConfigurationAssumption DEF ConfigurationAssumption, OutOfStable
<1>7. /\ Cardinality(OutOfStable') = Cardinality(OutOfStable) + 1
      /\ Cardinality(OutOfStable) \in Nat
  BY <1>5, <1>6, FS_AddElement, FS_CardinalityType
<1>8. OutOfStable' = HorseJockeys
        <=> Cardinality(OutOfStable') = NUMBER_OF_PAIRS_HORSE_JOCKEY
  BY <1>6, FS_Subset DEF NUMBER_OF_PAIRS_HORSE_JOCKEY
<1>9. /\ OutOfStable # HorseJockeys /\ Paraded = batch
      /\ numberOfHorseJockeysOnPaddock = Cardinality(OutOfStable)
  BY <1>3, <1>5 DEF Paraded, StableIsCounted
<1>10. lastHorseJockeyHasNotArrivedOnPaddock /\ Told = batch /\ Told \in Nat
  <2>1. /\ Told \in Nat /\ batch \in Nat /\ Accepted \in Nat /\ Announced \in Nat
        /\ batch <= Accepted /\ Accepted <= Announced /\ Announced <= Told
    BY ParadeProgress, BrokerProgress DEF BetsInv
  <2>2. batch = IF lastHorseJockeyHasNotArrivedOnPaddock THEN Told ELSE Told + 1
    BY <1>3, <1>9 DEF StableIsCounted
  <2> QED
    BY <2>1, <2>2
<1>11. Told' = Told
  BY <1>1 DEF Told, Announced
<1>12. isLast <=> OutOfStable' = HorseJockeys
  BY <1>7, <1>8, <1>9
<1>13. /\ Paraded' = IF isLast THEN batch + 1 ELSE batch
       /\ Paraded' \in Nat /\ Paraded <= Paraded'
  BY <1>1, <1>9, <1>10, <1>12 DEF Paraded
<1>14. StableIsCounted'
  BY <1>1, <1>7, <1>9, <1>10, <1>11, <1>12, <1>13 DEF StableIsCounted
<1>15. (\A s \in Spectators : SpectatorKeepsPace(s)') /\ CountedNow' = CountedNow
  BY <1>1, <1>11, <1>13, SpectatorsKeepPace
<1>16. \A g \in HorseJockeys : (HasLeft(g)' <=> HasLeft(g)) /\ (LeftTheParade(g)' => LeftTheParade(g))
  BY <1>1, <1>2 DEF HasLeft, LeftTheParade, OnTheTrack, OffTheTrack
<1>17. SpectatorsAreCounted'
  BY <1>1, <1>11, <1>15, <1>16 DEF ParadeInv, SpectatorsAreCounted
<1>18. ParadeEnds'
  BY <1>1, <1>11, <1>16 DEF ParadeInv, ParadeEnds, spectatorsParadeVars
<1> QED
  BY <1>4, <1>14, <1>15, <1>17, <1>18 DEF ParadeInv

(* The first horse to leave the paddock forgets the spectators there.      *)
LEMMA HorseLeavingPaddockKeepsParade ==
  ASSUME ParadeInv, BetsInv, StartInv, NEW h \in HorseJockeys, HorseLeavesPaddock(h)
  PROVE  ParadeInv'
<1>1. /\ UNCHANGED <<brokerPc, brokerRace, announcing, batch, spectatorsParadeVars,
                     numberOfHorseJockeysOnPaddock, lastHorseJockeyHasNotArrivedOnPaddock,
                     lastSpectatorHasNotArrivedOnPaddock, paddockCall>>
      /\ horsePc[h] = "paddock.proceedToStartLine"
      /\ horsePc' = [horsePc EXCEPT ![h] = "racingTrack.proceedToStartLine"]
      /\ currentNumberOfSpectators' = 0
      /\ lastHorseDidNotProceedToStartLine' \in BOOLEAN
  BY DEF HorseLeavesPaddock, paddock!proceedToStartLine, HorseReturns, brokerVars,
         spectatorVars, InPaddock, centreVars, spectatorsParadeVars
<1>2. /\ horsePc'[h] = "racingTrack.proceedToStartLine"
      /\ \A g \in HorseJockeys \ {h} : horsePc'[g] = horsePc[g]
  BY <1>1 DEF StartInv, BatchTypes
<1>3. ParadeTypes'
  BY <1>1 DEF ParadeInv, ParadeTypes, spectatorsParadeVars
<1>4. Told = batch + 1 /\ batch \in Nat
  BY <1>1 DEF ParadeInv, ParadeEnds, LeftTheParade, StartInv, BatchTypes
<1>5. Told' = Told
  BY <1>1 DEF Told, Announced
<1>6. OutOfStable' = OutOfStable
  BY <1>1, <1>2 DEF OutOfStable, BeforeThePaddock
<1>7. Paraded' = Paraded
  BY <1>1, <1>6 DEF Paraded
<1>8. StableIsCounted'
  BY <1>1, <1>5, <1>6, <1>7 DEF ParadeInv, StableIsCounted
<1>9. \A s \in Spectators : SpectatorKeepsPace(s)'
  BY <1>1, <1>5, <1>7, SpectatorsKeepPace, ParadeProgress
<1>10. HasLeft(h)'
  BY <1>2 DEF HasLeft, OnTheTrack
<1>11. SpectatorsAreCounted'
  BY <1>1, <1>4, <1>5, <1>10 DEF SpectatorsAreCounted
<1>12. ParadeEnds'
  BY <1>1, <1>4, <1>5 DEF ParadeInv, ParadeEnds, spectatorsParadeVars
<1> QED
  BY <1>3, <1>8, <1>9, <1>11, <1>12 DEF ParadeInv

LEMMA HorseKeepsParade ==
  ASSUME ParadeInv, BetsInv, StartInv, NEW h \in HorseJockeys, HorseNext(h)
  PROVE  ParadeInv'
<1> USE DEF HorseReturns, BeforeThePaddock, OnTheTrack, OffTheTrack
<1>1. UNCHANGED <<brokerPc, brokerRace, batch, spectatorsParadeVars>>
  BY DEF HorseNext, HorseSetsAbility, HorseArrivesAtStable, HorseLeavesForPaddock,
         HorseParades, HorseLeavesPaddock, HorseLinesUp, HorseChecksFinishLine, HorseMoves,
         HorseFinishes, HorseGoesToRest, brokerVars, spectatorVars, spectatorsParadeVars
<1>2. ParadeTypes /\ ParadeEnds
  BY DEF ParadeInv
<1>3. CASE HorseSetsAbility(h) \/ HorseArrivesAtStable(h)
  <2>1. UNCHANGED <<centreVars, paddockVars>>
    BY <1>3 DEF HorseSetsAbility, HorseArrivesAtStable, InBettingCentre, InStable
  <2>2. /\ horsePc[h] \in {"bettingCentre.setAbility", "stable.proceedToStable(int)"}
        /\ \E pc \in {"stable.proceedToStable(int)", "controlCentre.proceedToPaddock"} :
             horsePc' = [horsePc EXCEPT ![h] = pc]
    BY <1>3 DEF HorseSetsAbility, HorseArrivesAtStable
  <2> QED
    BY <1>1, <1>2, <2>1, <2>2, HorseStepKeepsParade DEF centreVars, paddockVars, ParadeTypes,
       HasLeft
<1>4. CASE HorseLeavesForPaddock(h)
  BY <1>4, HorseLeavingStableKeepsParade
<1>5. CASE HorseParades(h)
  <2>1. UNCHANGED centreVars
    BY <1>5 DEF HorseParades, InPaddock
  <2>2. /\ UNCHANGED <<currentNumberOfSpectators, lastSpectatorHasNotArrivedOnPaddock>>
        /\ lastHorseDidNotProceedToStartLine' \in {TRUE, lastHorseDidNotProceedToStartLine}
        /\ paddockCall' = [paddockCall EXCEPT ![h] = IF lastSpectatorHasNotArrivedOnPaddock
                                                     THEN "proceedToPaddock" ELSE "none"]
    BY <1>5 DEF HorseParades, paddock!proceedToPaddock, paddock!resumeProceedToPaddock,
                paddock!ParadeOrWait, paddock!Wait, paddock!NotifyAllAndReturn,
                paddock!WaitWhile, paddock!None, paddock!Parade, paddock!paddockVars
  <2>3. /\ paddockCall'[h] = IF lastSpectatorHasNotArrivedOnPaddock
                             THEN "proceedToPaddock" ELSE "none"
        /\ paddockCall' \in [HorseJockeys \cup Spectators -> PaddockMethods]
        /\ lastHorseDidNotProceedToStartLine' \in BOOLEAN
    BY <1>2, <2>2 DEF ParadeTypes, PaddockMethods
  <2>4. PICK pc \in {"paddock.proceedToPaddock", "paddock.proceedToStartLine"} :
          /\ horsePc' = [horsePc EXCEPT ![h] = pc]
          /\ pc = "paddock.proceedToStartLine" => paddockCall'[h] = "none"
    BY <1>5 DEF HorseParades, PaddockAnswers
  <2>5. pc = "paddock.proceedToStartLine" => Told = batch + 1
    BY <1>2, <2>3, <2>4 DEF ParadeEnds, ParadeTypes
  <2>6. horsePc[h] = "paddock.proceedToPaddock"
    BY <1>5 DEF HorseParades
  <2> QED
    BY <1>1, <2>1, <2>2, <2>3, <2>4, <2>5, <2>6, HorseStepKeepsParade DEF centreVars, HasLeft
<1>6. CASE HorseLeavesPaddock(h)
  BY <1>6, HorseLeavingPaddockKeepsParade
<1>7. CASE HorseLinesUp(h) \/ HorseChecksFinishLine(h) \/ HorseMoves(h) \/ HorseFinishes(h)
           \/ HorseGoesToRest(h)
  <2>1. /\ UNCHANGED paddockVars
        /\ UNCHANGED <<announcing, numberOfHorseJockeysOnPaddock,
                       lastHorseJockeyHasNotArrivedOnPaddock>>
    BY <1>7 DEF HorseLinesUp, HorseChecksFinishLine, HorseMoves, HorseFinishes,
                HorseGoesToRest, InRacingTrack, InControlCentre, InStable, centreVars,
                controlCentre!makeAMove, controlCentre!paddockVars
  <2>2. HasLeft(h) /\ \E pc \in OnTheTrack \cup OffTheTrack : horsePc' = [horsePc EXCEPT ![h] = pc]
    BY <1>7 DEF HorseLinesUp, HorseChecksFinishLine, HorseMoves, HorseFinishes,
                HorseGoesToRest, HasLeft
  <2> QED
    BY <1>1, <1>2, <2>1, <2>2, HorseStepKeepsParade DEF paddockVars, ParadeTypes, HasLeft
<1> QED
  BY <1>3, <1>4, <1>5, <1>6, <1>7 DEF HorseNext

(* A batch dies and the next one is born when the race it was summoned for *)
(* has started, so nobody is left on the paddock.                          *)
LEMMA LauncherKeepsParade ==
  ASSUME ParadeInv, BetsInv, StartInv, LauncherNext
  PROVE  ParadeInv'
<1>1. UNCHANGED <<brokerPc, brokerRace, centreVars, paddockVars, spectatorsParadeVars>>
  BY DEF LauncherNext, LaunchNextBatch, LaunchHorse, InNoRegion, InStable, brokerVars,
         spectatorVars, spectatorsParadeVars
<1> USE DEF centreVars, paddockVars
<1>2. ParadeTypes /\ StableIsCounted /\ SpectatorsAreCounted /\ ParadeEnds
  BY DEF ParadeInv
<1>3. ASSUME NEW h \in HorseJockeys, LaunchHorse(h)
      PROVE  ParadeInv'
  <2>1. /\ horsePc[h] = "unborn" /\ batch' = batch
        /\ horsePc' = [horsePc EXCEPT ![h] = "bettingCentre.setAbility"]
    BY <1>3 DEF LaunchHorse
  <2> QED
    BY <1>1, <1>2, <2>1, HorseStepKeepsParade DEF ParadeTypes, HasLeft, BeforeThePaddock,
       OnTheTrack, OffTheTrack
<1>4. CASE LaunchNextBatch
  <2>1. /\ batch' = batch + 1
        /\ horsePc' = [h \in HorseJockeys |-> "unborn"]
        /\ \A h \in HorseJockeys : horsePc[h] = "deceased"
    BY <1>4 DEF LaunchNextBatch
  <2>2. PICK h \in HorseJockeys : horsePc[h] = "deceased"
    BY <2>1, ConfigurationAssumption DEF ConfigurationAssumption
  <2>3. /\ batch \in Nat /\ Told \in Nat /\ Accepted \in Nat /\ Started \in Nat
        /\ Started <= Accepted
        /\ \A s \in Spectators : /\ spectatorRace[s] \in Nat /\ Passed(s) \in Nat
                                 /\ Counted(s) \in Nat /\ Counted(s) <= Passed(s)
    BY ParadeProgress, BrokerProgress DEF BetsInv
  <2>4. HasLeft(h) /\ LeftTheParade(h) /\ HasStarted(h)
    BY <2>2 DEF HasLeft, LeftTheParade, HasStarted, OffTheTrack
  <2>5. Told = batch + 1 /\ Started > batch /\ Told' = Told
    BY <1>1, <1>2, <2>4 DEF ParadeEnds, StartInv, Told, Announced
  <2>6. currentNumberOfSpectators = 0
    BY <1>2, <2>3, <2>4, <2>5 DEF SpectatorsAreCounted
  <2>7. OutOfStable = HorseJockeys /\ Paraded = batch + 1
    BY <2>1 DEF OutOfStable, BeforeThePaddock, Paraded
  <2>8. OutOfStable' = {} /\ OutOfStable' # HorseJockeys /\ Paraded' = batch + 1
    BY <2>1, ConfigurationAssumption
       DEF OutOfStable, BeforeThePaddock, Paraded, ConfigurationAssumption
  <2>9. StableIsCounted'
    <3>1. lastHorseJockeyHasNotArrivedOnPaddock /\ numberOfHorseJockeysOnPaddock = 0
      BY <1>2, <2>3, <2>5, <2>7 DEF StableIsCounted
    <3> QED
      BY <1>1, <2>5, <2>8, <3>1, FS_EmptySet DEF StableIsCounted
  <2>10. (\A s \in Spectators : SpectatorKeepsPace(s)') /\ CountedNow' = CountedNow
    BY <1>1, <2>3, <2>5, <2>7, <2>8, SpectatorsKeepPace
  <2>11. CountedNow = {}
    BY <2>3, <2>5, <2>7 DEF ParadeInv, SpectatorKeepsPace, CountedNow
  <2>12. SpectatorsAreCounted'
    BY <1>1, <2>1, <2>5, <2>6, <2>10, <2>11, FS_EmptySet DEF SpectatorsAreCounted
  <2>13. lastSpectatorHasNotArrivedOnPaddock
    <3> SUFFICES ASSUME ~lastSpectatorHasNotArrivedOnPaddock PROVE FALSE
      OBVIOUS
    <3>1. PICK s \in Spectators : spectatorPc[s] = "paddock.goCheckHorses(boolean)"
      BY <1>2 DEF ParadeEnds
    <3>2. HasBetFor(s, Accepted - 1)
      BY <2>3, <2>5 DEF BetsInv, SpectatorInOrder, BetsOnceForARace
    <3>3. spectatorRace[s] >= Accepted
      BY <2>3, <3>1, <3>2 DEF HasBetFor
    <3>4. Passed(s) = spectatorRace[s] + 1 /\ Passed(s) <= Paraded
      BY <3>1 DEF Passed, BetweenRaces, ParadeInv, SpectatorKeepsPace
    <3> QED
      BY <2>3, <2>5, <2>7, <3>3, <3>4
  <2>14. ParadeEnds'
    BY <1>1, <2>1, <2>13 DEF ParadeEnds, LeftTheParade, OnTheTrack, OffTheTrack
  <2>15. ParadeTypes'
    BY <1>1, <1>2 DEF ParadeTypes, spectatorsParadeVars
  <2> QED
    BY <2>9, <2>10, <2>12, <2>14, <2>15 DEF ParadeInv
<1> QED
  BY <1>3, <1>4 DEF LauncherNext

(* A step of s that counts it nowhere.                                     *)
LEMMA SpectatorStepKeepsParade ==
  ASSUME ParadeInv, BetsInv, StartInv, NEW s \in Spectators, NEW pc, NEW r,
         spectatorPc' = [spectatorPc EXCEPT ![s] = pc],
         spectatorRace' = [spectatorRace EXCEPT ![s] = r],
         Counted(s)' = Counted(s), Passed(s)' <= Paraded,
         pc # "controlCentre.goCheckHorses",
         pc = "paddock.goCheckHorses(boolean)"
           => spectatorPc[s] = pc /\ r = spectatorRace[s],
         UNCHANGED <<brokerPc, brokerRace, announcing, isLastSpectator, horsesParadeVars,
                     lastHorseJockeyHasNotArrivedOnPaddock, currentNumberOfSpectators,
                     lastHorseDidNotProceedToStartLine>>,
         paddockCall' \in [HorseJockeys \cup Spectators -> PaddockMethods],
         lastSpectatorHasNotArrivedOnPaddock' \in BOOLEAN,
         ~lastSpectatorHasNotArrivedOnPaddock'
           => /\ Told = batch + 1
              /\ \E t \in Spectators : spectatorPc'[t] = "paddock.goCheckHorses(boolean)"
  PROVE  ParadeInv'
<1> USE DEF horsesParadeVars
<1>1. /\ spectatorPc'[s] = pc /\ spectatorRace'[s] = r
      /\ \A t \in Spectators \ {s} : /\ spectatorPc'[t] = spectatorPc[t]
                                     /\ spectatorRace'[t] = spectatorRace[t]
  BY DEF BetsInv, BetTypes
<1>2. ParadeTypes'
  BY DEF ParadeInv, ParadeTypes
<1>3. Told' = Told /\ OutOfStable' = OutOfStable /\ Paraded' = Paraded
  BY DEF Told, Announced, OutOfStable, Paraded
<1>4. StableIsCounted'
  BY <1>3 DEF ParadeInv, StableIsCounted
<1>5. \A t \in Spectators : Counted(t)' = Counted(t)
  BY <1>1 DEF Counted
<1>6. \A t \in Spectators \ {s} : Passed(t)' = Passed(t)
  BY <1>1 DEF Passed
<1>7. CountedNow' = CountedNow
  BY <1>3, <1>5 DEF CountedNow
<1>8. ASSUME NEW t \in Spectators
      PROVE  SpectatorKeepsPace(t)'
  <2>1. Told' <= Counted(t)' /\ Passed(t)' <= Paraded'
    BY <1>3, <1>5, <1>6 DEF ParadeInv, SpectatorKeepsPace
  <2>2. ASSUME spectatorPc'[t] = "controlCentre.goCheckHorses", NEW u \in Spectators
        PROVE  /\ Counted(u)' = Told' + 1
               /\ spectatorPc'[u] = "controlCentre.goCheckHorses" => u = t
    BY <1>1, <1>3, <1>5, <2>2 DEF ParadeInv, SpectatorKeepsPace
  <2>3. spectatorPc'[t] = "paddock.goCheckHorses(boolean)" /\ isLastSpectator'[t]
          => spectatorRace'[t] + 1 <= Told'
    BY <1>1, <1>3 DEF ParadeInv, SpectatorKeepsPace
  <2> QED
    BY <2>1, <2>2, <2>3 DEF SpectatorKeepsPace
<1>9. SpectatorsAreCounted'
  BY <1>3, <1>7 DEF ParadeInv, SpectatorsAreCounted, HasLeft
<1>10. ParadeEnds'
  BY <1>3 DEF ParadeInv, ParadeEnds, LeftTheParade
<1> QED
  BY <1>2, <1>4, <1>8, <1>9, <1>10 DEF ParadeInv

(* A spectator on its way to the paddock: it has been let go for the race  *)
(* of this batch, and the broker does not know yet.                        *)
LEMMA OnTheWayToThePaddock ==
  ASSUME ParadeInv, BetsInv, StartInv, NEW s \in Spectators,
         spectatorPc[s] \in {"paddock.goCheckHorses()", "controlCentre.goCheckHorses"}
  PROVE  /\ Told = batch /\ Told \in Nat /\ spectatorRace[s] = Told /\ Paraded = Told + 1
         /\ lastSpectatorHasNotArrivedOnPaddock
         /\ \A h \in HorseJockeys : ~LeftTheParade(h) /\ ~HasLeft(h)
<1>1. /\ Told \in Nat /\ batch \in Nat /\ Paraded \in Nat /\ Announced \in Nat
      /\ Accepted \in Nat /\ spectatorRace[s] \in Nat
      /\ batch <= Accepted /\ Accepted <= Announced /\ Announced <= Told
      /\ Paraded <= batch + 1
  BY ParadeProgress, BrokerProgress DEF BetsInv
<1>2. Passed(s) = spectatorRace[s] + 1 /\ Passed(s) <= Paraded
  BY DEF Passed, BetweenRaces, ParadeInv, SpectatorKeepsPace
<1>3. Paraded = Told \/ Paraded = Told + 1
  BY DEF ParadeInv, StableIsCounted
<1>4. CASE spectatorPc[s] = "paddock.goCheckHorses()"
  <2>1. Told <= spectatorRace[s]
    BY <1>4 DEF Counted, ParadeInv, SpectatorKeepsPace
  <2> QED
    BY <1>1, <1>2, <1>3, <2>1 DEF ParadeInv, ParadeEnds, ParadeTypes, LeftTheParade, HasLeft
<1>5. CASE spectatorPc[s] = "controlCentre.goCheckHorses"
  <2>1. spectatorRace[s] + 1 = Told + 1
    BY <1>5 DEF Counted, BetweenRaces, ParadeInv, SpectatorKeepsPace
  <2> QED
    BY <1>1, <1>2, <1>3, <2>1 DEF ParadeInv, ParadeEnds, ParadeTypes, LeftTheParade, HasLeft
<1> QED
  BY <1>4, <1>5

LEMMA SpectatorCountKeepsParade ==
  ASSUME ParadeInv, BetsInv, StartInv, NEW s \in Spectators, SpectatorIsCounted(s)
  PROVE  ParadeInv'
<1> DEFINE isLast == currentNumberOfSpectators + 1 = NUMBER_OF_SPECTATORS
           pc == IF isLast THEN "controlCentre.goCheckHorses" ELSE "paddock.goCheckHorses(boolean)"
<1>1. /\ UNCHANGED <<brokerPc, brokerRace, centreVars, horsesParadeVars, spectatorRace,
                     lastHorseDidNotProceedToStartLine, lastSpectatorHasNotArrivedOnPaddock,
                     paddockCall>>
      /\ spectatorPc[s] = "paddock.goCheckHorses()"
      /\ spectatorPc' = [spectatorPc EXCEPT ![s] = pc]
      /\ isLastSpectator' = [isLastSpectator EXCEPT ![s] = isLast]
      /\ currentNumberOfSpectators' = currentNumberOfSpectators + 1
  BY DEF SpectatorIsCounted, paddock!countSpectator, paddock!IsLastSpectator,
         SpectatorReturns, brokerVars, horseVars, InPaddock, horsesParadeVars, centreVars,
         paddock!NUMBER_OF_SPECTATORS, NUMBER_OF_SPECTATORS, paddock!Cardinality, Cardinality
<1> USE DEF centreVars, horsesParadeVars
<1>2. /\ spectatorPc'[s] = pc
      /\ \A t \in Spectators \ {s} : spectatorPc'[t] = spectatorPc[t]
  BY <1>1 DEF BetsInv, BetTypes
<1>3. /\ isLastSpectator'[s] = isLast
      /\ \A t \in Spectators \ {s} : isLastSpectator'[t] = isLastSpectator[t]
      /\ isLastSpectator' \in [Spectators -> BOOLEAN]
  BY <1>1 DEF ParadeInv, ParadeTypes
<1>4. ParadeTypes'
  BY <1>1, <1>3 DEF ParadeInv, ParadeTypes
<1>5. /\ Told = batch /\ Told \in Nat /\ spectatorRace[s] = Told /\ Paraded = Told + 1
      /\ lastSpectatorHasNotArrivedOnPaddock
      /\ \A h \in HorseJockeys : ~LeftTheParade(h) /\ ~HasLeft(h)
  BY <1>1, OnTheWayToThePaddock
<1>6. Told' = Told /\ OutOfStable' = OutOfStable /\ Paraded' = Paraded
  BY <1>1 DEF Told, Announced, OutOfStable, Paraded
<1>7. StableIsCounted'
  BY <1>1, <1>6 DEF ParadeInv, StableIsCounted
<1>8. /\ Counted(s) = Told /\ Counted(s)' = Told + 1 /\ Passed(s)' = Told + 1
      /\ \A t \in Spectators \ {s} : Counted(t)' = Counted(t) /\ Passed(t)' = Passed(t)
  BY <1>1, <1>2, <1>5 DEF Counted, Passed, BetweenRaces
<1>9. CountedNow' = CountedNow \cup {s} /\ s \notin CountedNow
  BY <1>5, <1>6, <1>8 DEF CountedNow
<1>10. /\ IsFiniteSet(Spectators) /\ IsFiniteSet(CountedNow) /\ CountedNow' \subseteq Spectators
  BY <1>9, FS_Subset, ConfigurationAssumption DEF ConfigurationAssumption, CountedNow
<1>11. Cardinality(CountedNow') = Cardinality(CountedNow) + 1
  BY <1>9, <1>10, FS_AddElement
<1>12. currentNumberOfSpectators = Cardinality(CountedNow)
  BY <1>5 DEF ParadeInv, SpectatorsAreCounted
<1>13. SpectatorsAreCounted'
  BY <1>1, <1>5, <1>6, <1>11, <1>12 DEF SpectatorsAreCounted
<1>14. isLast => CountedNow' = Spectators
  BY <1>10, <1>11, <1>12, FS_Subset DEF NUMBER_OF_SPECTATORS
<1>15. \A t \in Spectators : spectatorPc[t] # "controlCentre.goCheckHorses"
  BY <1>5, <1>8 DEF ParadeInv, SpectatorKeepsPace
<1>16. ASSUME NEW t \in Spectators
       PROVE  SpectatorKeepsPace(t)'
  <2>1. Told' <= Counted(t)' /\ Passed(t)' <= Paraded'
    BY <1>5, <1>6, <1>8 DEF ParadeInv, SpectatorKeepsPace
  <2>2. ASSUME spectatorPc'[t] = "controlCentre.goCheckHorses", NEW u \in Spectators
        PROVE  /\ Counted(u)' = Told' + 1
               /\ spectatorPc'[u] = "controlCentre.goCheckHorses" => u = t
    <3>1. t = s /\ isLast
      BY <1>2, <1>15, <2>2
    <3>2. Counted(u)' = Told' + 1
      BY <1>14, <3>1 DEF CountedNow
    <3> QED
      BY <1>2, <1>15, <3>1, <3>2
  <2>3. spectatorPc'[t] = "paddock.goCheckHorses(boolean)" /\ isLastSpectator'[t]
          => spectatorRace'[t] + 1 <= Told'
    <3>1. CASE t = s
      BY <1>2, <1>3, <3>1
    <3>2. CASE t # s
      <4>1. /\ spectatorPc'[t] = spectatorPc[t] /\ isLastSpectator'[t] = isLastSpectator[t]
            /\ spectatorRace' = spectatorRace
        BY <1>1, <1>2, <1>3, <3>2
      <4> QED
        BY <1>6, <4>1 DEF ParadeInv, SpectatorKeepsPace
    <3> QED
      BY <3>1, <3>2
  <2> QED
    BY <2>1, <2>2, <2>3 DEF SpectatorKeepsPace
<1>17. ParadeEnds'
  BY <1>1, <1>5 DEF ParadeEnds, LeftTheParade
<1> QED
  BY <1>4, <1>7, <1>13, <1>16, <1>17 DEF ParadeInv

(* The broker learns of the spectators of a race before it announces the   *)
(* next one.                                                               *)
LEMMA LastSpectatorKeepsParade ==
  ASSUME ParadeInv, BetsInv, StartInv, NEW s \in Spectators, LastSpectatorTellsBroker(s)
  PROVE  ParadeInv'
<1>1. /\ UNCHANGED <<brokerPc, brokerRace, paddockVars, horsesParadeVars, spectatorRace,
                     isLastSpectator>>
      /\ spectatorPc[s] = "controlCentre.goCheckHorses"
      /\ spectatorPc' = [spectatorPc EXCEPT ![s] = "paddock.goCheckHorses(boolean)"]
      /\ announcing' = FALSE /\ lastHorseJockeyHasNotArrivedOnPaddock' = TRUE
  BY DEF LastSpectatorTellsBroker, controlCentre!goCheckHorses, SpectatorReturns, brokerVars,
         horseVars, InControlCentre, horsesParadeVars
<1> USE DEF paddockVars, horsesParadeVars
<1>2. /\ spectatorPc'[s] = "paddock.goCheckHorses(boolean)"
      /\ \A t \in Spectators \ {s} : spectatorPc'[t] = spectatorPc[t]
  BY <1>1 DEF BetsInv, BetTypes
<1>3. ParadeTypes'
  BY <1>1 DEF ParadeInv, ParadeTypes
<1>4. /\ Told = batch /\ Told \in Nat /\ spectatorRace[s] = Told /\ Paraded = Told + 1
      /\ lastSpectatorHasNotArrivedOnPaddock
      /\ \A h \in HorseJockeys : ~LeftTheParade(h) /\ ~HasLeft(h)
  BY <1>1, OnTheWayToThePaddock
<1>5. Announced' = Announced /\ OutOfStable' = OutOfStable /\ Paraded' = Paraded
  BY <1>1 DEF Announced, OutOfStable, Paraded
<1>6. announcing
  <2>1. /\ Announced \in Nat /\ Accepted \in Nat /\ Decided \in Nat
        /\ Decided <= Accepted /\ Accepted <= Announced
    BY ParadeProgress, BrokerProgress DEF BetsInv
  <2>2. spectatorRace[s] <= Decided
    BY DEF BetsInv, SpectatorInOrder, FollowsTheBroker
  <2> QED
    BY <1>4, <2>1, <2>2 DEF Told, ParadeInv, ParadeTypes
<1>7. Told' = Told + 1
  BY <1>1, <1>5, <1>6 DEF Told
<1>8. StableIsCounted'
  BY <1>1, <1>4, <1>5, <1>7 DEF ParadeInv, StableIsCounted
<1>9. \A t \in Spectators :
        /\ Counted(t) = Told + 1
        /\ spectatorPc[t] = "controlCentre.goCheckHorses" => t = s
  BY <1>1 DEF ParadeInv, SpectatorKeepsPace
<1>10. \A t \in Spectators : Counted(t)' = Told + 1 /\ Passed(t)' = Passed(t)
  BY <1>1, <1>2, <1>9 DEF Counted, Passed, BetweenRaces
<1>11. CountedNow = Spectators
  BY <1>9 DEF CountedNow
<1>12. currentNumberOfSpectators = NUMBER_OF_SPECTATORS
  BY <1>4, <1>11 DEF ParadeInv, SpectatorsAreCounted, NUMBER_OF_SPECTATORS
<1>13. SpectatorsAreCounted'
  BY <1>1, <1>4, <1>7, <1>12 DEF SpectatorsAreCounted, HasLeft
<1>14. ASSUME NEW t \in Spectators
       PROVE  SpectatorKeepsPace(t)'
  <2>1. Told' <= Counted(t)' /\ Passed(t)' <= Paraded'
    BY <1>4, <1>5, <1>7, <1>10 DEF ParadeInv, SpectatorKeepsPace
  <2>2. spectatorPc'[t] # "controlCentre.goCheckHorses"
    BY <1>2, <1>9
  <2>3. spectatorPc'[t] = "paddock.goCheckHorses(boolean)" => spectatorRace'[t] + 1 <= Told'
    <3>1. ASSUME spectatorPc'[t] = "paddock.goCheckHorses(boolean)"
          PROVE  Counted(t) = spectatorRace[t] + 1
      BY <1>1, <1>2, <3>1 DEF Counted, BetweenRaces
    <3>2. Counted(t) = Told + 1 /\ spectatorRace[t] \in Nat
      BY <1>9 DEF BetsInv, BetTypes
    <3> QED
      BY <1>1, <1>4, <1>7, <3>1, <3>2
  <2> QED
    BY <2>1, <2>2, <2>3 DEF SpectatorKeepsPace
<1>15. ParadeEnds'
  BY <1>1, <1>4 DEF ParadeEnds, LeftTheParade
<1> QED
  BY <1>3, <1>8, <1>13, <1>14, <1>15 DEF ParadeInv

(* Nobody is let go for a race whose horses are not out of the stable.     *)
LEMMA SpectatorLetGoKeepsParade ==
  ASSUME ParadeInv, BetsInv, StartInv, NEW s \in Spectators, SpectatorWaitsForRace(s)
  PROVE  ParadeInv'
<1>1. /\ UNCHANGED <<brokerPc, brokerRace, announcing, isLastSpectator, horsesParadeVars,
                     spectatorRace, lastHorseJockeyHasNotArrivedOnPaddock, paddockVars>>
      /\ spectatorPc[s] = "controlCentre.waitForTheNextRace"
      /\ centreCall' = [centreCall EXCEPT ![s] = IF lastHorseJockeyHasNotArrivedOnPaddock
                                                 THEN "waitForTheNextRace" ELSE "none"]
  BY DEF SpectatorWaitsForRace, controlCentre!waitForTheNextRace, controlCentre!paddockVars,
         controlCentre!resumeWaitForTheNextRace, controlCentre!WaitWhile, controlCentre!None,
         controlCentre!AwaitRace, SpectatorReturns, brokerVars, horseVars, InControlCentre,
         horsesParadeVars
<1>2. PICK pc \in {"controlCentre.waitForTheNextRace", "paddock.goCheckHorses()"} :
        /\ spectatorPc' = [spectatorPc EXCEPT ![s] = pc]
        /\ pc = "paddock.goCheckHorses()" => centreCall'[s] = "none"
  BY DEF SpectatorWaitsForRace, SpectatorReturns, ControlCentreAnswers
<1>3. centreCall \in [Spectators \cup {Broker} -> CentreMethods] /\ spectatorPc'[s] = pc
  BY <1>2 DEF BetsInv, BetTypes
<1>4. pc = "paddock.goCheckHorses()" => ~lastHorseJockeyHasNotArrivedOnPaddock
  BY <1>1, <1>2, <1>3
<1>5. /\ Told \in Nat /\ Announced \in Nat /\ Accepted \in Nat /\ Decided \in Nat
      /\ Paraded \in Nat /\ spectatorRace[s] \in Nat
      /\ Decided <= Accepted /\ Accepted <= Announced /\ Announced <= Told
  BY ParadeProgress, BrokerProgress DEF BetsInv
<1>6. spectatorRace[s] <= Told
  BY <1>5 DEF BetsInv, SpectatorInOrder, FollowsTheBroker
<1>7. Passed(s) = spectatorRace[s] /\ Passed(s) <= Paraded
  BY <1>1 DEF Passed, BetweenRaces, ParadeInv, SpectatorKeepsPace
<1>8. Passed(s)' <= Paraded
  <2>1. CASE pc = "controlCentre.waitForTheNextRace"
    BY <1>1, <1>3, <1>7, <2>1 DEF Passed, BetweenRaces
  <2>2. CASE pc = "paddock.goCheckHorses()"
    <3>1. Paraded = Told + 1
      BY <1>4, <2>2 DEF ParadeInv, StableIsCounted
    <3>2. Passed(s)' = spectatorRace[s] + 1
      BY <1>1, <1>3, <2>2 DEF Passed, BetweenRaces
    <3> QED
      BY <1>5, <1>6, <3>1, <3>2
  <2> QED
    BY <1>2, <2>1, <2>2
<1>9. Counted(s)' = Counted(s)
  BY <1>1, <1>2, <1>3 DEF Counted, BetweenRaces
<1>10. spectatorRace' = [spectatorRace EXCEPT ![s] = spectatorRace[s]]
  BY <1>1 DEF BetsInv, BetTypes
<1>11. ~lastSpectatorHasNotArrivedOnPaddock
         => /\ Told = batch + 1
            /\ \E t \in Spectators : spectatorPc'[t] = "paddock.goCheckHorses(boolean)"
  BY <1>1, <1>2 DEF ParadeInv, ParadeEnds, BetsInv, BetTypes
<1>12. ParadeTypes
  BY DEF ParadeInv
<1> QED
  BY <1>1, <1>2, <1>8, <1>9, <1>10, <1>11, <1>12, SpectatorStepKeepsParade
     DEF paddockVars, ParadeTypes

(* The last spectator clears the horses' flag for this batch; the first to *)
(* go and bet sets it again.                                               *)
LEMMA SpectatorAppraisalKeepsParade ==
  ASSUME ParadeInv, BetsInv, StartInv, NEW s \in Spectators, SpectatorAppraisesHorses(s)
  PROVE  ParadeInv'
<1>1. /\ UNCHANGED <<brokerPc, brokerRace, isLastSpectator, horsesParadeVars, spectatorRace,
                     centreVars, currentNumberOfSpectators, lastHorseDidNotProceedToStartLine>>
      /\ spectatorPc[s] = "paddock.goCheckHorses(boolean)"
      /\ paddockCall' = [paddockCall EXCEPT ![s] = IF lastHorseDidNotProceedToStartLine
                                                   THEN "goCheckHorses(boolean)" ELSE "none"]
      /\ lastSpectatorHasNotArrivedOnPaddock' \in
           {IF lastHorseDidNotProceedToStartLine
            THEN lastSpectatorHasNotArrivedOnPaddock /\ ~isLastSpectator[s] ELSE TRUE,
            lastSpectatorHasNotArrivedOnPaddock \/ ~lastHorseDidNotProceedToStartLine}
  BY DEF SpectatorAppraisesHorses, paddock!goCheckHorses, paddock!resumeGoCheckHorses,
         paddock!WaitWhile, paddock!None, paddock!Appraise, SpectatorReturns, brokerVars,
         horseVars, InPaddock, centreVars, horsesParadeVars
<1>2. PICK pc \in {"paddock.goCheckHorses(boolean)", "bettingCentre.placeABet"} :
        /\ spectatorPc' = [spectatorPc EXCEPT ![s] = pc]
        /\ pc = IF PaddockAnswers(s) THEN "bettingCentre.placeABet"
                                     ELSE "paddock.goCheckHorses(boolean)"
  BY DEF SpectatorAppraisesHorses, SpectatorReturns
<1>3. ParadeTypes
  BY DEF ParadeInv
<1>4. /\ paddockCall' \in [HorseJockeys \cup Spectators -> PaddockMethods]
      /\ lastSpectatorHasNotArrivedOnPaddock' \in BOOLEAN
      /\ paddockCall'[s] = IF lastHorseDidNotProceedToStartLine
                           THEN "goCheckHorses(boolean)" ELSE "none"
  BY <1>1, <1>3 DEF ParadeTypes, PaddockMethods
<1>5. pc = "bettingCentre.placeABet" <=> ~lastHorseDidNotProceedToStartLine
  BY <1>2, <1>4 DEF PaddockAnswers
<1>6. spectatorPc'[s] = pc /\ spectatorRace[s] \in Nat
  BY <1>2 DEF BetsInv, BetTypes
<1>7. Counted(s)' = Counted(s) /\ Passed(s)' = Passed(s)
  BY <1>1, <1>2, <1>6 DEF Counted, Passed, BetweenRaces
<1>8. Passed(s)' <= Paraded
  BY <1>7 DEF ParadeInv, SpectatorKeepsPace
<1>9. spectatorRace' = [spectatorRace EXCEPT ![s] = spectatorRace[s]]
  BY <1>1 DEF BetsInv, BetTypes
<1>10. ASSUME ~lastSpectatorHasNotArrivedOnPaddock'
       PROVE  /\ Told = batch + 1
              /\ spectatorPc'[s] = "paddock.goCheckHorses(boolean)"
  <2>1. lastHorseDidNotProceedToStartLine
    BY <1>1, <1>3, <1>10 DEF ParadeTypes
  <2>2. ~lastSpectatorHasNotArrivedOnPaddock \/ isLastSpectator[s]
    BY <1>1, <1>3, <1>10, <2>1 DEF ParadeTypes
  <2>3. CASE isLastSpectator[s]
    <3>1. /\ batch \in Nat /\ Told \in Nat /\ Accepted \in Nat /\ Passed(s) \in Nat
          /\ Counted(s) \in Nat /\ Paraded \in Nat
          /\ batch <= Accepted /\ Paraded <= batch + 1 /\ Counted(s) <= Passed(s)
      BY ParadeProgress, BrokerProgress DEF BetsInv
    <3>2. Accepted > 0 => HasBetFor(s, Accepted - 1)
      BY DEF BetsInv, SpectatorInOrder, BetsOnceForARace
    <3>3. spectatorRace[s] >= Accepted
      BY <1>1, <1>6, <3>1, <3>2 DEF HasBetFor
    <3>4. spectatorRace[s] + 1 <= Told /\ Told <= Counted(s) /\ Passed(s) <= Paraded
      BY <1>1, <2>3 DEF ParadeInv, SpectatorKeepsPace
    <3>5. Told = batch + 1
      BY <1>6, <3>1, <3>3, <3>4
    <3> QED
      BY <1>2, <1>5, <1>6, <2>1, <3>5
  <2>4. CASE ~lastSpectatorHasNotArrivedOnPaddock
    BY <1>2, <1>5, <1>6, <2>1, <2>4 DEF ParadeInv, ParadeEnds
  <2> QED
    BY <2>2, <2>3, <2>4
<1> QED
  BY <1>1, <1>2, <1>4, <1>7, <1>8, <1>9, <1>10, SpectatorStepKeepsParade DEF centreVars

(* The rest of its race: bet, watch, collect, and on to the next race.     *)
LEMMA SpectatorKeepsParade ==
  ASSUME ParadeInv, BetsInv, StartInv, NEW s \in Spectators, SpectatorNext(s)
  PROVE  ParadeInv'
<1>1. CASE SpectatorWaitsForRace(s)
  BY <1>1, SpectatorLetGoKeepsParade
<1>2. CASE SpectatorIsCounted(s)
  BY <1>2, SpectatorCountKeepsParade
<1>3. CASE LastSpectatorTellsBroker(s)
  BY <1>3, LastSpectatorKeepsParade
<1>4. CASE SpectatorAppraisesHorses(s)
  BY <1>4, SpectatorAppraisalKeepsParade
<1>5. CASE \/ SpectatorPlacesBet(s) \/ SpectatorWatchesRace(s) \/ SpectatorAsksResult(s)
           \/ SpectatorCollectsGains(s) \/ SpectatorRelaxes(s)
  <2>1. UNCHANGED <<paddockVars, brokerPc, brokerRace, isLastSpectator, horsePc, batch>>
    BY <1>5, SpectatorsKeepStart DEF SpectatorPlacesBet, SpectatorWatchesRace,
       SpectatorAsksResult, SpectatorCollectsGains, SpectatorRelaxes, InBettingCentre,
       InControlCentre, InNoRegion, InStable, SpectatorReturns, brokerVars, horseVars,
       centreVars
  <2>2. UNCHANGED <<announcing, numberOfHorseJockeysOnPaddock,
                    lastHorseJockeyHasNotArrivedOnPaddock>>
    BY <1>5 DEF SpectatorPlacesBet, SpectatorWatchesRace,
       SpectatorAsksResult, SpectatorCollectsGains, SpectatorRelaxes, InBettingCentre,
       InControlCentre, InNoRegion, InStable, centreVars, controlCentre!goWatchTheRace,
       controlCentre!resumeGoWatchTheRace, controlCentre!paddockVars
  <2>3. PICK pc \in SpectatorPcs, r \in Nat :
          /\ spectatorPc' = [spectatorPc EXCEPT ![s] = pc]
          /\ spectatorRace' = [spectatorRace EXCEPT ![s] = r]
          /\ pc \notin {"controlCentre.goCheckHorses", "paddock.goCheckHorses(boolean)",
                        "paddock.goCheckHorses()"}
          /\ (IF pc \in BetweenRaces THEN r ELSE r + 1) = Counted(s)
          /\ Counted(s) = Passed(s)
          /\ spectatorPc[s] # "paddock.goCheckHorses(boolean)"
    <3>1. /\ spectatorRace[s] \in Nat
          /\ spectatorRace = [spectatorRace EXCEPT ![s] = spectatorRace[s]]
      BY DEF BetsInv, BetTypes
    <3>2. CASE SpectatorPlacesBet(s) \/ SpectatorWatchesRace(s) \/ SpectatorRelaxes(s)
      <4>1. spectatorPc[s] \in {"bettingCentre.placeABet", "controlCentre.goWatchTheRace",
                                "controlCentre.relaxABit"}
        BY <3>2 DEF SpectatorPlacesBet, SpectatorWatchesRace, SpectatorRelaxes, SpectatorReturns
      <4>2. PICK pc \in {"bettingCentre.placeABet", "controlCentre.goWatchTheRace",
                         "bettingCentre.haveIWon", "celebrating"} :
              /\ spectatorPc' = [spectatorPc EXCEPT ![s] = pc]
              /\ pc = "celebrating" <=> spectatorPc[s] = "controlCentre.relaxABit"
        BY <3>2 DEF SpectatorPlacesBet, SpectatorWatchesRace, SpectatorRelaxes, SpectatorReturns
      <4>3. UNCHANGED spectatorRace
        BY <3>2 DEF SpectatorPlacesBet, SpectatorWatchesRace, SpectatorRelaxes
      <4> QED
        BY <3>1, <4>1, <4>2, <4>3 DEF Counted, Passed, BetweenRaces, SpectatorPcs
    <3>3. CASE SpectatorAsksResult(s) \/ SpectatorCollectsGains(s)
      <4>1. spectatorPc[s] \in {"bettingCentre.haveIWon", "bettingCentre.goCollectTheGains"}
        BY <3>3 DEF SpectatorAsksResult, SpectatorCollectsGains, SpectatorReturns
      <4>2. Counted(s) = spectatorRace[s] + 1 /\ Passed(s) = spectatorRace[s] + 1
        BY <4>1 DEF Counted, Passed, BetweenRaces
      <4>3. CASE /\ UNCHANGED spectatorRace
                 /\ \E pc \in {"bettingCentre.haveIWon", "bettingCentre.goCollectTheGains"} :
                      spectatorPc' = [spectatorPc EXCEPT ![s] = pc]
        BY <3>1, <4>1, <4>2, <4>3 DEF BetweenRaces, SpectatorPcs
      <4>4. CASE /\ spectatorRace' = [spectatorRace EXCEPT ![s] = @ + 1]
                 /\ \E pc \in {"controlCentre.relaxABit", "controlCentre.waitForTheNextRace"} :
                      spectatorPc' = [spectatorPc EXCEPT ![s] = pc]
        <5>1. PICK pc \in {"controlCentre.relaxABit", "controlCentre.waitForTheNextRace"} :
                spectatorPc' = [spectatorPc EXCEPT ![s] = pc]
          BY <4>4
        <5>2. /\ spectatorRace' = [spectatorRace EXCEPT ![s] = spectatorRace[s] + 1]
              /\ spectatorRace[s] + 1 \in Nat
          BY <3>1, <4>4
        <5>3. pc \in SpectatorPcs /\ pc \in BetweenRaces
          BY DEF BetweenRaces, SpectatorPcs
        <5> QED
          BY <4>1, <4>2, <5>1, <5>2, <5>3
      <4>5. CASE SpectatorAsksResult(s)
        <5>1. CASE BettingCentreAnswers(s) /\ ~HasWon(s)
          BY <4>4, <4>5, <5>1 DEF SpectatorAsksResult, SpectatorReturns, GoToNextRace, AfterTheRace
        <5>2. CASE ~BettingCentreAnswers(s)
          BY <4>3, <4>5, <5>2 DEF SpectatorAsksResult, SpectatorReturns, GoToNextRace
        <5>3. CASE BettingCentreAnswers(s) /\ HasWon(s)
          BY <4>3, <4>5, <5>3 DEF SpectatorAsksResult, SpectatorReturns, GoToNextRace
        <5> QED
          BY <5>1, <5>2, <5>3
      <4>6. CASE SpectatorCollectsGains(s)
        <5>1. CASE BettingCentreAnswers(s)
          BY <4>4, <4>6, <5>1 DEF SpectatorCollectsGains, SpectatorReturns, GoToNextRace,
                                  AfterTheRace
        <5>2. CASE ~BettingCentreAnswers(s)
          BY <4>3, <4>6, <5>2 DEF SpectatorCollectsGains, SpectatorReturns, GoToNextRace
        <5> QED
          BY <5>1, <5>2
      <4> QED
        BY <3>3, <4>5, <4>6
    <3> QED
      BY <1>5, <3>2, <3>3
  <2>4. /\ spectatorPc'[s] = pc /\ spectatorRace'[s] = r
        /\ \A t \in Spectators \ {s} : spectatorPc'[t] = spectatorPc[t]
    BY <2>3 DEF BetsInv, BetTypes
  <2>5. Counted(s)' = Counted(s) /\ Passed(s)' = Passed(s)
    BY <2>3, <2>4 DEF Counted, Passed, BetweenRaces
  <2>6. Passed(s)' <= Paraded
    BY <2>5 DEF ParadeInv, SpectatorKeepsPace
  <2>7. ~lastSpectatorHasNotArrivedOnPaddock
          => /\ Told = batch + 1
             /\ \E t \in Spectators : spectatorPc'[t] = "paddock.goCheckHorses(boolean)"
    BY <2>3, <2>4 DEF ParadeInv, ParadeEnds
  <2>8. ParadeTypes
    BY DEF ParadeInv
  <2> QED
    BY <2>1, <2>2, <2>3, <2>5, <2>6, <2>7, <2>8, SpectatorStepKeepsParade
       DEF paddockVars, horsesParadeVars, ParadeTypes
<1> QED
  BY <1>1, <1>2, <1>3, <1>4, <1>5 DEF SpectatorNext

LEMMA ParadeNext == ParadeInv /\ BetsInv /\ StartInv /\ [Next]_vars => ParadeInv'
<1> SUFFICES ASSUME ParadeInv, BetsInv, StartInv, [Next]_vars PROVE ParadeInv'
  OBVIOUS
<1>1. CASE BrokerNext
  BY <1>1, BrokerKeepsParade
<1>2. CASE \E s \in Spectators : SpectatorNext(s)
  BY <1>2, SpectatorKeepsParade
<1>3. CASE \E h \in HorseJockeys : HorseNext(h)
  BY <1>3, HorseKeepsParade
<1>4. CASE LauncherNext
  BY <1>4, LauncherKeepsParade
<1>5. CASE UNCHANGED vars
  <2>1. Told' = Told
    BY <1>5 DEF vars, brokerVars, centreVars, Told, Announced
  <2>2. announcing' \in BOOLEAN
    BY <1>5 DEF vars, centreVars, ParadeInv, ParadeTypes
  <2> QED
    BY <1>5, <2>1, <2>2, OthersKeepParade DEF vars, spectatorVars, horseVars, centreVars,
       paddockVars, horsesParadeVars, spectatorsParadeVars
<1> QED
  BY <1>1, <1>2, <1>3, <1>4, <1>5 DEF Next

LEMMA ParadeIsInOrder == Spec => []ParadeInv
  BY ParadeInit, ParadeNext, BetsAreInOrder, StartsAreInOrder, PTL DEF Spec

(* The broker accepts the bets with all the horses of its race out of the  *)
(* stable: their spectators, who have come, waited for them.               *)
LEMMA HorsesComeBeforeTheBets ==
  ASSUME ParadeInv, BetsInv, StartInv, brokerPc = "bettingCentre.acceptTheBets"
  PROVE  batch = brokerRace /\ OutOfStable = HorseJockeys
<1>1. /\ batch \in Nat /\ Told \in Nat /\ Paraded \in Nat /\ brokerRace \in Nat
      /\ Announced <= Told /\ Paraded <= batch + 1
  BY ParadeProgress DEF BetsInv, BetTypes
<1>2. Announced = brokerRace + 1
  BY DEF Announced
<1>3. batch <= brokerRace
  BY DEF StartInv, Started, BeforeAcceptance
<1>4. Told <= Paraded
  BY <1>1 DEF ParadeInv, StableIsCounted
<1>5. batch = brokerRace /\ Paraded = batch + 1
  BY <1>1, <1>2, <1>3, <1>4
<1> QED
  BY <1>1, <1>5 DEF Paraded

-----------------------------------------------------------------------------
(* The abilities and the odds.                                             *)

AbilityInv ==
  /\ horsesAbilities \in [HorseJockeys -> Abilities \cup {0}]
  /\ \A h \in HorseJockeys :
       horsePc[h] \notin {"unborn", "bettingCentre.setAbility"}
         => horsesAbilities[h] = horseAbility[h]
  /\ bettingCall[Broker] # "failed"

LEMMA AbilityInit == Init => AbilityInv
  BY DistinctClients DEF Init, bettingCentre!Init, bettingCentre!Threads, bettingCentre!None,
     AbilityInv

(* All the horses of the race have told their abilities.                   *)
LEMMA AbilitiesAreThoseOfTheRunners ==
  ASSUME AbilityInv, ParadeInv, BetsInv, StartInv, brokerPc = "bettingCentre.acceptTheBets"
  PROVE  /\ batch = brokerRace
         /\ horsesAbilities = horseAbility
         /\ \A h \in HorseJockeys : horsesAbilities[h] \in Nat \ {0}
<1>1. batch = brokerRace /\ OutOfStable = HorseJockeys
  BY HorsesComeBeforeTheBets
<1>2. \A h \in HorseJockeys : horsesAbilities[h] = horseAbility[h]
  BY <1>1 DEF AbilityInv, OutOfStable, BeforeThePaddock
<1>3. /\ horseAbility \in [HorseJockeys -> Abilities]
      /\ horsesAbilities \in [HorseJockeys -> Abilities \cup {0}]
  BY DEF StartInv, BatchTypes, AbilityInv
<1>4. horsesAbilities = horseAbility
  BY <1>2, <1>3
<1> QED
  BY <1>1, <1>3, <1>4, HippodromeAssumption DEF HippodromeAssumption

LEMMA OthersKeepAbilities ==
  ASSUME AbilityInv, UNCHANGED <<horsesAbilities, horsePc, horseAbility>>,
         bettingCall'[Broker] # "failed"
  PROVE  AbilityInv'
BY DEF AbilityInv

LEMMA BrokerKeepsAbilities ==
  ASSUME AbilityInv, ParadeInv, BetsInv, StartInv, BrokerNext
  PROVE  AbilityInv'
<1> USE DEF BrokerReturns, horseVars
<1>1. UNCHANGED <<horsePc, horseAbility>>
  BY DEF BrokerNext, BrokerSummonsHorses, BrokerAnnouncesRace, BrokerAcceptsBets,
         BrokerStartsRace, BrokerSupervisesRace, BrokerReportsResults, BrokerLooksForWinners,
         BrokerHonoursBets, BrokerSetsRace, BrokerEntertainsGuests
<1>2. UNCHANGED horsesAbilities
  BY DEF BrokerNext, BrokerSummonsHorses, BrokerAnnouncesRace, BrokerAcceptsBets,
         BrokerStartsRace, BrokerSupervisesRace, BrokerReportsResults, BrokerLooksForWinners,
         BrokerHonoursBets, BrokerSetsRace, BrokerEntertainsGuests, InStable, InControlCentre,
         InRacingTrack, InNoRegion, bettingVars, bettingCentre!acceptTheBets,
         bettingCentre!acceptTheBetsFails, bettingCentre!resumeAcceptTheBets,
         bettingCentre!areThereAnyWinners, bettingCentre!honourTheBets,
         bettingCentre!resumeHonourTheBets, bettingCentre!HonourOrWait, bettingCentre!oddsVars
<1>3. bettingCall \in [Spectators \cup {Broker} -> BettingMethods]
      /\ bettingCall[Broker] # "failed"
  BY DEF BetsInv, BetTypes, AbilityInv
<1>4. CASE BrokerAcceptsBets
  <2>1. brokerPc = "bettingCentre.acceptTheBets"
    BY <1>4 DEF BrokerAcceptsBets
  <2>2. bettingCentre!AbilitiesKnown
    BY <2>1, AbilitiesAreThoseOfTheRunners
     DEF bettingCentre!AbilitiesKnown, bettingCentre!WithAbility
  <2>3. \E m \in {"none", "acceptTheBets"} : bettingCall' = [bettingCall EXCEPT ![Broker] = m]
    BY <1>4, <2>2 DEF BrokerAcceptsBets, bettingCentre!acceptTheBets,
       bettingCentre!acceptTheBetsFails, bettingCentre!resumeAcceptTheBets,
       bettingCentre!AcceptOrWait, bettingCentre!Wait, bettingCentre!NotifyAllAndReturn,
       bettingCentre!WaitWhile, bettingCentre!None, bettingCentre!Accept
  <2> QED
    BY <1>1, <1>2, <1>3, <2>3, OthersKeepAbilities
<1>5. CASE BrokerLooksForWinners \/ BrokerHonoursBets
  <2>1. \E m \in {"none", "honourTheBets"} : bettingCall' = [bettingCall EXCEPT ![Broker] = m]
    BY <1>5 DEF BrokerLooksForWinners, BrokerHonoursBets, bettingCentre!areThereAnyWinners,
       bettingCentre!honourTheBets, bettingCentre!resumeHonourTheBets,
       bettingCentre!HonourOrWait, bettingCentre!Wait, bettingCentre!NotifyAllAndReturn,
       bettingCentre!WaitWhile, bettingCentre!None, bettingCentre!Honour
  <2> QED
    BY <1>1, <1>2, <1>3, <2>1, OthersKeepAbilities
<1>6. CASE ~BrokerAcceptsBets /\ ~BrokerLooksForWinners /\ ~BrokerHonoursBets
  <2>1. UNCHANGED bettingCall
    BY <1>6 DEF BrokerNext, BrokerSummonsHorses, BrokerAnnouncesRace,
         BrokerStartsRace, BrokerSupervisesRace, BrokerReportsResults,
         BrokerSetsRace, BrokerEntertainsGuests, InStable, InControlCentre,
         InRacingTrack, InNoRegion, bettingVars
  <2> QED
    BY <1>1, <1>2, <1>3, <2>1, OthersKeepAbilities
<1> QED
  BY <1>4, <1>5, <1>6

LEMMA SpectatorKeepsAbilities ==
  ASSUME AbilityInv, BetsInv, NEW s \in Spectators, SpectatorNext(s)
  PROVE  AbilityInv'
<1>1. UNCHANGED <<horsePc, horseAbility>>
  BY SpectatorsKeepStart DEF horseVars
<1>2. UNCHANGED horsesAbilities
  BY DEF SpectatorNext, SpectatorWaitsForRace, SpectatorIsCounted, LastSpectatorTellsBroker,
         SpectatorAppraisesHorses, SpectatorPlacesBet, SpectatorWatchesRace,
         SpectatorAsksResult, SpectatorCollectsGains, SpectatorRelaxes, InControlCentre,
         InPaddock, InNoRegion, InStable, bettingVars, bettingCentre!placeABet,
         bettingCentre!resumePlaceABet, bettingCentre!haveIWon, bettingCentre!resumeHaveIWon,
         bettingCentre!AskOrWait, bettingCentre!goCollectTheGains,
         bettingCentre!resumeGoCollectTheGains, bettingCentre!oddsVars
<1>3. bettingCall'[Broker] = bettingCall[Broker]
  <2>1. CASE SpectatorPlacesBet(s)
    <3>1. \E m : bettingCall' = [bettingCall EXCEPT ![s] = m]
      BY <2>1 DEF SpectatorPlacesBet, bettingCentre!placeABet,
         bettingCentre!resumePlaceABet, bettingCentre!WaitWhile
    <3> QED
      BY <3>1, DistinctClients DEF BetsInv, BetTypes
  <2>2. CASE SpectatorAsksResult(s) \/ SpectatorCollectsGains(s)
    <3>1. \E m : bettingCall' = [bettingCall EXCEPT ![s] = m]
      BY <2>2 DEF SpectatorAsksResult, SpectatorCollectsGains,
         bettingCentre!haveIWon, bettingCentre!resumeHaveIWon, bettingCentre!AskOrWait,
         bettingCentre!goCollectTheGains, bettingCentre!resumeGoCollectTheGains,
         bettingCentre!WaitWhile
    <3> QED
      BY <3>1, DistinctClients DEF BetsInv, BetTypes
  <2>3. CASE ~SpectatorPlacesBet(s) /\ ~SpectatorAsksResult(s) /\ ~SpectatorCollectsGains(s)
    BY <2>3 DEF SpectatorNext, SpectatorWaitsForRace, SpectatorIsCounted,
       LastSpectatorTellsBroker, SpectatorAppraisesHorses, SpectatorWatchesRace,
       SpectatorRelaxes, InControlCentre, InPaddock, InNoRegion, InStable, bettingVars
  <2> QED
    BY <2>1, <2>2, <2>3
<1> QED
  BY <1>1, <1>2, <1>3, OthersKeepAbilities DEF AbilityInv

LEMMA HorseKeepsAbilities ==
  ASSUME AbilityInv, StartInv, NEW h \in HorseJockeys, HorseNext(h)
  PROVE  AbilityInv'
<1> USE DEF HorseReturns
<1>1. /\ UNCHANGED <<bettingCall, horseAbility>>
      /\ horsePc \in [HorseJockeys -> HorsePcs] /\ horseAbility \in [HorseJockeys -> Abilities]
  BY HorsesDoNotBet DEF betsVars, HorseNext, HorseSetsAbility, HorseArrivesAtStable,
     HorseLeavesForPaddock, HorseParades, HorseLeavesPaddock, HorseLinesUp,
     HorseChecksFinishLine, HorseMoves, HorseFinishes, HorseGoesToRest, StartInv, BatchTypes
<1>2. CASE HorseSetsAbility(h)
  <2>1. /\ horsesAbilities' = [horsesAbilities EXCEPT ![h] = horseAbility[h]]
        /\ horsePc' = [horsePc EXCEPT ![h] = "stable.proceedToStable(int)"]
    BY <1>2 DEF HorseSetsAbility, bettingCentre!setAbility
  <2> QED
    BY <1>1, <2>1 DEF AbilityInv
<1>3. CASE ~HorseSetsAbility(h)
  <2>1. UNCHANGED horsesAbilities
    BY <1>3 DEF HorseNext, HorseArrivesAtStable, HorseLeavesForPaddock, HorseParades,
       HorseLeavesPaddock, HorseLinesUp, HorseChecksFinishLine, HorseMoves, HorseFinishes,
       HorseGoesToRest, InStable, InControlCentre, InPaddock, InRacingTrack, bettingVars
  <2>2. /\ horsePc[h] \notin {"unborn", "bettingCentre.setAbility"}
        /\ \A g \in HorseJockeys \ {h} : horsePc'[g] = horsePc[g]
    BY <1>1, <1>3 DEF HorseNext, HorseArrivesAtStable, HorseLeavesForPaddock, HorseParades,
       HorseLeavesPaddock, HorseLinesUp, HorseChecksFinishLine, HorseMoves, HorseFinishes,
       HorseGoesToRest
  <2> QED
    BY <1>1, <2>1, <2>2 DEF AbilityInv
<1> QED
  BY <1>2, <1>3

LEMMA LauncherKeepsAbilities ==
  ASSUME AbilityInv, StartInv, LauncherNext
  PROVE  AbilityInv'
<1>1. UNCHANGED <<horsesAbilities, bettingCall>>
  BY DEF LauncherNext, LaunchNextBatch, LaunchHorse, InNoRegion, InStable, bettingVars
<1>2. CASE LaunchNextBatch
  BY <1>1, <1>2 DEF LaunchNextBatch, AbilityInv
<1>3. ASSUME NEW h \in HorseJockeys, LaunchHorse(h)
      PROVE  AbilityInv'
  <2>1. /\ horsePc'[h] = "bettingCentre.setAbility"
        /\ \A g \in HorseJockeys \ {h} :
             horsePc'[g] = horsePc[g] /\ horseAbility'[g] = horseAbility[g]
    BY <1>3 DEF LaunchHorse, StartInv, BatchTypes
  <2> QED
    BY <1>1, <2>1 DEF AbilityInv
<1> QED
  BY <1>2, <1>3 DEF LauncherNext

LEMMA AbilityNext ==
  AbilityInv /\ ParadeInv /\ BetsInv /\ StartInv /\ [Next]_vars => AbilityInv'
<1> SUFFICES ASSUME AbilityInv, ParadeInv, BetsInv, StartInv, [Next]_vars PROVE AbilityInv'
  OBVIOUS
<1>1. CASE BrokerNext
  BY <1>1, BrokerKeepsAbilities
<1>2. CASE \E s \in Spectators : SpectatorNext(s)
  BY <1>2, SpectatorKeepsAbilities
<1>3. CASE \E h \in HorseJockeys : HorseNext(h)
  BY <1>3, HorseKeepsAbilities
<1>4. CASE LauncherNext
  BY <1>4, LauncherKeepsAbilities
<1>5. CASE UNCHANGED vars
  BY <1>5 DEF vars, bettingVars, horseVars, AbilityInv
<1> QED
  BY <1>1, <1>2, <1>3, <1>4, <1>5 DEF Next

LEMMA AbilitiesAreKnown == Spec => []AbilityInv
  BY AbilityInit, AbilityNext, ParadeIsInOrder, BetsAreInOrder, StartsAreInOrder, PTL DEF Spec

(* The odds are those of the horses that will run, and evaluateOdds()      *)
(* never divides by a missing ability: the broker evaluates them when all  *)
(* the spectators have come, and they come after the last horse of the     *)
(* batch has left the stable, for which it has set its ability.            *)
THEOREM HippodromeOddsOfTheRunners == Spec => []OddsOfTheRunners
<1>1. AbilityInv /\ ParadeInv /\ BetsInv /\ StartInv => OddsOfTheRunners
  BY AbilitiesAreThoseOfTheRunners DEF OddsOfTheRunners, AbilityInv
<1> QED
  BY <1>1, AbilitiesAreKnown, ParadeIsInOrder, BetsAreInOrder, StartsAreInOrder, PTL

-----------------------------------------------------------------------------
(* The count of the paddock.                                               *)

Parading ==
  {h \in HorseJockeys : \/ horsePc[h] = "paddock.proceedToPaddock" /\ paddockCall[h] # "none"
                        \/ horsePc[h] = "paddock.proceedToStartLine"}
Gone == {h \in HorseJockeys : horsePc[h] \in OnTheTrack \cup OffTheTrack}

PaddockInv ==
  /\ paddockCall \in [HorseJockeys \cup Spectators -> PaddockMethods]
  /\ \A h \in HorseJockeys :
       paddockCall[h] # "none" => horsePc[h] = "paddock.proceedToPaddock"
  /\ currentNumberOfHorses =
       IF Gone = HorseJockeys THEN 0 ELSE Cardinality(Parading) + 2 * Cardinality(Gone)

(* Arrivals and departures add up to two per horse exactly when all the    *)
(* horses are gone.                                                        *)
LEMMA TwoPerHorse ==
  ASSUME NEW P \in SUBSET HorseJockeys, NEW G \in SUBSET HorseJockeys, P \cap G = {}
  PROVE  /\ IsFiniteSet(P) /\ IsFiniteSet(G)
         /\ Cardinality(P) \in Nat /\ Cardinality(G) \in Nat
         /\ Cardinality(P) + 2 * Cardinality(G) <= 2 * NUMBER_OF_PAIRS_HORSE_JOCKEY
         /\ Cardinality(P) + 2 * Cardinality(G) = 2 * NUMBER_OF_PAIRS_HORSE_JOCKEY
              <=> G = HorseJockeys
<1>1. IsFiniteSet(HorseJockeys) /\ NUMBER_OF_PAIRS_HORSE_JOCKEY \in Nat
  BY Sizes, ConfigurationAssumption DEF ConfigurationAssumption
<1>2. IsFiniteSet(P) /\ IsFiniteSet(G) /\ Cardinality(P) \in Nat /\ Cardinality(G) \in Nat
  BY <1>1, FS_Subset, FS_CardinalityType
<1>3. Cardinality(P \cup G) = Cardinality(P) + Cardinality(G)
  <2>1. Cardinality(P \cup G) = Cardinality(P) + Cardinality(G) - Cardinality(P \cap G)
    BY <1>2, FS_Union
  <2>2. Cardinality(P \cap G) = 0
    BY FS_EmptySet
  <2> QED
    BY <1>2, <2>1, <2>2
<1>4. Cardinality(P \cup G) <= NUMBER_OF_PAIRS_HORSE_JOCKEY
  BY <1>1, FS_Subset DEF NUMBER_OF_PAIRS_HORSE_JOCKEY
<1>5. Cardinality(G) <= NUMBER_OF_PAIRS_HORSE_JOCKEY
      /\ (Cardinality(G) = NUMBER_OF_PAIRS_HORSE_JOCKEY <=> G = HorseJockeys)
  BY <1>1, FS_Subset DEF NUMBER_OF_PAIRS_HORSE_JOCKEY
<1>6. ASSUME G = HorseJockeys PROVE Cardinality(P) = 0
  <2>1. P = {}
    BY <1>6
  <2> QED
    BY <2>1, FS_EmptySet
<1>7. Cardinality(P) + Cardinality(G) <= NUMBER_OF_PAIRS_HORSE_JOCKEY
  BY <1>3, <1>4
<1> QED
  BY <1>1, <1>2, <1>5, <1>6, <1>7

LEMMA TwoParts ==
  /\ Parading \in SUBSET HorseJockeys /\ Gone \in SUBSET HorseJockeys
  /\ Parading \cap Gone = {}
  /\ IsFiniteSet(Parading) /\ IsFiniteSet(Gone)
  /\ Cardinality(Parading) \in Nat /\ Cardinality(Gone) \in Nat
<1>1. Parading \in SUBSET HorseJockeys /\ Gone \in SUBSET HorseJockeys
  BY DEF Parading, Gone
<1>2. Parading \cap Gone = {}
  BY DEF Parading, Gone, OnTheTrack, OffTheTrack
<1> QED
  BY <1>1, <1>2, TwoPerHorse

LEMMA PaddockInit == Init => PaddockInv
<1> SUFFICES ASSUME Init PROVE PaddockInv
  OBVIOUS
<1> USE DEF Init, paddock!Init, paddock!Threads, paddock!None, PaddockMethods
<1>1. Parading = {} /\ Gone = {}
  BY DEF Parading, Gone, OnTheTrack, OffTheTrack
<1> QED
  BY <1>1, FS_EmptySet DEF PaddockInv

LEMMA OthersKeepPaddock ==
  ASSUME PaddockInv, UNCHANGED <<horsePc, currentNumberOfHorses>>,
         paddockCall' \in [HorseJockeys \cup Spectators -> PaddockMethods],
         \A h \in HorseJockeys : paddockCall'[h] = paddockCall[h]
  PROVE  PaddockInv'
<1>1. Parading' = Parading /\ Gone' = Gone
  BY DEF Parading, Gone
<1> QED
  BY <1>1 DEF PaddockInv

(* A step of a horse that does not change the part it belongs to.          *)
LEMMA HorseStaysCounted ==
  ASSUME PaddockInv, StartInv, NEW h \in HorseJockeys, NEW pc \in HorsePcs,
         UNCHANGED <<currentNumberOfHorses, paddockCall>>, paddockCall[h] = "none",
         horsePc' = [horsePc EXCEPT ![h] = pc],
         horsePc[h] # "paddock.proceedToStartLine", pc # "paddock.proceedToStartLine",
         pc \in OnTheTrack \cup OffTheTrack <=> horsePc[h] \in OnTheTrack \cup OffTheTrack
  PROVE  PaddockInv'
<1>1. /\ horsePc'[h] = pc
      /\ \A g \in HorseJockeys \ {h} : horsePc'[g] = horsePc[g]
  BY DEF StartInv, BatchTypes
<1>2. Parading' = Parading /\ Gone' = Gone
  BY <1>1 DEF Parading, Gone
<1> QED
  BY <1>1, <1>2 DEF PaddockInv

LEMMA HorseArrivalIsCounted ==
  ASSUME PaddockInv, StartInv, NEW h \in HorseJockeys, HorseParades(h)
  PROVE  PaddockInv'
<1>1. /\ horsePc[h] = "paddock.proceedToPaddock"
      /\ \E m \in {"none", "proceedToPaddock"} :
           /\ paddockCall' = [paddockCall EXCEPT ![h] = m]
           /\ horsePc' = [horsePc EXCEPT ![h] = IF m = "none" THEN "paddock.proceedToStartLine"
                                                ELSE "paddock.proceedToPaddock"]
      /\ \/ paddockCall[h] = "none" /\ currentNumberOfHorses' = currentNumberOfHorses + 1
         \/ paddockCall[h] # "none" /\ UNCHANGED currentNumberOfHorses
  <2>1. PICK m \in {"none", "proceedToPaddock"} : paddockCall' = [paddockCall EXCEPT ![h] = m]
    BY DEF HorseParades, paddock!proceedToPaddock, paddock!resumeProceedToPaddock,
           paddock!ParadeOrWait, paddock!Wait, paddock!NotifyAllAndReturn,
           paddock!WaitWhile, paddock!None, paddock!Parade
  <2>2. paddockCall'[h] = m
    BY <2>1 DEF PaddockInv
  <2> QED
    BY <2>1, <2>2 DEF HorseParades, HorseReturns, PaddockAnswers, paddock!proceedToPaddock,
       paddock!resumeProceedToPaddock, paddock!Outside, paddock!Notified, paddock!None,
       paddock!Parade, paddock!paddockVars
<1>2. PICK m \in {"none", "proceedToPaddock"} :
           /\ paddockCall' = [paddockCall EXCEPT ![h] = m]
           /\ horsePc' = [horsePc EXCEPT ![h] = IF m = "none" THEN "paddock.proceedToStartLine"
                                                ELSE "paddock.proceedToPaddock"]
  BY <1>1
<1>3. /\ paddockCall'[h] = m
      /\ horsePc'[h] = IF m = "none" THEN "paddock.proceedToStartLine"
                       ELSE "paddock.proceedToPaddock"
      /\ \A g \in HorseJockeys \ {h} :
           horsePc'[g] = horsePc[g] /\ paddockCall'[g] = paddockCall[g]
      /\ paddockCall' \in [HorseJockeys \cup Spectators -> PaddockMethods]
  BY <1>2 DEF StartInv, BatchTypes, PaddockInv, PaddockMethods
<1>4. Gone' = Gone /\ h \notin Gone /\ Gone # HorseJockeys
  BY <1>1, <1>3 DEF Gone, OnTheTrack, OffTheTrack
<1>5. Parading' = Parading \cup {h} /\ (h \in Parading <=> paddockCall[h] # "none")
  BY <1>1, <1>3 DEF Parading
<1>6. IsFiniteSet(Parading) /\ Cardinality(Parading) \in Nat /\ Cardinality(Gone) \in Nat
  BY TwoParts
<1>7. Cardinality(Parading')
        = IF paddockCall[h] = "none" THEN Cardinality(Parading) + 1 ELSE Cardinality(Parading)
  BY <1>5, <1>6, FS_AddElement
<1>8. currentNumberOfHorses' = Cardinality(Parading') + 2 * Cardinality(Gone')
  BY <1>1, <1>4, <1>6, <1>7 DEF PaddockInv
<1>9. \A g \in HorseJockeys : paddockCall'[g] # "none" => horsePc'[g] = "paddock.proceedToPaddock"
  BY <1>3 DEF PaddockInv
<1> QED
  BY <1>3, <1>4, <1>8, <1>9 DEF PaddockInv

LEMMA HorseDepartureIsCounted ==
  ASSUME PaddockInv, StartInv, NEW h \in HorseJockeys, HorseLeavesPaddock(h)
  PROVE  PaddockInv'
<1> DEFINE isLast == currentNumberOfHorses + 1 = 2 * NUMBER_OF_PAIRS_HORSE_JOCKEY
<1>1. /\ horsePc[h] = "paddock.proceedToStartLine"
      /\ horsePc' = [horsePc EXCEPT ![h] = "racingTrack.proceedToStartLine"]
      /\ currentNumberOfHorses' = IF isLast THEN 0 ELSE currentNumberOfHorses + 1
      /\ UNCHANGED paddockCall
  BY DEF HorseLeavesPaddock, HorseReturns, paddock!proceedToStartLine,
         paddock!NUMBER_OF_PAIRS_HORSE_JOCKEY, NUMBER_OF_PAIRS_HORSE_JOCKEY,
         paddock!Cardinality, Cardinality
<1>2. /\ horsePc'[h] = "racingTrack.proceedToStartLine"
      /\ \A g \in HorseJockeys \ {h} : horsePc'[g] = horsePc[g]
  BY <1>1 DEF StartInv, BatchTypes
<1>3. Gone' = Gone \cup {h} /\ h \notin Gone /\ Gone # HorseJockeys
  BY <1>1, <1>2 DEF Gone, OnTheTrack, OffTheTrack
<1>4. Parading' = Parading \ {h} /\ h \in Parading
  BY <1>1, <1>2 DEF Parading
<1>5. /\ IsFiniteSet(Parading) /\ IsFiniteSet(Gone)
      /\ Cardinality(Parading) \in Nat /\ Cardinality(Gone) \in Nat
  BY TwoParts
<1>6. /\ Cardinality(Parading') = Cardinality(Parading) - 1
      /\ Cardinality(Gone') = Cardinality(Gone) + 1
  BY <1>3, <1>4, <1>5, FS_AddElement, FS_RemoveElement
<1>7. Parading' \in SUBSET HorseJockeys /\ Gone' \in SUBSET HorseJockeys
      /\ Parading' \cap Gone' = {}
  BY <1>3, <1>4 DEF Parading, Gone, OnTheTrack, OffTheTrack
<1>8. Cardinality(Parading') + 2 * Cardinality(Gone') = 2 * NUMBER_OF_PAIRS_HORSE_JOCKEY
        <=> Gone' = HorseJockeys
  BY <1>7, TwoPerHorse
<1>9. currentNumberOfHorses + 1 = Cardinality(Parading') + 2 * Cardinality(Gone')
  BY <1>3, <1>5, <1>6 DEF PaddockInv
<1>10. currentNumberOfHorses'
         = IF Gone' = HorseJockeys THEN 0 ELSE Cardinality(Parading') + 2 * Cardinality(Gone')
  BY <1>1, <1>8, <1>9
<1>11. \A g \in HorseJockeys : paddockCall'[g] # "none" => horsePc'[g] = "paddock.proceedToPaddock"
  BY <1>1, <1>2 DEF PaddockInv
<1> QED
  BY <1>1, <1>10, <1>11 DEF PaddockInv

LEMMA HorseKeepsPaddock ==
  ASSUME PaddockInv, StartInv, NEW h \in HorseJockeys, HorseNext(h)
  PROVE  PaddockInv'
<1>1. CASE HorseParades(h)
  BY <1>1, HorseArrivalIsCounted
<1>2. CASE HorseLeavesPaddock(h)
  BY <1>2, HorseDepartureIsCounted
<1>3. CASE ~HorseParades(h) /\ ~HorseLeavesPaddock(h)
  <2>1. UNCHANGED paddockVars
    BY <1>3 DEF HorseNext, HorseSetsAbility, HorseArrivesAtStable, HorseLeavesForPaddock,
       HorseLinesUp, HorseChecksFinishLine, HorseMoves, HorseFinishes, HorseGoesToRest,
       InBettingCentre, InStable, InControlCentre, InRacingTrack
  <2>2. /\ horsePc[h] \notin {"paddock.proceedToPaddock", "paddock.proceedToStartLine"}
        /\ \E pc \in HorsePcs \ {"paddock.proceedToStartLine"} :
             /\ horsePc' = [horsePc EXCEPT ![h] = pc]
             /\ pc \in OnTheTrack \cup OffTheTrack <=> horsePc[h] \in OnTheTrack \cup OffTheTrack
    <3>1. CASE HorseSetsAbility(h) \/ HorseArrivesAtStable(h) \/ HorseLeavesForPaddock(h)
      BY <3>1 DEF HorseSetsAbility, HorseArrivesAtStable, HorseLeavesForPaddock, HorseReturns,
         HorsePcs, BeforeThePaddock, OnTheTrack, OffTheTrack
    <3>2. CASE \/ HorseLinesUp(h) \/ HorseChecksFinishLine(h) \/ HorseMoves(h)
               \/ HorseFinishes(h) \/ HorseGoesToRest(h)
      BY <3>2 DEF HorseLinesUp, HorseChecksFinishLine, HorseMoves, HorseFinishes,
         HorseGoesToRest, HorseReturns, HorsePcs, OnTheTrack, OffTheTrack
    <3> QED
      BY <1>3, <3>1, <3>2 DEF HorseNext
  <2>3. paddockCall[h] = "none"
    BY <2>2 DEF PaddockInv
  <2> QED
    BY <2>1, <2>2, <2>3, HorseStaysCounted DEF paddockVars
<1> QED
  BY <1>1, <1>2, <1>3

LEMMA PaddockNext == PaddockInv /\ StartInv /\ [Next]_vars => PaddockInv'
<1> SUFFICES ASSUME PaddockInv, StartInv, [Next]_vars PROVE PaddockInv'
  OBVIOUS
<1>1. CASE BrokerNext
  <2>1. UNCHANGED <<paddockVars, horsePc>>
    BY <1>1 DEF BrokerNext, BrokerSummonsHorses, BrokerAnnouncesRace, BrokerAcceptsBets,
       BrokerStartsRace, BrokerSupervisesRace, BrokerReportsResults, BrokerLooksForWinners,
       BrokerHonoursBets, BrokerSetsRace, BrokerEntertainsGuests, BrokerReturns, horseVars,
       InStable, InControlCentre, InRacingTrack, InBettingCentre, InNoRegion
  <2> QED
    BY <2>1, OthersKeepPaddock DEF paddockVars, PaddockInv
<1>2. ASSUME NEW s \in Spectators, SpectatorNext(s)
      PROVE  PaddockInv'
  <2>1. UNCHANGED <<horsePc, currentNumberOfHorses>>
    BY <1>2, SpectatorsKeepStart DEF horseVars, SpectatorNext, SpectatorWaitsForRace,
       SpectatorIsCounted, LastSpectatorTellsBroker, SpectatorAppraisesHorses,
       SpectatorPlacesBet, SpectatorWatchesRace, SpectatorAsksResult, SpectatorCollectsGains,
       SpectatorRelaxes, InControlCentre, InBettingCentre, InNoRegion, InStable, paddockVars,
       paddock!countSpectator, paddock!goCheckHorses, paddock!resumeGoCheckHorses
  <2>2. \/ UNCHANGED paddockCall
        \/ \E m \in PaddockMethods : paddockCall' = [paddockCall EXCEPT ![s] = m]
    BY <1>2 DEF SpectatorNext, SpectatorWaitsForRace,
       SpectatorIsCounted, LastSpectatorTellsBroker, SpectatorAppraisesHorses,
       SpectatorPlacesBet, SpectatorWatchesRace, SpectatorAsksResult, SpectatorCollectsGains,
       SpectatorRelaxes, InControlCentre, InBettingCentre, InNoRegion, InStable, paddockVars,
       paddock!countSpectator, paddock!goCheckHorses, paddock!resumeGoCheckHorses,
       paddock!WaitWhile, paddock!None, paddock!Appraise, PaddockMethods
  <2>3. /\ paddockCall' \in [HorseJockeys \cup Spectators -> PaddockMethods]
        /\ \A h \in HorseJockeys : paddockCall'[h] = paddockCall[h]
    BY <2>2, DistinctClients DEF PaddockInv
  <2> QED
    BY <2>1, <2>3, OthersKeepPaddock
<1>3. CASE \E h \in HorseJockeys : HorseNext(h)
  BY <1>3, HorseKeepsPaddock
<1>4. CASE LaunchNextBatch
  <2>1. /\ \A h \in HorseJockeys : horsePc[h] = "deceased"
        /\ horsePc' = [h \in HorseJockeys |-> "unborn"]
        /\ UNCHANGED paddockVars
    BY <1>4 DEF LaunchNextBatch, InNoRegion, InStable
  <2>2. Gone = HorseJockeys /\ Gone' = {} /\ Parading' = {}
    BY <2>1 DEF Gone, Parading, OnTheTrack, OffTheTrack
  <2>3. \A h \in HorseJockeys : paddockCall'[h] = "none"
    BY <2>1 DEF paddockVars, PaddockInv
  <2> QED
    BY <2>1, <2>2, <2>3, FS_EmptySet DEF paddockVars, PaddockInv
<1>5. ASSUME NEW h \in HorseJockeys, LaunchHorse(h)
      PROVE  PaddockInv'
  <2>1. /\ horsePc[h] = "unborn"
        /\ horsePc' = [horsePc EXCEPT ![h] = "bettingCentre.setAbility"]
        /\ UNCHANGED paddockVars
    BY <1>5 DEF LaunchHorse, InNoRegion, InStable
  <2>2. paddockCall[h] = "none"
    BY <2>1 DEF PaddockInv
  <2> QED
    BY <2>1, <2>2, HorseStaysCounted DEF paddockVars, HorsePcs, BeforeThePaddock, OnTheTrack,
       OffTheTrack
<1>6. CASE UNCHANGED vars
  BY <1>6, OthersKeepPaddock DEF vars, paddockVars, horseVars, PaddockInv
<1> QED
  BY <1>1, <1>2, <1>3, <1>4, <1>5, <1>6 DEF Next, LauncherNext

LEMMA PaddockIsCounted == Spec => []PaddockInv
  BY PaddockInit, PaddockNext, StartsAreInOrder, PTL DEF Spec

(* The paddock counts each horse once when it arrives and once when it     *)
(* leaves, in batches of any size, and starts again from 0 for the next    *)
(* batch (Paddock.proceedToPaddock, proceedToStartLine): the last horse is *)
(* recognized, and no horse is taken for it too early.                     *)
THEOREM HippodromePaddockCountsHorses == Spec => []PaddockCountsHorses
<1>1. PaddockInv => PaddockCountsHorses
  BY DEF PaddockInv, PaddockCountsHorses, Parading, Gone
<1> QED
  BY <1>1, PaddockIsCounted, PTL

-----------------------------------------------------------------------------
(* The numbers of the races.                                               *)

HasEnded(s) == spectatorPc[s] \in {"controlCentre.relaxABit", "celebrating"}

(* The broker sets the next race only if there is one, and the spectators  *)
(* wait for it only then.                                                  *)
RacesInv ==
  /\ race \in [identification : Races, distance : Distances]
  /\ race.identification = brokerRace
  /\ brokerPc = "racingTrack.setRace" => brokerRace + 1 \in Races
  /\ batch \in Races
  /\ horseRace \in [HorseJockeys -> Races]
  /\ raceWinner \in HorseJockeys \cup {NoHorse}
  /\ brokerWinner \in HorseJockeys \cup {NoHorse}
  /\ \A s \in Spectators :
       /\ spectatorRace[s] <= NUMBER_OF_RACES
       /\ HasEnded(s) <=> spectatorRace[s] = NUMBER_OF_RACES

LEMMA RacesInit == Init => RacesInv
<1> SUFFICES ASSUME Init PROVE RacesInv
  OBVIOUS
<1> USE DEF Init, racingTrack!Init, controlCentre!Init
<1>1. PICK d \in Distances : race = [identification |-> 0, distance |-> d]
  BY DEF racingTrack!RaceOf
<1>2. race \in [identification : Races, distance : Distances] /\ race.identification = 0
  BY <1>1, FirstRace
<1>3. horseRace \in [HorseJockeys -> Races] /\ batch \in Races
  BY FirstRace
<1>4. ASSUME NEW s \in Spectators
      PROVE  /\ spectatorRace[s] <= NUMBER_OF_RACES
             /\ HasEnded(s) <=> spectatorRace[s] = NUMBER_OF_RACES
  BY Sizes DEF HasEnded
<1> QED
  BY <1>2, <1>3, <1>4 DEF RacesInv

LEMMA BrokerKeepsRaces ==
  ASSUME RacesInv, BrokerNext
  PROVE  RacesInv'
<1> USE DEF BrokerReturns, horseVars, spectatorVars
<1>1. UNCHANGED <<batch, horseRace, spectatorPc, spectatorRace>>
  BY DEF BrokerNext, BrokerSummonsHorses, BrokerAnnouncesRace, BrokerAcceptsBets,
         BrokerStartsRace, BrokerSupervisesRace, BrokerReportsResults, BrokerLooksForWinners,
         BrokerHonoursBets, BrokerSetsRace, BrokerEntertainsGuests
<1>2. UNCHANGED raceWinner
  BY DEF BrokerNext, BrokerSummonsHorses, BrokerAnnouncesRace, BrokerAcceptsBets,
         BrokerStartsRace, BrokerSupervisesRace, BrokerReportsResults, BrokerLooksForWinners,
         BrokerHonoursBets, BrokerSetsRace, BrokerEntertainsGuests, InStable, InRacingTrack,
         InBettingCentre, InNoRegion, centreVars, controlCentre!summonHorsesToPaddock,
         controlCentre!resumeSummonHorsesToPaddock, controlCentre!SummonOrWait,
         controlCentre!startTheRace, controlCentre!resumeStartTheRace,
         controlCentre!SuperviseOrWait, controlCentre!reportResults, controlCentre!raceVars
<1>3. brokerWinner' \in {brokerWinner, raceWinner}
  BY DEF BrokerNext, BrokerSummonsHorses, BrokerAnnouncesRace, BrokerAcceptsBets,
         BrokerStartsRace, BrokerSupervisesRace, BrokerReportsResults, BrokerLooksForWinners,
         BrokerHonoursBets, BrokerSetsRace, BrokerEntertainsGuests
<1>4. \A s \in Spectators :
        /\ spectatorRace'[s] <= NUMBER_OF_RACES
        /\ HasEnded(s)' <=> spectatorRace'[s] = NUMBER_OF_RACES
  BY <1>1 DEF RacesInv, HasEnded
<1>5. CASE BrokerSetsRace
  <2>1. PICK d \in Distances : race' = [identification |-> brokerRace + 1, distance |-> d]
    BY <1>5 DEF BrokerSetsRace, racingTrack!setRace, racingTrack!RaceOf
  <2>2. /\ brokerPc = "racingTrack.setRace" /\ brokerRace' = brokerRace + 1
        /\ brokerPc' = "stable.summonHorsesToPaddock"
    BY <1>5 DEF BrokerSetsRace
  <2>3. brokerRace + 1 \in Races
    BY <2>2 DEF RacesInv
  <2>4. /\ race' \in [identification : Races, distance : Distances]
        /\ race'.identification = brokerRace'
    BY <2>1, <2>2, <2>3
  <2> QED
    BY <1>1, <1>2, <1>3, <1>4, <2>2, <2>4 DEF RacesInv
<1>6. CASE ~BrokerSetsRace
  <2>1. UNCHANGED <<race, brokerRace>>
    BY <1>6 DEF BrokerNext, BrokerSummonsHorses, BrokerAnnouncesRace, BrokerAcceptsBets,
         BrokerStartsRace, BrokerSupervisesRace, BrokerReportsResults, BrokerLooksForWinners,
         BrokerHonoursBets, BrokerEntertainsGuests, InStable, InControlCentre,
         InBettingCentre, InNoRegion, trackVars, racingTrack!startTheRace
  <2>2. /\ brokerPc' = "racingTrack.setRace" => brokerRace < NUMBER_OF_RACES - 1
        /\ brokerRace \in Races
    <3>1. CASE BrokerLooksForWinners \/ BrokerHonoursBets
      BY <3>1 DEF BrokerLooksForWinners, BrokerHonoursBets, AfterTheBets, RacesInv
    <3>2. CASE ~(BrokerLooksForWinners \/ BrokerHonoursBets)
      BY <1>6, <3>2 DEF BrokerNext, BrokerSummonsHorses, BrokerAnnouncesRace,
         BrokerAcceptsBets, BrokerStartsRace, BrokerSupervisesRace, BrokerReportsResults,
         BrokerEntertainsGuests, RacesInv
    <3> QED
      BY <3>1, <3>2
  <2>3. brokerPc' = "racingTrack.setRace" => brokerRace + 1 \in Races
    BY <2>2, Sizes DEF Races
  <2> QED
    BY <1>1, <1>2, <1>3, <1>4, <2>1, <2>3 DEF RacesInv
<1> QED
  BY <1>5, <1>6

LEMMA SpectatorKeepsRaces ==
  ASSUME RacesInv, BetTypes, NEW s \in Spectators, SpectatorNext(s)
  PROVE  RacesInv'
<1>1. UNCHANGED <<race, brokerPc, brokerRace, batch, horseRace, brokerWinner>>
  BY SpectatorsKeepStart DEF trackVars, brokerVars, horseVars
<1>2. raceWinner' \in {raceWinner, NoHorse}
  BY DEF SpectatorNext, SpectatorWaitsForRace, SpectatorIsCounted, LastSpectatorTellsBroker,
         SpectatorAppraisesHorses, SpectatorPlacesBet, SpectatorWatchesRace,
         SpectatorAsksResult, SpectatorCollectsGains, SpectatorRelaxes, InPaddock,
         InNoRegion, InStable, InBettingCentre, centreVars, controlCentre!waitForTheNextRace,
         controlCentre!resumeWaitForTheNextRace, controlCentre!goCheckHorses,
         controlCentre!goWatchTheRace, controlCentre!resumeGoWatchTheRace,
         controlCentre!ResetRace, controlCentre!raceVars
<1>3. /\ spectatorRace[s] \in Nat /\ NUMBER_OF_RACES \in Nat
      /\ spectatorPc \in [Spectators -> SpectatorPcs] /\ spectatorRace \in [Spectators -> Nat]
      /\ spectatorRace[s] <= NUMBER_OF_RACES
      /\ HasEnded(s) <=> spectatorRace[s] = NUMBER_OF_RACES
  BY Sizes DEF BetTypes, RacesInv
<1>4. \E pc \in SpectatorPcs, r \in Nat :
        /\ spectatorPc' = [spectatorPc EXCEPT ![s] = pc]
        /\ spectatorRace' = [spectatorRace EXCEPT ![s] = r]
        /\ r <= NUMBER_OF_RACES
        /\ pc \in {"controlCentre.relaxABit", "celebrating"} <=> r = NUMBER_OF_RACES
  <2> DEFINE Goes(pc, r) == /\ spectatorPc' = [spectatorPc EXCEPT ![s] = pc]
                            /\ spectatorRace' = [spectatorRace EXCEPT ![s] = r]
  <2>0. spectatorRace = [spectatorRace EXCEPT ![s] = spectatorRace[s]]
    BY <1>3
  <2>1. CASE \/ SpectatorWaitsForRace(s) \/ SpectatorIsCounted(s)
             \/ LastSpectatorTellsBroker(s) \/ SpectatorAppraisesHorses(s)
             \/ SpectatorPlacesBet(s) \/ SpectatorWatchesRace(s)
    <3>1. ~HasEnded(s) /\ UNCHANGED spectatorRace
      BY <2>1 DEF SpectatorWaitsForRace, SpectatorIsCounted, LastSpectatorTellsBroker,
         SpectatorAppraisesHorses, SpectatorPlacesBet, SpectatorWatchesRace, SpectatorReturns,
         HasEnded
    <3>2. \E pc \in SpectatorPcs \ {"controlCentre.relaxABit", "celebrating"} :
            spectatorPc' = [spectatorPc EXCEPT ![s] = pc]
      BY <2>1 DEF SpectatorWaitsForRace, SpectatorIsCounted, LastSpectatorTellsBroker,
         SpectatorAppraisesHorses, SpectatorPlacesBet, SpectatorWatchesRace, SpectatorReturns,
         SpectatorPcs
    <3> QED
      BY <1>3, <2>0, <3>1, <3>2
  <2>2. CASE SpectatorRelaxes(s)
    <3>1. /\ HasEnded(s) /\ UNCHANGED spectatorRace
          /\ spectatorPc' = [spectatorPc EXCEPT ![s] = "celebrating"]
      BY <2>2 DEF SpectatorRelaxes, SpectatorReturns, HasEnded
    <3> QED
      BY <1>3, <2>0, <3>1 DEF SpectatorPcs
  <2>3. CASE SpectatorAsksResult(s) \/ SpectatorCollectsGains(s)
    <3>1. ~HasEnded(s) /\ spectatorRace[s] < NUMBER_OF_RACES
      BY <1>3, <2>3 DEF SpectatorAsksResult, SpectatorCollectsGains, SpectatorReturns, HasEnded
    <3>2. CASE /\ UNCHANGED spectatorRace
               /\ \E pc \in {"bettingCentre.haveIWon", "bettingCentre.goCollectTheGains"} :
                    spectatorPc' = [spectatorPc EXCEPT ![s] = pc]
      BY <1>3, <2>0, <3>1, <3>2 DEF SpectatorPcs
    <3>3. CASE /\ spectatorRace' = [spectatorRace EXCEPT ![s] = @ + 1]
               /\ spectatorPc' = [spectatorPc EXCEPT ![s] = AfterTheRace(s)]
      <4>1. /\ Goes(AfterTheRace(s), spectatorRace[s] + 1)
            /\ spectatorRace[s] + 1 \in Nat /\ spectatorRace[s] + 1 <= NUMBER_OF_RACES
        BY <1>3, <3>1, <3>3
      <4>2. /\ AfterTheRace(s) \in SpectatorPcs
            /\ AfterTheRace(s) \in {"controlCentre.relaxABit", "celebrating"}
                 <=> spectatorRace[s] + 1 = NUMBER_OF_RACES
        BY DEF AfterTheRace, SpectatorPcs
      <4> QED
        BY <4>1, <4>2
    <3>4. CASE SpectatorAsksResult(s)
      <4>1. CASE BettingCentreAnswers(s) /\ ~HasWon(s)
        BY <3>3, <3>4, <4>1 DEF SpectatorAsksResult, SpectatorReturns, GoToNextRace
      <4>2. CASE ~BettingCentreAnswers(s)
        BY <3>2, <3>4, <4>2 DEF SpectatorAsksResult, SpectatorReturns, GoToNextRace
      <4>3. CASE BettingCentreAnswers(s) /\ HasWon(s)
        BY <3>2, <3>4, <4>3 DEF SpectatorAsksResult, SpectatorReturns, GoToNextRace
      <4> QED
        BY <4>1, <4>2, <4>3
    <3>5. CASE SpectatorCollectsGains(s)
      <4>1. CASE BettingCentreAnswers(s)
        BY <3>3, <3>5, <4>1 DEF SpectatorCollectsGains, SpectatorReturns, GoToNextRace
      <4>2. CASE ~BettingCentreAnswers(s)
        BY <3>2, <3>5, <4>2 DEF SpectatorCollectsGains, SpectatorReturns, GoToNextRace
      <4> QED
        BY <4>1, <4>2
    <3> QED
      BY <2>3, <3>4, <3>5
  <2> QED
    BY <2>1, <2>2, <2>3 DEF SpectatorNext
<1>5. ASSUME NEW t \in Spectators
      PROVE  /\ spectatorRace'[t] <= NUMBER_OF_RACES
             /\ HasEnded(t)' <=> spectatorRace'[t] = NUMBER_OF_RACES
  BY <1>3, <1>4 DEF RacesInv, HasEnded
<1> QED
  BY <1>1, <1>2, <1>5 DEF RacesInv

LEMMA HorseKeepsRaces ==
  ASSUME RacesInv, NEW h \in HorseJockeys, HorseNext(h)
  PROVE  RacesInv'
<1>1. UNCHANGED <<race, brokerVars, spectatorVars, batch, horseRace>>
  BY DEF HorseNext, HorseSetsAbility, HorseArrivesAtStable, HorseLeavesForPaddock,
         HorseParades, HorseLeavesPaddock, HorseLinesUp, HorseChecksFinishLine, HorseMoves,
         HorseFinishes, HorseGoesToRest, HorseReturns, InBettingCentre, InStable,
         InControlCentre, InPaddock, trackVars, racingTrack!proceedToStartLine,
         racingTrack!resumeProceedToStartLine, racingTrack!hasFinishLineBeenCrossed,
         racingTrack!makeAMove, racingTrack!resumeMakeAMove
<1>2. raceWinner' \in {raceWinner, h}
  BY DEF HorseNext, HorseSetsAbility, HorseArrivesAtStable, HorseLeavesForPaddock,
         HorseParades, HorseLeavesPaddock, HorseLinesUp, HorseChecksFinishLine, HorseMoves,
         HorseFinishes, HorseGoesToRest, InBettingCentre, InStable, InRacingTrack, InPaddock,
         centreVars, controlCentre!proceedToPaddock, controlCentre!raceVars,
         controlCentre!makeAMove
<1> QED
  BY <1>1, <1>2 DEF RacesInv, HasEnded, brokerVars, spectatorVars

LEMMA RacesNext == RacesInv /\ BetTypes /\ [Next]_vars => RacesInv'
<1> SUFFICES ASSUME RacesInv, BetTypes, [Next]_vars PROVE RacesInv'
  OBVIOUS
<1>1. CASE BrokerNext
  BY <1>1, BrokerKeepsRaces
<1>2. CASE \E s \in Spectators : SpectatorNext(s)
  BY <1>2, SpectatorKeepsRaces
<1>3. CASE \E h \in HorseJockeys : HorseNext(h)
  BY <1>3, HorseKeepsRaces
<1>4. CASE LauncherNext
  <2>1. UNCHANGED <<race, raceWinner, brokerVars, spectatorVars>>
    BY <1>4 DEF LauncherNext, LaunchNextBatch, LaunchHorse, InNoRegion, InStable, trackVars,
       centreVars
  <2>2. horseRace' \in [HorseJockeys -> Races] /\ batch' \in Races
    BY <1>4, Sizes DEF LauncherNext, LaunchNextBatch, LaunchHorse, RacesInv, Races
  <2> QED
    BY <2>1, <2>2 DEF RacesInv, HasEnded, brokerVars, spectatorVars
<1>5. CASE UNCHANGED vars
  BY <1>5 DEF vars, trackVars, centreVars, brokerVars, spectatorVars, horseVars, RacesInv,
     HasEnded
<1> QED
  BY <1>1, <1>2, <1>3, <1>4, <1>5 DEF Next

LEMMA RacesAreInOrder == Spec => []RacesInv
<1>1. BetsInv => BetTypes
  BY DEF BetsInv
<1> QED
  BY <1>1, RacesInit, RacesNext, BetsAreInOrder, PTL DEF Spec

-----------------------------------------------------------------------------
(* The sleepers of the five regions: in every step at most one region      *)
(* changes, and the thread that acts in it is awake.                       *)

(* The stable.                                                             *)

StableThreads == HorseJockeys \cup {Broker}
StableMethods == {"none", "proceedToStable(int)", "proceedToStable()", "summonHorsesToPaddock(int)"}

StableSleepers ==
  /\ stableCall \in [StableThreads -> StableMethods]
  /\ stableWaitSet \subseteq StableThreads
  /\ argument \in [StableThreads -> Nat]
  /\ stable!NoMissedSignal

LEMMA StableSleepersInit == Init => StableSleepers
BY DEF Init, stable!Init, stable!None, stable!Threads, stable!NoMissedSignal, StableSleepers,
       StableThreads, StableMethods

LEMMA HorseArrivesAtStableKeepsSleepers ==
  ASSUME StableSleepers, NEW h \in HorseJockeys, HorseArrivesAtStable(h), horseRace[h] \in Nat
  PROVE  StableSleepers'
<1> USE DEF StableSleepers, StableThreads, StableMethods, stable!None, stable!ForRace, stable!ToRest,
        stable!Summon, stable!WaitWhile
<1>1. CASE stable!proceedToStableForRace(h, horseRace[h])
  <2>1. stable!NoMissedSignal'
    BY <1>1, DistinctClients DEF stable!proceedToStableForRace, stable!NoMissedSignal,
       stable!MustWait, stable!Outside, stable!IsLastArrival
  <2> QED
    BY <1>1, <2>1 DEF stable!proceedToStableForRace
<1>2. CASE stable!resumeProceedToStableForRace(h)
  <2>1. stable!NoMissedSignal'
    BY <1>2, DistinctClients DEF stable!resumeProceedToStableForRace, stable!NoMissedSignal,
       stable!MustWait, stable!Notified, stable!stableVars
  <2> QED
    BY <1>2, <2>1 DEF stable!resumeProceedToStableForRace
<1> QED
  BY <1>1, <1>2 DEF HorseArrivesAtStable

LEMMA HorseGoesToRestKeepsSleepers ==
  ASSUME StableSleepers, NEW h \in HorseJockeys, HorseGoesToRest(h)
  PROVE  StableSleepers'
<1> USE DEF StableSleepers, StableThreads, StableMethods, stable!None, stable!ForRace, stable!ToRest,
        stable!Summon, stable!WaitWhile
<1>1. CASE UNCHANGED stable!vars
  BY <1>1 DEF stable!vars, stable!stableVars, stable!NoMissedSignal, stable!MustWait
<1>2. CASE stable!RestOrWait(h) /\ (stable!Outside(h) \/ stable!Notified(h, "proceedToStable()"))
  <2>1. stable!NoMissedSignal'
    BY <1>2, DistinctClients DEF stable!RestOrWait, stable!NoMissedSignal,
       stable!MustWait, stable!Notified, stable!Outside
  <2> QED
    BY <1>2, <2>1 DEF stable!RestOrWait
<1> QED
  BY <1>1, <1>2 DEF HorseGoesToRest, stable!proceedToStable, stable!resumeProceedToStable

LEMMA BrokerSummonsKeepsSleepers ==
  ASSUME StableSleepers, BrokerSummonsHorses, brokerRace \in Nat
  PROVE  StableSleepers'
<1> USE DEF StableSleepers, StableThreads, StableMethods, stable!None, stable!ForRace, stable!ToRest,
        stable!Summon, stable!WaitWhile, stable!stableVars
<1>1. PICK r \in Nat : stable!SummonOrWait(r)
  BY DEF BrokerSummonsHorses, stable!summonHorsesToPaddock, stable!resumeSummonHorsesToPaddock
<1>2. Broker \notin stableWaitSet
  BY DEF BrokerSummonsHorses, stable!summonHorsesToPaddock, stable!resumeSummonHorsesToPaddock,
     stable!Outside, stable!Notified, stable!NoMissedSignal, stable!MustWait
<1>3. CASE horsesAreNotAvailable
  <2>1. stable!NoMissedSignal'
    BY <1>1, <1>2, <1>3, DistinctClients DEF stable!SummonOrWait, stable!Wait,
       stable!NoMissedSignal, stable!MustWait
  <2> QED
    BY <1>1, <1>3, <2>1 DEF stable!SummonOrWait, stable!Wait
<1>4. CASE ~horsesAreNotAvailable
  BY <1>1, <1>4 DEF stable!SummonOrWait, stable!NotifyAllAndReturn, stable!NoMissedSignal
<1> QED
  BY <1>3, <1>4

LEMMA StableSleepersNext ==
  StableSleepers /\ BetTypes /\ RacesInv /\ [Next]_vars => StableSleepers'
<1> SUFFICES ASSUME StableSleepers, BetTypes, RacesInv, [Next]_vars PROVE StableSleepers'
  OBVIOUS
<1>1. CASE UNCHANGED stableVars
  BY <1>1 DEF stableVars, StableSleepers, stable!NoMissedSignal, stable!MustWait
<1>2. ASSUME NEW h \in HorseJockeys, HorseArrivesAtStable(h)
      PROVE  StableSleepers'
  <2>1. horseRace[h] \in Nat
    BY Sizes DEF RacesInv, Races
  <2> QED
    BY <1>2, <2>1, HorseArrivesAtStableKeepsSleepers
<1>3. ASSUME NEW h \in HorseJockeys, HorseGoesToRest(h)
      PROVE  StableSleepers'
  BY <1>3, HorseGoesToRestKeepsSleepers
<1>4. CASE BrokerSummonsHorses
  BY <1>4, BrokerSummonsKeepsSleepers DEF BetTypes
<1>5. CASE BrokerNext
  BY <1>1, <1>4, <1>5 DEF BrokerNext, BrokerAnnouncesRace, BrokerAcceptsBets, BrokerStartsRace,
     BrokerSupervisesRace, BrokerReportsResults, BrokerLooksForWinners, BrokerHonoursBets,
     BrokerSetsRace, BrokerEntertainsGuests, InControlCentre, InRacingTrack, InBettingCentre,
     InNoRegion
<1>6. ASSUME NEW s \in Spectators, SpectatorNext(s)
      PROVE  UNCHANGED stableVars
  BY <1>6 DEF SpectatorNext, SpectatorWaitsForRace, SpectatorIsCounted, LastSpectatorTellsBroker,
     SpectatorAppraisesHorses, SpectatorPlacesBet, SpectatorWatchesRace, SpectatorAsksResult,
     SpectatorCollectsGains, SpectatorRelaxes, InControlCentre, InPaddock, InBettingCentre,
     InNoRegion
<1>7. ASSUME NEW h \in HorseJockeys, HorseNext(h)
      PROVE  StableSleepers'
  BY <1>1, <1>2, <1>3, <1>7 DEF HorseNext, HorseSetsAbility, HorseLeavesForPaddock, HorseParades,
     HorseLeavesPaddock, HorseLinesUp, HorseChecksFinishLine, HorseMoves, HorseFinishes,
     InControlCentre, InPaddock, InRacingTrack, InBettingCentre
<1>8. CASE LauncherNext
  BY <1>1, <1>8 DEF LauncherNext, LaunchNextBatch, LaunchHorse, InNoRegion
<1>9. CASE UNCHANGED vars
  BY <1>1, <1>9 DEF vars
<1> QED
  BY <1>1, <1>5, <1>6, <1>7, <1>8, <1>9 DEF Next

(* The control centre.                                                     *)

CentreSleepers ==
  /\ centreWaitSet \subseteq Spectators \cup {Broker}
  /\ controlCentre!NoMissedSignal

LEMMA CentreSleepersInit == Init => CentreSleepers
BY DEF Init, controlCentre!Init, controlCentre!NoMissedSignal, CentreSleepers

(* A method that clears no flag concerns its own thread.                   *)
LEMMA OthersSleepOnAtCentre ==
  ASSUME CentreSleepers, BetTypes, NEW t \in Spectators \cup {Broker},
         NEW condition \in BOOLEAN, NEW method, method # "none",
         controlCentre!WaitWhile(condition, t, method, centreWaitSet),
         t \notin centreWaitSet,
         condition => controlCentre!MustWait(t)',
         announcing => announcing',
         thereIsStillHorsesToFinishRace => thereIsStillHorsesToFinishRace',
         brokerDidNotReportResults => brokerDidNotReportResults',
         lastHorseJockeyHasNotArrivedOnPaddock' = lastHorseJockeyHasNotArrivedOnPaddock
  PROVE  CentreSleepers'
<1> USE DEF CentreSleepers, controlCentre!WaitWhile
<1>1. centreWaitSet' \subseteq Spectators \cup {Broker}
  OBVIOUS
<1>2. ASSUME NEW u \in centreWaitSet'
      PROVE  controlCentre!MustWait(u)'
  <2>1. CASE u = t
    BY <1>2, <2>1
  <2>2. CASE u # t
    <3>1. u \in centreWaitSet /\ centreCall'[u] = centreCall[u]
      BY <1>2, <2>2 DEF BetTypes
    <3>2. controlCentre!MustWait(u)
      BY <3>1 DEF controlCentre!NoMissedSignal
    <3> QED
      BY <3>1, <3>2 DEF controlCentre!MustWait
  <2> QED
    BY <2>1, <2>2
<1> QED
  BY <1>1, <1>2 DEF controlCentre!NoMissedSignal

(* A thread does not sleep when it calls a method or has been notified.    *)
LEMMA AwakeAtCentre ==
  ASSUME CentreSleepers, NEW t, NEW method, method # "none",
         controlCentre!Outside(t) \/ controlCentre!Notified(t, method)
  PROVE  t \notin centreWaitSet
BY DEF CentreSleepers, controlCentre!NoMissedSignal, controlCentre!MustWait,
       controlCentre!Outside, controlCentre!Notified, controlCentre!None,
       controlCentre!Summon, controlCentre!Supervise, controlCentre!AwaitRace,
       controlCentre!Watch

LEMMA BrokerAtCentreKeepsSleepers ==
  ASSUME CentreSleepers, BetTypes,
         BrokerAnnouncesRace \/ BrokerSupervisesRace \/ BrokerReportsResults
  PROVE  CentreSleepers'
<1> USE DEF controlCentre!Summon, controlCentre!Supervise
<1>0. centreCall \in [Spectators \cup {Broker} -> CentreMethods]
  BY DEF BetTypes
<1>1. CASE BrokerAnnouncesRace
  <2>1. /\ Broker \notin centreWaitSet
        /\ controlCentre!WaitWhile(announcing, Broker, "summonHorsesToPaddock", centreWaitSet)
        /\ announcing'
        /\ UNCHANGED <<thereIsStillHorsesToFinishRace, brokerDidNotReportResults,
                       lastHorseJockeyHasNotArrivedOnPaddock>>
    BY <1>1, AwakeAtCentre DEF BrokerAnnouncesRace, controlCentre!summonHorsesToPaddock,
       controlCentre!resumeSummonHorsesToPaddock, controlCentre!SummonOrWait,
       controlCentre!raceVars
  <2>2. CASE announcing
    <3>1. controlCentre!WaitWhile(TRUE, Broker, "summonHorsesToPaddock", centreWaitSet)
      BY <2>1, <2>2 DEF controlCentre!WaitWhile
    <3>2. controlCentre!MustWait(Broker)'
      BY <1>0, <2>1, <3>1 DEF controlCentre!MustWait, controlCentre!WaitWhile
    <3> QED
      BY <2>1, <3>1, <3>2, OthersSleepOnAtCentre
  <2>3. CASE ~announcing
    <3>1. controlCentre!WaitWhile(FALSE, Broker, "summonHorsesToPaddock", centreWaitSet)
      BY <2>1, <2>3 DEF controlCentre!WaitWhile
    <3> QED
      BY <2>1, <3>1, OthersSleepOnAtCentre
  <2> QED
    BY <2>2, <2>3
<1>2. CASE BrokerSupervisesRace
  <2>1. /\ Broker \notin centreWaitSet
        /\ controlCentre!WaitWhile(thereIsStillHorsesToFinishRace, Broker, "startTheRace",
                                   centreWaitSet)
        /\ UNCHANGED <<announcing, thereIsStillHorsesToFinishRace, brokerDidNotReportResults,
                       lastHorseJockeyHasNotArrivedOnPaddock>>
    BY <1>2, AwakeAtCentre DEF BrokerSupervisesRace, controlCentre!startTheRace,
       controlCentre!resumeStartTheRace, controlCentre!SuperviseOrWait,
       controlCentre!raceVars, controlCentre!paddockVars
  <2>2. CASE thereIsStillHorsesToFinishRace
    <3>1. controlCentre!WaitWhile(TRUE, Broker, "startTheRace", centreWaitSet)
      BY <2>1, <2>2 DEF controlCentre!WaitWhile
    <3>2. controlCentre!MustWait(Broker)'
      BY <1>0, <2>1, <2>2, <3>1 DEF controlCentre!MustWait, controlCentre!WaitWhile
    <3> QED
      BY <2>1, <3>1, <3>2, OthersSleepOnAtCentre
  <2>3. CASE ~thereIsStillHorsesToFinishRace
    <3>1. controlCentre!WaitWhile(FALSE, Broker, "startTheRace", centreWaitSet)
      BY <2>1, <2>3 DEF controlCentre!WaitWhile
    <3> QED
      BY <2>1, <3>1, OthersSleepOnAtCentre
  <2> QED
    BY <2>2, <2>3
<1>3. CASE BrokerReportsResults
  BY <1>3 DEF BrokerReportsResults, controlCentre!reportResults,
     controlCentre!NotifyAllAndReturn, controlCentre!WaitWhile, CentreSleepers,
     controlCentre!NoMissedSignal
<1> QED
  BY <1>1, <1>2, <1>3

LEMMA SpectatorAtCentreKeepsSleepers ==
  ASSUME CentreSleepers, BetTypes, NEW s \in Spectators,
         SpectatorWaitsForRace(s) \/ LastSpectatorTellsBroker(s) \/ SpectatorWatchesRace(s)
  PROVE  CentreSleepers'
<1> USE DEF controlCentre!AwaitRace, controlCentre!Watch, controlCentre!raceVars,
        controlCentre!paddockVars
<1>0. centreCall \in [Spectators \cup {Broker} -> CentreMethods]
  BY DEF BetTypes
<1>1. CASE SpectatorWaitsForRace(s)
  <2>1. /\ s \notin centreWaitSet
        /\ controlCentre!WaitWhile(lastHorseJockeyHasNotArrivedOnPaddock, s,
                                   "waitForTheNextRace", centreWaitSet)
        /\ brokerDidNotReportResults => brokerDidNotReportResults'
        /\ UNCHANGED <<announcing, thereIsStillHorsesToFinishRace,
                       lastHorseJockeyHasNotArrivedOnPaddock>>
    BY <1>1, AwakeAtCentre DEF SpectatorWaitsForRace, controlCentre!waitForTheNextRace,
       controlCentre!resumeWaitForTheNextRace
  <2>2. CASE lastHorseJockeyHasNotArrivedOnPaddock
    <3>1. controlCentre!WaitWhile(TRUE, s, "waitForTheNextRace", centreWaitSet)
      BY <2>1, <2>2 DEF controlCentre!WaitWhile
    <3>2. controlCentre!MustWait(s)'
      BY <1>0, <2>1, <2>2, <3>1 DEF controlCentre!MustWait, controlCentre!WaitWhile
    <3> QED
      BY <2>1, <3>1, <3>2, OthersSleepOnAtCentre
  <2>3. CASE ~lastHorseJockeyHasNotArrivedOnPaddock
    <3>1. controlCentre!WaitWhile(FALSE, s, "waitForTheNextRace", centreWaitSet)
      BY <2>1, <2>3 DEF controlCentre!WaitWhile
    <3> QED
      BY <2>1, <3>1, OthersSleepOnAtCentre
  <2> QED
    BY <2>2, <2>3
<1>2. CASE SpectatorWatchesRace(s)
  <2>1. /\ s \notin centreWaitSet
        /\ controlCentre!WaitWhile(brokerDidNotReportResults, s, "goWatchTheRace", centreWaitSet)
        /\ thereIsStillHorsesToFinishRace => thereIsStillHorsesToFinishRace'
        /\ UNCHANGED <<announcing, brokerDidNotReportResults,
                       lastHorseJockeyHasNotArrivedOnPaddock>>
    BY <1>2, AwakeAtCentre DEF SpectatorWatchesRace, controlCentre!goWatchTheRace,
       controlCentre!resumeGoWatchTheRace, controlCentre!ResetRace
  <2>2. CASE brokerDidNotReportResults
    <3>1. controlCentre!WaitWhile(TRUE, s, "goWatchTheRace", centreWaitSet)
      BY <2>1, <2>2 DEF controlCentre!WaitWhile
    <3>2. controlCentre!MustWait(s)'
      BY <1>0, <2>1, <2>2, <3>1 DEF controlCentre!MustWait, controlCentre!WaitWhile
    <3> QED
      BY <2>1, <3>1, <3>2, OthersSleepOnAtCentre
  <2>3. CASE ~brokerDidNotReportResults
    <3>1. controlCentre!WaitWhile(FALSE, s, "goWatchTheRace", centreWaitSet)
      BY <2>1, <2>3 DEF controlCentre!WaitWhile
    <3> QED
      BY <2>1, <3>1, OthersSleepOnAtCentre
  <2> QED
    BY <2>2, <2>3
<1>3. CASE LastSpectatorTellsBroker(s)
  BY <1>3 DEF LastSpectatorTellsBroker, controlCentre!goCheckHorses, CentreSleepers,
     controlCentre!NoMissedSignal
<1> QED
  BY <1>1, <1>2, <1>3

LEMMA HorseAtCentreKeepsSleepers ==
  ASSUME CentreSleepers, NEW h \in HorseJockeys, HorseLeavesForPaddock(h) \/ HorseFinishes(h)
  PROVE  CentreSleepers'
<1> USE DEF CentreSleepers, controlCentre!None, controlCentre!Summon,
        controlCentre!Supervise, controlCentre!AwaitRace, controlCentre!Watch,
        controlCentre!NoMissedSignal, controlCentre!MustWait,
        controlCentre!raceVars, controlCentre!paddockVars
<1>1. CASE HorseLeavesForPaddock(h)
  BY <1>1 DEF HorseLeavesForPaddock, controlCentre!proceedToPaddock
<1>2. CASE HorseFinishes(h)
  BY <1>2 DEF HorseFinishes, controlCentre!makeAMove
<1> QED
  BY <1>1, <1>2

LEMMA CentreSleepersNext == CentreSleepers /\ BetTypes /\ [Next]_vars => CentreSleepers'
<1> SUFFICES ASSUME CentreSleepers, BetTypes, [Next]_vars PROVE CentreSleepers'
  OBVIOUS
<1>1. CASE UNCHANGED centreVars
  BY <1>1 DEF centreVars, CentreSleepers, controlCentre!NoMissedSignal, controlCentre!MustWait
<1>2. CASE BrokerNext
  BY <1>1, <1>2, BrokerAtCentreKeepsSleepers DEF BrokerNext, BrokerSummonsHorses,
     BrokerAcceptsBets, BrokerStartsRace, BrokerLooksForWinners, BrokerHonoursBets,
     BrokerSetsRace, BrokerEntertainsGuests, InStable, InRacingTrack, InBettingCentre, InNoRegion
<1>3. ASSUME NEW s \in Spectators, SpectatorNext(s)
      PROVE  CentreSleepers'
  BY <1>1, <1>3, SpectatorAtCentreKeepsSleepers DEF SpectatorNext, SpectatorIsCounted,
     SpectatorAppraisesHorses, SpectatorPlacesBet, SpectatorAsksResult,
     SpectatorCollectsGains, SpectatorRelaxes, InPaddock, InBettingCentre, InNoRegion, InStable
<1>4. ASSUME NEW h \in HorseJockeys, HorseNext(h)
      PROVE  CentreSleepers'
  BY <1>1, <1>4, HorseAtCentreKeepsSleepers DEF HorseNext, HorseSetsAbility,
     HorseArrivesAtStable, HorseParades, HorseLeavesPaddock, HorseLinesUp,
     HorseChecksFinishLine, HorseMoves, HorseGoesToRest, InStable, InPaddock, InRacingTrack,
     InBettingCentre
<1>5. CASE LauncherNext
  BY <1>1, <1>5 DEF LauncherNext, LaunchNextBatch, LaunchHorse, InNoRegion, InStable
<1>6. CASE UNCHANGED vars
  BY <1>1, <1>6 DEF vars
<1> QED
  BY <1>2, <1>3, <1>4, <1>5, <1>6 DEF Next

(* The paddock.                                                            *)

PaddockSleepers ==
  /\ paddockWaitSet \subseteq HorseJockeys \cup Spectators
  /\ paddock!NoMissedSignal

LEMMA PaddockSleepersInit == Init => PaddockSleepers
BY DEF Init, paddock!Init, paddock!NoMissedSignal, PaddockSleepers

LEMMA HorseAtPaddockKeepsSleepers ==
  ASSUME PaddockSleepers, ParadeTypes, NEW h \in HorseJockeys,
         HorseParades(h) \/ HorseLeavesPaddock(h)
  PROVE  PaddockSleepers'
<1> USE DEF PaddockSleepers, ParadeTypes, PaddockMethods, paddock!None, paddock!Parade,
        paddock!Appraise, paddock!WaitWhile, paddock!NoMissedSignal, paddock!MustWait
<1>1. CASE HorseParades(h)
  <2>1. /\ paddock!ParadeOrWait(h) /\ h \notin paddockWaitSet
        /\ lastHorseDidNotProceedToStartLine' \in {TRUE, lastHorseDidNotProceedToStartLine}
        /\ UNCHANGED lastSpectatorHasNotArrivedOnPaddock
    BY <1>1 DEF HorseParades, paddock!proceedToPaddock, paddock!resumeProceedToPaddock,
       paddock!Outside, paddock!Notified, paddock!paddockVars
  <2>2. CASE lastSpectatorHasNotArrivedOnPaddock /\ paddock!Wait(h, "proceedToPaddock")
    <3>1. /\ paddockCall'[h] = "proceedToPaddock"
          /\ paddockWaitSet' = paddockWaitSet \cup {h}
          /\ \A t \in paddockWaitSet : paddockCall'[t] = paddockCall[t]
      BY <2>1, <2>2 DEF paddock!Wait
    <3>2. ASSUME NEW t \in paddockWaitSet'
          PROVE  paddock!MustWait(t)'
      <4>1. CASE t = h
        BY <2>1, <2>2, <3>1, <4>1
      <4>2. CASE t # h
        <5>1. t \in paddockWaitSet /\ paddockCall'[t] = paddockCall[t] /\ paddock!MustWait(t)
          BY <3>1, <3>2, <4>2
        <5> QED
          BY <2>1, <5>1
      <4> QED
        BY <4>1, <4>2
    <3> QED
      BY <3>1, <3>2
  <2>3. CASE paddock!NotifyAllAndReturn(h)
    BY <2>3 DEF paddock!NotifyAllAndReturn
  <2> QED
    BY <2>1, <2>2, <2>3 DEF paddock!ParadeOrWait
<1>2. CASE HorseLeavesPaddock(h)
  BY <1>2 DEF HorseLeavesPaddock, paddock!proceedToStartLine
<1> QED
  BY <1>1, <1>2

LEMMA SpectatorAtPaddockKeepsSleepers ==
  ASSUME PaddockSleepers, ParadeTypes, NEW s \in Spectators,
         SpectatorIsCounted(s) \/ SpectatorAppraisesHorses(s)
  PROVE  PaddockSleepers'
<1> USE DEF PaddockSleepers, ParadeTypes, PaddockMethods, paddock!None, paddock!Parade,
        paddock!Appraise, paddock!WaitWhile, paddock!NoMissedSignal, paddock!MustWait
<1>1. CASE SpectatorIsCounted(s)
  BY <1>1 DEF SpectatorIsCounted, paddock!countSpectator
<1>2. CASE SpectatorAppraisesHorses(s)
  <2>0. s \notin paddockWaitSet
    BY <1>2 DEF SpectatorAppraisesHorses, paddock!goCheckHorses, paddock!resumeGoCheckHorses,
       paddock!Outside, paddock!Notified
  <2>1. CASE paddock!goCheckHorses(s, isLastSpectator[s])
    BY <2>0, <2>1 DEF paddock!goCheckHorses
  <2>2. CASE paddock!resumeGoCheckHorses(s)
    BY <2>0, <2>2 DEF paddock!resumeGoCheckHorses
  <2> QED
    BY <1>2, <2>1, <2>2 DEF SpectatorAppraisesHorses
<1> QED
  BY <1>1, <1>2

LEMMA PaddockSleepersNext == PaddockSleepers /\ ParadeTypes /\ [Next]_vars => PaddockSleepers'
<1> SUFFICES ASSUME PaddockSleepers, ParadeTypes, [Next]_vars PROVE PaddockSleepers'
  OBVIOUS
<1>1. CASE UNCHANGED paddockVars
  BY <1>1 DEF paddockVars, PaddockSleepers, paddock!NoMissedSignal, paddock!MustWait
<1>2. CASE BrokerNext
  BY <1>1, <1>2 DEF BrokerNext, BrokerSummonsHorses, BrokerAnnouncesRace, BrokerAcceptsBets,
     BrokerStartsRace, BrokerSupervisesRace, BrokerReportsResults, BrokerLooksForWinners,
     BrokerHonoursBets, BrokerSetsRace, BrokerEntertainsGuests, InStable, InControlCentre,
     InRacingTrack, InBettingCentre, InNoRegion
<1>3. ASSUME NEW s \in Spectators, SpectatorNext(s)
      PROVE  PaddockSleepers'
  BY <1>1, <1>3, SpectatorAtPaddockKeepsSleepers DEF SpectatorNext, SpectatorWaitsForRace,
     LastSpectatorTellsBroker, SpectatorPlacesBet, SpectatorWatchesRace, SpectatorAsksResult,
     SpectatorCollectsGains, SpectatorRelaxes, InControlCentre, InBettingCentre, InNoRegion,
     InStable
<1>4. ASSUME NEW h \in HorseJockeys, HorseNext(h)
      PROVE  PaddockSleepers'
  BY <1>1, <1>4, HorseAtPaddockKeepsSleepers DEF HorseNext, HorseSetsAbility,
     HorseArrivesAtStable, HorseLeavesForPaddock, HorseLinesUp, HorseChecksFinishLine,
     HorseMoves, HorseFinishes, HorseGoesToRest, InStable, InControlCentre, InRacingTrack,
     InBettingCentre
<1>5. CASE LauncherNext
  BY <1>1, <1>5 DEF LauncherNext, LaunchNextBatch, LaunchHorse, InNoRegion, InStable
<1>6. CASE UNCHANGED vars
  BY <1>1, <1>6 DEF vars
<1> QED
  BY <1>2, <1>3, <1>4, <1>5, <1>6 DEF Next

(* The racing track.                                                       *)

(* A horse that joins the queue leaves its head in place, and the queue    *)
(* empties only with a move, which notifies everybody.                     *)
TrackSleepers ==
  /\ horsesToRun \in Seq(HorseJockeys)
  /\ trackWaitSet \subseteq HorseJockeys
  /\ racingTrack!NoMissedSignal

LEMMA TrackSleepersInit == Init => TrackSleepers
BY EmptySeq DEF Init, racingTrack!Init, racingTrack!NoMissedSignal, TrackSleepers

LEMMA HorseLinesUpKeepsSleepers ==
  ASSUME TrackSleepers, BatchTypes, NEW h \in HorseJockeys, HorseLinesUp(h)
  PROVE  TrackSleepers'
<1> USE DEF TrackSleepers, BatchTypes, TrackMethods, racingTrack!None, racingTrack!StartLine,
        racingTrack!Move, racingTrack!WaitWhile, racingTrack!NoMissedSignal,
        racingTrack!MustWait
<1>0. h \notin trackWaitSet
  BY DEF HorseLinesUp, racingTrack!proceedToStartLine, racingTrack!resumeProceedToStartLine,
     racingTrack!Outside, racingTrack!Notified
<1>1. CASE racingTrack!proceedToStartLine(h)
  <2>1. /\ horsesToRun' \in Seq(HorseJockeys)
        /\ horsesToRun' # <<>>
        /\ horsesToRun # <<>> => Head(horsesToRun') = Head(horsesToRun)
    BY <1>1 DEF racingTrack!proceedToStartLine
  <2> QED
    BY <1>0, <1>1, <2>1 DEF racingTrack!proceedToStartLine
<1>2. CASE racingTrack!resumeProceedToStartLine(h)
  BY <1>0, <1>2 DEF racingTrack!resumeProceedToStartLine, racingTrack!runVars
<1> QED
  BY <1>1, <1>2 DEF HorseLinesUp

LEMMA HorseMovesKeepsSleepers ==
  ASSUME TrackSleepers, BatchTypes, NEW h \in HorseJockeys, HorseMoves(h)
  PROVE  TrackSleepers'
<1> USE DEF TrackSleepers, BatchTypes, TrackMethods, racingTrack!None, racingTrack!StartLine,
        racingTrack!Move, racingTrack!NoReply, racingTrack!NoMissedSignal,
        racingTrack!MustWait, racingTrack!runVars
<1>0. /\ racingTrack!MoveOrWait(h, horseAbility[h]) /\ h \notin trackWaitSet
      /\ UNCHANGED brokerDidNotOrderToStartTheRace
  BY DEF HorseMoves, racingTrack!makeAMove, racingTrack!resumeMakeAMove, racingTrack!Outside,
     racingTrack!Notified
<1>1. CASE /\ trackCall' = [trackCall EXCEPT ![h] = "failed"]
           /\ UNCHANGED <<trackWaitSet, horsesToRun>>
  BY <1>0, <1>1
<1>2. CASE /\ horsesToRun # <<>> /\ Head(horsesToRun) # h
           /\ racingTrack!Wait(h, "makeAMove")
           /\ UNCHANGED horsesToRun
  BY <1>0, <1>2 DEF racingTrack!Wait, racingTrack!WaitWhile
<1>3. CASE /\ horsesToRun # <<>>
           /\ \E steps : racingTrack!Advance(h, steps)
           /\ racingTrack!NotifyAllAndReturn(h)
  <2>1. trackWaitSet' = {}
    BY <1>3 DEF racingTrack!NotifyAllAndReturn, racingTrack!WaitWhile
  <2>2. horsesToRun' = Tail(horsesToRun) \/ horsesToRun' = Append(Tail(horsesToRun), h)
    BY <1>3 DEF racingTrack!Advance, racingTrack!QueueAfter
  <2>3. Tail(horsesToRun) \in Seq(HorseJockeys)
    BY <1>3
  <2>4. Append(Tail(horsesToRun), h) \in Seq(HorseJockeys)
    BY <2>3, AppendProperties
  <2>5. horsesToRun' \in Seq(HorseJockeys)
    BY <2>2, <2>3, <2>4
  <2> QED
    BY <2>1, <2>5
<1> QED
  BY <1>0, <1>1, <1>2, <1>3 DEF racingTrack!MoveOrWait

LEMMA TrackSleepersNext == TrackSleepers /\ BatchTypes /\ [Next]_vars => TrackSleepers'
<1> SUFFICES ASSUME TrackSleepers, BatchTypes, [Next]_vars PROVE TrackSleepers'
  OBVIOUS
<1>1. CASE UNCHANGED <<horsesToRun, brokerDidNotOrderToStartTheRace, trackCall, trackWaitSet>>
  BY <1>1 DEF TrackSleepers, racingTrack!NoMissedSignal, racingTrack!MustWait
<1>0. CASE UNCHANGED trackVars
  BY <1>0, <1>1 DEF trackVars
<1>2. CASE BrokerNext
  <2>1. CASE BrokerStartsRace
    BY <2>1 DEF BrokerStartsRace, racingTrack!startTheRace, racingTrack!runVars, TrackSleepers,
       racingTrack!NoMissedSignal
  <2>2. CASE BrokerSetsRace
    BY <1>1, <2>2 DEF BrokerSetsRace, racingTrack!setRace, racingTrack!runVars
  <2> QED
    BY <1>0, <1>2, <2>1, <2>2 DEF BrokerNext, BrokerSummonsHorses, BrokerAnnouncesRace,
       BrokerAcceptsBets, BrokerSupervisesRace, BrokerReportsResults, BrokerLooksForWinners,
       BrokerHonoursBets, BrokerEntertainsGuests, InStable, InControlCentre,
       InBettingCentre, InNoRegion
<1>3. ASSUME NEW s \in Spectators, SpectatorNext(s)
      PROVE  TrackSleepers'
  BY <1>0, <1>3, SpectatorsKeepStart
<1>4. ASSUME NEW h \in HorseJockeys, HorseNext(h)
      PROVE  TrackSleepers'
  <2>1. CASE HorseChecksFinishLine(h)
    BY <2>1 DEF HorseChecksFinishLine, racingTrack!hasFinishLineBeenCrossed,
       racingTrack!runVars, TrackSleepers, racingTrack!NoMissedSignal, racingTrack!MustWait
  <2> QED
    BY <1>0, <1>4, <2>1, HorseLinesUpKeepsSleepers, HorseMovesKeepsSleepers DEF HorseNext,
       HorseSetsAbility, HorseArrivesAtStable, HorseLeavesForPaddock, HorseParades,
       HorseLeavesPaddock, HorseFinishes, HorseGoesToRest, InStable, InControlCentre, InPaddock,
       InBettingCentre
<1>5. CASE LauncherNext
  BY <1>0, <1>5 DEF LauncherNext, LaunchNextBatch, LaunchHorse, InNoRegion, InStable
<1>6. CASE UNCHANGED vars
  BY <1>0, <1>6 DEF vars
<1> QED
  BY <1>2, <1>3, <1>4, <1>5, <1>6 DEF Next

(* The betting centre.                                                     *)

BettingSleepers ==
  /\ bettingWaitSet \subseteq Spectators \cup {Broker}
  /\ bettingCentre!NoMissedSignal

LEMMA BettingSleepersInit == Init => BettingSleepers
BY DEF Init, bettingCentre!Init, bettingCentre!NoMissedSignal, BettingSleepers

(* A method that leaves the queue and the flags alone, or only holds       *)
(* somebody back, concerns its own thread.                                 *)
LEMMA OthersSleepOnAtBetting ==
  ASSUME BettingSleepers, BetTypes, NEW t \in Spectators \cup {Broker},
         NEW condition \in BOOLEAN, NEW method,
         bettingCentre!WaitWhile(condition, t, method, bettingWaitSet),
         t \notin bettingWaitSet,
         condition => bettingCentre!MustWait(t)',
         UNCHANGED <<bettingQueue, brokerHaveNotAcceptedTheBet,
                     winnersMustNotReceiveTheirMoney>>,
         allWinnersAreNotOnBettingCentre => allWinnersAreNotOnBettingCentre',
         brokerDoesNotAllowToProceedToHaveIWon => brokerDoesNotAllowToProceedToHaveIWon'
  PROVE  BettingSleepers'
<1> USE DEF BettingSleepers, bettingCentre!WaitWhile
<1>1. bettingWaitSet' \subseteq Spectators \cup {Broker}
  OBVIOUS
<1>2. ASSUME NEW u \in bettingWaitSet'
      PROVE  bettingCentre!MustWait(u)'
  <2>1. CASE u = t
    BY <1>2, <2>1
  <2>2. CASE u # t
    <3>1. u \in bettingWaitSet /\ bettingCall'[u] = bettingCall[u]
      BY <1>2, <2>2 DEF BetTypes
    <3>2. bettingCentre!MustWait(u)
      BY <3>1 DEF bettingCentre!NoMissedSignal
    <3> QED
      BY <3>1, <3>2 DEF bettingCentre!MustWait, bettingCentre!AllHaveBet
  <2> QED
    BY <2>1, <2>2
<1> QED
  BY <1>1, <1>2 DEF bettingCentre!NoMissedSignal

LEMMA BrokerAcceptsBetsKeepsSleepers ==
  ASSUME BettingSleepers, BetTypes, BrokerAcceptsBets
  PROVE  BettingSleepers'
<1> USE DEF bettingCentre!None, bettingCentre!Accept, bettingCentre!NoReply,
        bettingCentre!betVars, bettingCentre!payVars, bettingCentre!resultVars
<1>0. Broker \notin bettingWaitSet
  BY DEF BrokerAcceptsBets, bettingCentre!acceptTheBets, bettingCentre!acceptTheBetsFails,
     bettingCentre!resumeAcceptTheBets, bettingCentre!Outside, bettingCentre!Notified,
     BettingSleepers, bettingCentre!NoMissedSignal, bettingCentre!MustWait,
     bettingCentre!Honour, bettingCentre!Place, bettingCentre!AskResult, bettingCentre!Collect
<1>1. CASE bettingCentre!acceptTheBetsFails
  BY <1>0, <1>1 DEF bettingCentre!acceptTheBetsFails, BettingSleepers, BetTypes,
     bettingCentre!NoMissedSignal, bettingCentre!MustWait, bettingCentre!AllHaveBet
<1>2. CASE bettingCentre!acceptTheBets \/ bettingCentre!resumeAcceptTheBets
  <2>1. /\ bettingCentre!AcceptOrWait
        /\ UNCHANGED winnersMustNotReceiveTheirMoney
        /\ allWinnersAreNotOnBettingCentre => allWinnersAreNotOnBettingCentre'
        /\ brokerDoesNotAllowToProceedToHaveIWon => brokerDoesNotAllowToProceedToHaveIWon'
    BY <1>2 DEF bettingCentre!acceptTheBets, bettingCentre!resumeAcceptTheBets
  <2>2. CASE /\ ~bettingCentre!AllHaveBet
             /\ bettingCentre!Wait(Broker, "acceptTheBets")
             /\ UNCHANGED <<bettingQueue, brokerHaveNotAcceptedTheBet>>
    <3>1. bettingCentre!WaitWhile(TRUE, Broker, "acceptTheBets", bettingWaitSet)
      BY <2>2 DEF bettingCentre!Wait
    <3>2. bettingCentre!MustWait(Broker)'
      BY <2>2, <3>1 DEF bettingCentre!MustWait, bettingCentre!AllHaveBet,
         bettingCentre!WaitWhile, BetTypes
    <3> QED
      BY <1>0, <2>1, <2>2, <3>1, <3>2, OthersSleepOnAtBetting
  <2>3. CASE bettingCentre!NotifyAllAndReturn(Broker)
    BY <2>3 DEF bettingCentre!NotifyAllAndReturn, bettingCentre!WaitWhile, BettingSleepers,
       bettingCentre!NoMissedSignal
  <2> QED
    BY <2>1, <2>2, <2>3 DEF bettingCentre!AcceptOrWait
<1> QED
  BY <1>1, <1>2 DEF BrokerAcceptsBets

LEMMA BrokerSettlesBetsKeepsSleepers ==
  ASSUME BettingSleepers, BetTypes, BrokerLooksForWinners \/ BrokerHonoursBets
  PROVE  BettingSleepers'
<1> USE DEF bettingCentre!None, bettingCentre!Honour,
        bettingCentre!betVars, bettingCentre!payVars, bettingCentre!resultVars
<1>1. CASE bettingCentre!NotifyAllAndReturn(Broker)
  BY <1>1 DEF bettingCentre!NotifyAllAndReturn, bettingCentre!WaitWhile, BettingSleepers,
     bettingCentre!NoMissedSignal
<1>2. CASE BrokerLooksForWinners
  BY <1>1, <1>2 DEF BrokerLooksForWinners, bettingCentre!areThereAnyWinners
<1>3. CASE BrokerHonoursBets
  <2>0. Broker \notin bettingWaitSet /\ bettingCentre!HonourOrWait
    BY <1>3 DEF BrokerHonoursBets, bettingCentre!honourTheBets,
       bettingCentre!resumeHonourTheBets, bettingCentre!Outside, bettingCentre!Notified,
       BettingSleepers, bettingCentre!NoMissedSignal, bettingCentre!MustWait,
       bettingCentre!Accept, bettingCentre!Place, bettingCentre!AskResult, bettingCentre!Collect
  <2>1. CASE /\ allWinnersAreNotOnBettingCentre
             /\ bettingCentre!Wait(Broker, "honourTheBets")
             /\ UNCHANGED <<bettingQueue, brokerHaveNotAcceptedTheBet,
                            winnersMustNotReceiveTheirMoney, allWinnersAreNotOnBettingCentre,
                            brokerDoesNotAllowToProceedToHaveIWon>>
    <3>1. bettingCentre!WaitWhile(TRUE, Broker, "honourTheBets", bettingWaitSet)
      BY <2>1 DEF bettingCentre!Wait
    <3>2. bettingCentre!MustWait(Broker)'
      BY <2>1, <3>1 DEF bettingCentre!MustWait, bettingCentre!WaitWhile, BetTypes
    <3> QED
      BY <2>0, <2>1, <3>1, <3>2, OthersSleepOnAtBetting
  <2> QED
    BY <1>1, <2>0, <2>1 DEF bettingCentre!HonourOrWait
<1> QED
  BY <1>2, <1>3

LEMMA SpectatorPlacesBetKeepsSleepers ==
  ASSUME BettingSleepers, BetTypes, NEW s \in Spectators, SpectatorPlacesBet(s)
  PROVE  BettingSleepers'
<1> USE DEF bettingCentre!None, bettingCentre!Place,
        bettingCentre!betVars, bettingCentre!payVars, bettingCentre!resultVars
<1>1. CASE \E amount, horse : bettingCentre!placeABet(s, amount, horse)
  BY <1>1 DEF bettingCentre!placeABet, bettingCentre!WaitWhile, BettingSleepers, BetTypes,
     bettingCentre!NoMissedSignal, bettingCentre!MustWait
<1>2. CASE bettingCentre!resumePlaceABet(s)
  <2>1. s \notin bettingWaitSet
    BY <1>2 DEF bettingCentre!resumePlaceABet, bettingCentre!Notified
  <2>2. /\ bettingCentre!WaitWhile(brokerHaveNotAcceptedTheBet, s, "placeABet", bettingWaitSet)
        /\ UNCHANGED <<bettingQueue, brokerHaveNotAcceptedTheBet,
                       winnersMustNotReceiveTheirMoney, allWinnersAreNotOnBettingCentre,
                       brokerDoesNotAllowToProceedToHaveIWon>>
    BY <1>2 DEF bettingCentre!resumePlaceABet
  <2>3. CASE brokerHaveNotAcceptedTheBet
    <3>1. bettingCentre!MustWait(s)'
      BY <2>2, <2>3 DEF bettingCentre!MustWait, bettingCentre!WaitWhile, BetTypes
    <3>2. bettingCentre!WaitWhile(TRUE, s, "placeABet", bettingWaitSet)
      BY <2>2, <2>3 DEF bettingCentre!WaitWhile
    <3> QED
      BY <2>1, <2>2, <3>1, <3>2, OthersSleepOnAtBetting
  <2>4. CASE ~brokerHaveNotAcceptedTheBet
    <3>1. bettingCentre!WaitWhile(FALSE, s, "placeABet", bettingWaitSet)
      BY <2>2, <2>4 DEF bettingCentre!WaitWhile
    <3> QED
      BY <2>1, <2>2, <3>1, OthersSleepOnAtBetting
  <2> QED
    BY <2>3, <2>4
<1> QED
  BY <1>1, <1>2 DEF SpectatorPlacesBet

LEMMA SpectatorAsksResultKeepsSleepers ==
  ASSUME BettingSleepers, BetTypes, NEW s \in Spectators, SpectatorAsksResult(s)
  PROVE  BettingSleepers'
<1> USE DEF bettingCentre!None, bettingCentre!AskResult,
        bettingCentre!betVars, bettingCentre!payVars, bettingCentre!resultVars
<1>1. s \notin bettingWaitSet /\ bettingCentre!AskOrWait(s)
  BY DEF SpectatorAsksResult, bettingCentre!haveIWon, bettingCentre!resumeHaveIWon,
     bettingCentre!Outside, bettingCentre!Notified, BettingSleepers,
     bettingCentre!NoMissedSignal, bettingCentre!MustWait, bettingCentre!Accept,
     bettingCentre!Honour, bettingCentre!Place, bettingCentre!Collect
<1>2. /\ bettingCentre!WaitWhile(brokerDoesNotAllowToProceedToHaveIWon, s, "haveIWon",
                                 bettingWaitSet)
      /\ UNCHANGED <<bettingQueue, brokerHaveNotAcceptedTheBet,
                     winnersMustNotReceiveTheirMoney, allWinnersAreNotOnBettingCentre,
                     brokerDoesNotAllowToProceedToHaveIWon>>
  BY <1>1 DEF bettingCentre!AskOrWait
<1>3. brokerDoesNotAllowToProceedToHaveIWon => bettingCentre!MustWait(s)'
  BY <1>2 DEF bettingCentre!MustWait, bettingCentre!WaitWhile, BetTypes
<1>4. brokerDoesNotAllowToProceedToHaveIWon \in BOOLEAN
  BY DEF BetTypes
<1> QED
  BY <1>1, <1>2, <1>3, <1>4, OthersSleepOnAtBetting

LEMMA SpectatorCollectsGainsKeepsSleepers ==
  ASSUME BettingSleepers, BetTypes, NEW s \in Spectators, SpectatorCollectsGains(s)
  PROVE  BettingSleepers'
<1> USE DEF bettingCentre!None, bettingCentre!Collect,
        bettingCentre!betVars, bettingCentre!oddsVars, bettingCentre!payVars,
        bettingCentre!resultVars
<1> DEFINE isLast == winnersArrived + 1 = Cardinality(winners)
           Leaves(condition) ==
             \/ bettingCentre!WaitWhile(condition, s, "goCollectTheGains", {})
             \/ /\ bettingCentre!WaitWhile(condition, s, "goCollectTheGains", bettingWaitSet)
                /\ allWinnersAreNotOnBettingCentre => allWinnersAreNotOnBettingCentre'
<1>1. s \notin bettingWaitSet
  BY DEF SpectatorCollectsGains, bettingCentre!goCollectTheGains,
     bettingCentre!resumeGoCollectTheGains, bettingCentre!Outside, bettingCentre!Notified,
     BettingSleepers, bettingCentre!NoMissedSignal, bettingCentre!MustWait,
     bettingCentre!Accept, bettingCentre!Honour, bettingCentre!Place, bettingCentre!AskResult
<1>2. /\ UNCHANGED <<bettingQueue, brokerHaveNotAcceptedTheBet,
                     winnersMustNotReceiveTheirMoney, brokerDoesNotAllowToProceedToHaveIWon>>
      /\ winnersMustNotReceiveTheirMoney => Leaves(TRUE)
      /\ ~winnersMustNotReceiveTheirMoney => Leaves(FALSE)
  <2>1. CASE bettingCentre!goCollectTheGains(s) /\ bettingCentre!Cardinality(winners) = winnersArrived + 1
    BY <2>1 DEF bettingCentre!goCollectTheGains, bettingCentre!WaitWhile
  <2>2. CASE bettingCentre!goCollectTheGains(s) /\ bettingCentre!Cardinality(winners) # winnersArrived + 1
    BY <2>2 DEF bettingCentre!goCollectTheGains, bettingCentre!WaitWhile
  <2>3. CASE bettingCentre!resumeGoCollectTheGains(s)
    BY <2>3 DEF bettingCentre!resumeGoCollectTheGains, bettingCentre!WaitWhile
  <2> QED
    BY <2>1, <2>2, <2>3 DEF SpectatorCollectsGains
<1>3. CASE winnersMustNotReceiveTheirMoney
  <2>1. bettingCall'[s] = "goCollectTheGains"
    BY <1>2, <1>3 DEF bettingCentre!WaitWhile, BetTypes
  <2>2. bettingCentre!MustWait(s)'
    BY <1>2, <1>3, <2>1 DEF bettingCentre!MustWait
  <2>3. CASE bettingCentre!WaitWhile(TRUE, s, "goCollectTheGains", {})
    BY <2>2, <2>3 DEF bettingCentre!WaitWhile, BettingSleepers, bettingCentre!NoMissedSignal
  <2> QED
    BY <1>1, <1>2, <1>3, <2>2, <2>3, OthersSleepOnAtBetting
<1>4. CASE ~winnersMustNotReceiveTheirMoney
  <2>1. CASE bettingCentre!WaitWhile(FALSE, s, "goCollectTheGains", {})
    BY <2>1 DEF bettingCentre!WaitWhile, BettingSleepers, bettingCentre!NoMissedSignal
  <2> QED
    BY <1>1, <1>2, <1>4, <2>1, OthersSleepOnAtBetting
<1> QED
  BY <1>3, <1>4

LEMMA BettingSleepersNext == BettingSleepers /\ BetTypes /\ [Next]_vars => BettingSleepers'
<1> SUFFICES ASSUME BettingSleepers, BetTypes, [Next]_vars PROVE BettingSleepers'
  OBVIOUS
<1>1. CASE UNCHANGED <<bettingQueue, brokerHaveNotAcceptedTheBet,
                       winnersMustNotReceiveTheirMoney, allWinnersAreNotOnBettingCentre,
                       brokerDoesNotAllowToProceedToHaveIWon, bettingCall, bettingWaitSet>>
  BY <1>1 DEF BettingSleepers, bettingCentre!NoMissedSignal, bettingCentre!MustWait,
     bettingCentre!AllHaveBet
<1>0. CASE UNCHANGED bettingVars
  BY <1>0, <1>1 DEF bettingVars
<1>2. CASE BrokerNext
  BY <1>0, <1>2, BrokerAcceptsBetsKeepsSleepers, BrokerSettlesBetsKeepsSleepers DEF BrokerNext,
     BrokerSummonsHorses, BrokerAnnouncesRace, BrokerStartsRace, BrokerSupervisesRace,
     BrokerReportsResults, BrokerSetsRace, BrokerEntertainsGuests, InStable, InControlCentre,
     InRacingTrack, InNoRegion
<1>3. ASSUME NEW s \in Spectators, SpectatorNext(s)
      PROVE  BettingSleepers'
  BY <1>0, <1>3, SpectatorPlacesBetKeepsSleepers, SpectatorAsksResultKeepsSleepers,
     SpectatorCollectsGainsKeepsSleepers DEF SpectatorNext, SpectatorWaitsForRace,
     SpectatorIsCounted, LastSpectatorTellsBroker, SpectatorAppraisesHorses,
     SpectatorWatchesRace, SpectatorRelaxes, InControlCentre, InPaddock, InNoRegion, InStable
<1>4. ASSUME NEW h \in HorseJockeys, HorseNext(h)
      PROVE  BettingSleepers'
  <2>1. CASE HorseSetsAbility(h)
    BY <1>1, <2>1 DEF HorseSetsAbility, bettingCentre!setAbility, bettingCentre!betVars,
       bettingCentre!payVars, bettingCentre!resultVars
  <2> QED
    BY <1>0, <1>4, <2>1 DEF HorseNext, HorseArrivesAtStable, HorseLeavesForPaddock,
       HorseParades, HorseLeavesPaddock, HorseLinesUp, HorseChecksFinishLine, HorseMoves,
       HorseFinishes, HorseGoesToRest, InStable, InControlCentre, InPaddock, InRacingTrack
<1>5. CASE LauncherNext
  BY <1>0, <1>5 DEF LauncherNext, LaunchNextBatch, LaunchHorse, InNoRegion, InStable
<1>6. CASE UNCHANGED vars
  BY <1>0, <1>6 DEF vars
<1> QED
  BY <1>2, <1>3, <1>4, <1>5, <1>6 DEF Next

(* No wakeup is lost anywhere in the simulation, whatever its size and the *)
(* delays of its requests: each region's flags are cleared and set again   *)
(* by clients that never meet (waitForTheNextRace, goWatchTheRace,         *)
(* hasFinishLineBeenCrossed, acceptTheBets), and whoever sleeps in wait()  *)
(* still has to.                                                           *)
THEOREM HippodromeNoMissedSignal == Spec => []NoMissedSignal
<1>1. BetsInv => BetTypes
  BY DEF BetsInv
<1>2. StartInv => BatchTypes
  BY DEF StartInv
<1>3. ParadeInv => ParadeTypes
  BY DEF ParadeInv
<1>4. Spec => []StableSleepers
  BY <1>1, StableSleepersInit, StableSleepersNext, BetsAreInOrder, RacesAreInOrder, PTL DEF Spec
<1>5. Spec => []CentreSleepers
  BY <1>1, CentreSleepersInit, CentreSleepersNext, BetsAreInOrder, PTL DEF Spec
<1>6. Spec => []PaddockSleepers
  BY <1>3, PaddockSleepersInit, PaddockSleepersNext, ParadeIsInOrder, PTL DEF Spec
<1>7. Spec => []TrackSleepers
  BY <1>2, TrackSleepersInit, TrackSleepersNext, StartsAreInOrder, PTL DEF Spec
<1>8. Spec => []BettingSleepers
  BY <1>1, BettingSleepersInit, BettingSleepersNext, BetsAreInOrder, PTL DEF Spec
<1>9. StableSleepers /\ CentreSleepers /\ PaddockSleepers /\ TrackSleepers /\ BettingSleepers
        => NoMissedSignal
  BY DEF StableSleepers, CentreSleepers, PaddockSleepers, TrackSleepers, BettingSleepers,
     NoMissedSignal
<1> QED
  BY <1>4, <1>5, <1>6, <1>7, <1>8, <1>9, PTL

-----------------------------------------------------------------------------
(* The money.                                                              *)

(* What the spectators and the betting centre know of money.               *)
MoneyTypes ==
  /\ horsesOdds \in [HorseJockeys -> Nat]
  /\ bets \in [Spectators -> [horse : HorseJockeys \cup {NoHorse}, amount : Nat]]
  /\ money \in [Spectators -> Nat]

(* s has money for the bet it has handed in, which is on a horse.          *)
BetIsCovered(s) ==
  /\ spectatorPc[s] = "bettingCentre.placeABet" /\ bettingCall[s] # "none"
       => bets[s].amount <= money[s]
  /\ HasBetFor(s, spectatorRace[s]) => bets[s].horse \in HorseJockeys

MoneyInv == MoneyTypes /\ \A s \in Spectators : BetIsCovered(s)

(* The list of winners is that of the last race decided, for all who are   *)
(* still to settle it.                                                     *)
WinnersInv ==
  \A s \in Spectators :
    spectatorRace[s] < Decided => (s \in winners <=> bets[s].horse = brokerWinner)

-----------------------------------------------------------------------------
(* bet() takes a portion of what the spectator has, rounded down.          *)
LEMMA PortionOfMoney ==
  ASSUME NEW m \in Nat, NEW p \in Portions
  PROVE  (m * p[1]) \div p[2] \in Nat /\ (m * p[1]) \div p[2] <= m
<1> DEFINE a == p[1]
           b == p[2]
<1>1. a \in Nat /\ b \in Nat \ {0} /\ a <= b
  BY HippodromeAssumption DEF HippodromeAssumption
<1> HIDE DEF a, b
<1>2. m * a \in Nat /\ m * b \in Nat /\ m * a <= m * b
  BY <1>1
<1>3. ASSUME NEW x \in Nat, NEW y \in Nat \ {0}
      PROVE  x \div y \in Nat /\ y * (x \div y) <= x
  OBVIOUS
<1>4. (m * a) \div b \in Nat /\ b * ((m * a) \div b) <= m * a
  BY <1>1, <1>2, <1>3
<1> DEFINE q == (m * a) \div b
<1>5. q \in Nat /\ b * q <= m * b
  BY <1>1, <1>2, <1>4
<1> HIDE DEF q
<1>6. q <= m
  <2> SUFFICES ASSUME q >= m + 1 PROVE FALSE
    BY <1>5
  <2>1. b * q >= b * (m + 1)
    BY <1>1, <1>5
  <2>2. b * (m + 1) = m * b + b
    BY <1>1
  <2> QED
    BY <1>1, <1>2, <1>5, <2>1, <2>2
<1> QED
  BY <1>5, <1>6 DEF q, a, b

LEMMA MoneyInit == Init => MoneyInv /\ WinnersInv
<1> SUFFICES ASSUME Init PROVE MoneyInv /\ WinnersInv
  OBVIOUS
<1> USE DEF Init, bettingCentre!Init, bettingCentre!NoBet
<1>1. InitialMoney \subseteq Nat
  BY HippodromeAssumption DEF HippodromeAssumption
<1>2. MoneyTypes
  BY <1>1 DEF MoneyTypes
<1>3. ASSUME NEW s \in Spectators
      PROVE  /\ spectatorPc[s] = "controlCentre.waitForTheNextRace"
             /\ spectatorRace[s] = 0 /\ Decided = 0
  BY DEF Decided, AfterReport
<1>4. ASSUME NEW s \in Spectators PROVE BetIsCovered(s)
  BY <1>3 DEF BetIsCovered, HasBetFor
<1>5. WinnersInv
  BY <1>3 DEF WinnersInv
<1> QED
  BY <1>2, <1>4, <1>5 DEF MoneyInv

(* The broker leaves the spectators and their bets alone, and changes the  *)
(* odds when it asks for the bets only.                                    *)
LEMMA BrokerLeavesBets ==
  ASSUME BetTypes, BrokerNext
  PROVE  /\ UNCHANGED <<spectatorPc, spectatorRace, money, bets>>
         /\ \A s \in Spectators : bettingCall'[s] = bettingCall[s]
         /\ UNCHANGED horsesOdds \/ BrokerAcceptsBets
         /\ UNCHANGED winners \/ BrokerLooksForWinners
         /\ UNCHANGED brokerWinner \/ BrokerReportsResults
<1> USE DEF BrokerReturns, spectatorVars
<1>1. CASE BrokerAcceptsBets
  <2>1. \E m : bettingCall' = [bettingCall EXCEPT ![Broker] = m]
    BY <1>1 DEF BrokerAcceptsBets, bettingCentre!acceptTheBets,
       bettingCentre!acceptTheBetsFails, bettingCentre!resumeAcceptTheBets,
       bettingCentre!AcceptOrWait, bettingCentre!Wait, bettingCentre!NotifyAllAndReturn,
       bettingCentre!WaitWhile
  <2>2. \A s \in Spectators : bettingCall'[s] = bettingCall[s]
    BY <2>1, DistinctClients DEF BetTypes
  <2>3. UNCHANGED <<spectatorPc, spectatorRace, money, bets, winners, brokerWinner>>
    BY <1>1 DEF BrokerAcceptsBets, bettingCentre!acceptTheBets,
       bettingCentre!acceptTheBetsFails, bettingCentre!resumeAcceptTheBets,
       bettingCentre!AcceptOrWait, bettingCentre!betVars, bettingCentre!resultVars
  <2> QED
    BY <1>1, <2>2, <2>3
<1>2. CASE BrokerLooksForWinners \/ BrokerHonoursBets
  <2>1. \E m : bettingCall' = [bettingCall EXCEPT ![Broker] = m]
    BY <1>2 DEF BrokerLooksForWinners, BrokerHonoursBets, bettingCentre!areThereAnyWinners,
       bettingCentre!honourTheBets, bettingCentre!resumeHonourTheBets,
       bettingCentre!HonourOrWait, bettingCentre!Wait, bettingCentre!NotifyAllAndReturn,
       bettingCentre!WaitWhile
  <2>2. \A s \in Spectators : bettingCall'[s] = bettingCall[s]
    BY <2>1, DistinctClients DEF BetTypes
  <2>3. /\ UNCHANGED <<spectatorPc, spectatorRace, money, bets, horsesOdds, brokerWinner>>
        /\ UNCHANGED winners \/ BrokerLooksForWinners
    BY <1>2 DEF BrokerLooksForWinners, BrokerHonoursBets, bettingCentre!areThereAnyWinners,
       bettingCentre!honourTheBets, bettingCentre!resumeHonourTheBets,
       bettingCentre!HonourOrWait, bettingCentre!betVars, bettingCentre!oddsVars,
       bettingCentre!resultVars
  <2> QED
    BY <2>2, <2>3
<1>3. CASE ~BrokerAcceptsBets /\ ~BrokerLooksForWinners /\ ~BrokerHonoursBets
  BY <1>3 DEF BrokerNext, BrokerSummonsHorses, BrokerAnnouncesRace, BrokerStartsRace,
     BrokerSupervisesRace, BrokerReportsResults, BrokerSetsRace, BrokerEntertainsGuests,
     InStable, InControlCentre, InRacingTrack, InNoRegion, bettingVars
<1> QED
  BY <1>1, <1>2, <1>3

(* A spectator that is neither betting nor after results or gains leaves   *)
(* the bets alone, and its bet stays handed in.                            *)
LEMMA SpectatorRacesOn ==
  ASSUME BetsInv, NEW s \in Spectators, SpectatorNext(s),
         ~SpectatorPlacesBet(s), ~SpectatorAsksResult(s), ~SpectatorCollectsGains(s)
  PROVE  /\ UNCHANGED <<spectatorRace, money, bettingVars, brokerVars>>
         /\ \A t \in Spectators \ {s} : spectatorPc'[t] = spectatorPc[t]
         /\ bettingCall[s] = "none"
         /\ spectatorPc'[s] # "bettingCentre.goCollectTheGains"
         /\ \A t \in Spectators : \A r : HasBetFor(t, r)' <=> HasBetFor(t, r)
<1> USE DEF SpectatorReturns
<1>1. UNCHANGED <<spectatorRace, money, bettingVars, brokerVars>>
  BY DEF SpectatorNext, SpectatorWaitsForRace, SpectatorIsCounted, LastSpectatorTellsBroker,
     SpectatorAppraisesHorses, SpectatorWatchesRace, SpectatorRelaxes, InControlCentre,
     InPaddock, InNoRegion, InStable
<1> DEFINE After == {"controlCentre.goWatchTheRace", "bettingCentre.haveIWon",
                     "bettingCentre.goCollectTheGains"}
<1>2. \E pc : /\ spectatorPc' = [spectatorPc EXCEPT ![s] = pc]
              /\ spectatorPc[s] \notin {"bettingCentre.placeABet", "bettingCentre.haveIWon",
                                        "bettingCentre.goCollectTheGains"}
              /\ pc \in After <=> spectatorPc[s] \in After
              /\ pc # "bettingCentre.goCollectTheGains"
  BY DEF SpectatorNext, SpectatorWaitsForRace, SpectatorIsCounted, LastSpectatorTellsBroker,
     SpectatorAppraisesHorses, SpectatorWatchesRace, SpectatorRelaxes
<1>3. PICK pc : /\ spectatorPc' = [spectatorPc EXCEPT ![s] = pc]
                /\ spectatorPc[s] \notin {"bettingCentre.placeABet", "bettingCentre.haveIWon",
                                          "bettingCentre.goCollectTheGains"}
                /\ pc \in After <=> spectatorPc[s] \in After
                /\ pc # "bettingCentre.goCollectTheGains"
  BY <1>2
<1>4. /\ spectatorPc'[s] = pc
      /\ \A t \in Spectators \ {s} : spectatorPc'[t] = spectatorPc[t]
  BY <1>3 DEF BetsInv, BetTypes
<1>5. bettingCall[s] = "none" /\ UNCHANGED bettingCall
  BY <1>1, <1>3 DEF BetsInv, SpectatorInOrder, WaitsWhereItCalled, bettingVars
<1>6. ASSUME NEW t \in Spectators, NEW r PROVE HasBetFor(t, r)' <=> HasBetFor(t, r)
  BY <1>1, <1>3, <1>4, <1>5 DEF HasBetFor
<1> QED
  BY <1>1, <1>3, <1>4, <1>5, <1>6

LEMMA QuotientIsNat ==
  ASSUME NEW m \in Nat, NEW n \in Nat \ {0} PROVE m \div n \in Nat
OBVIOUS

(* The sum of the abilities, divided by that of each horse.                *)
LEMMA OddsAreNumbers ==
  ASSUME horsesAbilities \in [HorseJockeys -> Nat \ {0}],
         bettingCentre!evaluateOdds(HorseJockeys)
  PROVE  horsesOdds' \in [HorseJockeys -> Nat]
<1>1. IsFiniteSet(HorseJockeys) /\ horsesAbilities \in [HorseJockeys -> Nat]
  BY ConfigurationAssumption DEF ConfigurationAssumption
<1>2. FoldFunction(+, 0, horsesAbilities) \in Nat
  BY <1>1, SumIsNat
<1>3. bettingCentre!FoldFunction(+, 0, horsesAbilities) = FoldFunction(+, 0, horsesAbilities)
  BY DEF bettingCentre!FoldFunction, FoldFunction, bettingCentre!FoldFunctionOnSet,
     FoldFunctionOnSet, bettingCentre!MapThenFoldSet, MapThenFoldSet
<1>4. \A h \in HorseJockeys :
        FoldFunction(+, 0, horsesAbilities) \div horsesAbilities[h] \in Nat
  BY <1>2, QuotientIsNat
<1> QED
  BY <1>3, <1>4 DEF bettingCentre!evaluateOdds

LEMMA BetStaysCovered ==
  ASSUME NEW s \in Spectators, BetIsCovered(s),
         bets'[s] = bets[s], money'[s] = money[s], spectatorPc'[s] = spectatorPc[s],
         spectatorRace'[s] = spectatorRace[s], bettingCall'[s] = bettingCall[s]
  PROVE  BetIsCovered(s)'
BY DEF BetIsCovered, HasBetFor

LEMMA BrokerKeepsMoney ==
  ASSUME MoneyInv, AbilityInv, ParadeInv, BetsInv, StartInv, BrokerNext
  PROVE  MoneyInv'
<1>1. /\ UNCHANGED <<spectatorPc, spectatorRace, money, bets>>
      /\ \A s \in Spectators : bettingCall'[s] = bettingCall[s]
      /\ UNCHANGED horsesOdds \/ BrokerAcceptsBets
  BY BrokerLeavesBets DEF BetsInv
<1>2. horsesOdds' \in [HorseJockeys -> Nat]
  <2>1. CASE UNCHANGED horsesOdds
    BY <2>1 DEF MoneyInv, MoneyTypes
  <2>2. CASE BrokerAcceptsBets
    <3>1. /\ horsesAbilities \in [HorseJockeys -> Nat \ {0}]
          /\ bettingCentre!AbilitiesKnown
      <4>1. brokerPc = "bettingCentre.acceptTheBets"
        BY <2>2 DEF BrokerAcceptsBets, BrokerReturns
      <4>2. \A h \in HorseJockeys : horsesAbilities[h] \in Nat \ {0}
        BY <4>1, AbilitiesAreThoseOfTheRunners
      <4> QED
        BY <4>2 DEF AbilityInv, bettingCentre!AbilitiesKnown, bettingCentre!WithAbility
    <3>2. UNCHANGED horsesOdds \/ bettingCentre!evaluateOdds(HorseJockeys)
      BY <2>2, <3>1 DEF BrokerAcceptsBets, bettingCentre!acceptTheBets,
         bettingCentre!acceptTheBetsFails, bettingCentre!resumeAcceptTheBets,
         bettingCentre!oddsVars
    <3> QED
      BY <2>1, <3>1, <3>2, OddsAreNumbers
  <2> QED
    BY <1>1, <2>1, <2>2
<1>3. \A s \in Spectators : BetIsCovered(s)'
  BY <1>1, BetStaysCovered DEF MoneyInv
<1> QED
  BY <1>1, <1>2, <1>3 DEF MoneyInv, MoneyTypes

(* A bet of s changes what s has and has bet, and nothing of the others.   *)
LEMMA BetIsRecorded ==
  ASSUME MoneyInv, BetsInv, NEW s \in Spectators, SpectatorPlacesBet(s), bettingCall[s] = "none"
  PROVE  \E amount \in 0 .. money[s], horse \in HorseJockeys :
           /\ bets' = [bets EXCEPT ![s] = [horse |-> horse, amount |-> amount]]
           /\ \/ /\ bettingCall'[s] = "none"
                 /\ spectatorPc'[s] = "controlCentre.goWatchTheRace"
                 /\ money' = [money EXCEPT ![s] = @ - amount]
              \/ /\ bettingCall'[s] = "placeABet"
                 /\ spectatorPc'[s] = "bettingCentre.placeABet"
                 /\ UNCHANGED money
<1>1. PICK amount \in BetsOf(s), horse \in HorseJockeys :
        bettingCentre!placeABet(s, amount, horse)
  BY DEF SpectatorPlacesBet, bettingCentre!resumePlaceABet, bettingCentre!Notified,
     bettingCentre!Place
<1>2. /\ money[s] \in Nat
      /\ bets \in [Spectators -> [horse : HorseJockeys \cup {NoHorse}, amount : Nat]]
  BY DEF MoneyInv, MoneyTypes
<1>3. amount \in 0 .. money[s]
  <2>1. PICK p \in Portions : amount = (money[s] * p[1]) \div p[2]
    BY DEF BetsOf
  <2> QED
    BY <1>2, <2>1, PortionOfMoney
<1>4. bets' = [bets EXCEPT ![s] = [horse |-> horse, amount |-> amount]]
  BY <1>1 DEF bettingCentre!placeABet
<1>5. bets'[s].amount = amount
  BY <1>2, <1>4
<1>6. \E m \in {"none", "placeABet"} : bettingCall' = [bettingCall EXCEPT ![s] = m]
  BY <1>1 DEF bettingCentre!placeABet, bettingCentre!WaitWhile, bettingCentre!None,
     bettingCentre!Place
<1>7. bettingCall'[s] \in {"none", "placeABet"}
  BY <1>6 DEF BetsInv, BetTypes
<1>8. /\ spectatorPc'[s] = IF bettingCall'[s] = "none" THEN "controlCentre.goWatchTheRace"
                           ELSE "bettingCentre.placeABet"
      /\ money' = IF bettingCall'[s] = "none" THEN [money EXCEPT ![s] = @ - bets'[s].amount]
                  ELSE money
  BY DEF SpectatorPlacesBet, SpectatorReturns, BettingCentreAnswers, BetsInv, BetTypes
<1> QED
  BY <1>3, <1>4, <1>5, <1>7, <1>8

(* haveIWon lets s go when there is a result: a winner to the gains, any   *)
(* other spectator to the end of its race.                                 *)
LEMMA ResultIsTold ==
  ASSUME BetsInv, NEW s \in Spectators, SpectatorAsksResult(s)
  PROVE  /\ spectatorPc[s] = "bettingCentre.haveIWon"
         /\ UNCHANGED <<bets, money>>
         /\ \/ /\ bettingCall'[s] = "haveIWon"
               /\ spectatorPc'[s] = "bettingCentre.haveIWon"
               /\ UNCHANGED spectatorRace
            \/ /\ bettingCall'[s] = "none" /\ s \in winners
               /\ spectatorPc'[s] = "bettingCentre.goCollectTheGains"
               /\ UNCHANGED spectatorRace
            \/ /\ bettingCall'[s] = "none" /\ s \notin winners
               /\ spectatorPc'[s] = AfterTheRace(s)
               /\ spectatorRace' = [spectatorRace EXCEPT ![s] = @ + 1]
               /\ ~brokerDoesNotAllowToProceedToHaveIWon
<1>1. /\ UNCHANGED bets
      /\ bettingCall' = [bettingCall EXCEPT ![s] = IF brokerDoesNotAllowToProceedToHaveIWon
                                                   THEN "haveIWon" ELSE "none"]
  BY DEF SpectatorAsksResult, bettingCentre!haveIWon, bettingCentre!resumeHaveIWon,
     bettingCentre!AskOrWait, bettingCentre!WaitWhile, bettingCentre!None,
     bettingCentre!AskResult, bettingCentre!betVars
<1>2. bettingCall'[s] = IF brokerDoesNotAllowToProceedToHaveIWon THEN "haveIWon" ELSE "none"
  BY <1>1 DEF BetsInv, BetTypes
<1>3. /\ spectatorPc[s] = "bettingCentre.haveIWon" /\ UNCHANGED money
      /\ spectatorPc'[s] = IF bettingCall'[s] = "none"
                           THEN IF s \in winners THEN "bettingCentre.goCollectTheGains"
                                ELSE AfterTheRace(s)
                           ELSE "bettingCentre.haveIWon"
      /\ spectatorRace' = IF bettingCall'[s] = "none" /\ s \notin winners
                          THEN [spectatorRace EXCEPT ![s] = @ + 1] ELSE spectatorRace
  BY DEF SpectatorAsksResult, SpectatorReturns, BettingCentreAnswers, GoToNextRace, HasWon,
     bettingCentre!Won, BetsInv, BetTypes
<1> QED
  BY <1>1, <1>2, <1>3

LEMMA GainsArePaid ==
  ASSUME BetsInv, NEW s \in Spectators, SpectatorCollectsGains(s)
  PROVE  /\ spectatorPc[s] = "bettingCentre.goCollectTheGains"
         /\ UNCHANGED bets
         /\ \/ /\ bettingCall'[s] = "goCollectTheGains"
               /\ spectatorPc'[s] = "bettingCentre.goCollectTheGains"
               /\ UNCHANGED <<spectatorRace, money>>
            \/ /\ bettingCall'[s] = "none"
               /\ spectatorPc'[s] = AfterTheRace(s)
               /\ spectatorRace' = [spectatorRace EXCEPT ![s] = @ + 1]
               /\ money' = [money EXCEPT ![s] = @ + bets[s].amount * horsesOdds[bets[s].horse]]
<1>1. /\ UNCHANGED bets
      /\ bettingCall' = [bettingCall EXCEPT ![s] = IF winnersMustNotReceiveTheirMoney
                                                   THEN "goCollectTheGains" ELSE "none"]
  BY DEF SpectatorCollectsGains, bettingCentre!goCollectTheGains,
     bettingCentre!resumeGoCollectTheGains, bettingCentre!WaitWhile, bettingCentre!None,
     bettingCentre!Collect, bettingCentre!betVars
<1>2. bettingCall'[s] = IF winnersMustNotReceiveTheirMoney THEN "goCollectTheGains" ELSE "none"
  BY <1>1 DEF BetsInv, BetTypes
<1>3. /\ spectatorPc[s] = "bettingCentre.goCollectTheGains"
      /\ spectatorPc'[s] = IF bettingCall'[s] = "none" THEN AfterTheRace(s)
                           ELSE "bettingCentre.goCollectTheGains"
      /\ spectatorRace' = IF bettingCall'[s] = "none"
                          THEN [spectatorRace EXCEPT ![s] = @ + 1] ELSE spectatorRace
      /\ money' = IF bettingCall'[s] = "none"
                  THEN [money EXCEPT ![s] = @ + bettingCentre!Gains(s)] ELSE money
  BY DEF SpectatorCollectsGains, SpectatorReturns, BettingCentreAnswers, GoToNextRace,
     BetsInv, BetTypes
<1> QED
  BY <1>1, <1>2, <1>3 DEF bettingCentre!Gains

(* A spectator keeps its hands off the odds, the results and the affairs   *)
(* of the others.                                                          *)
LEMMA SpectatorLeavesOthers ==
  ASSUME MoneyInv, BetsInv, NEW s \in Spectators, SpectatorNext(s)
  PROVE  /\ UNCHANGED <<horsesOdds, winners, brokerVars>>
         /\ \A t \in Spectators \ {s} :
              /\ bets'[t] = bets[t] /\ money'[t] = money[t]
              /\ spectatorPc'[t] = spectatorPc[t] /\ spectatorRace'[t] = spectatorRace[t]
              /\ bettingCall'[t] = bettingCall[t]
         /\ bettingCall'[Broker] = bettingCall[Broker]
<1> DEFINE Alone ==
             \A t \in Spectators \ {s} :
               /\ bets'[t] = bets[t] /\ money'[t] = money[t]
               /\ spectatorPc'[t] = spectatorPc[t] /\ spectatorRace'[t] = spectatorRace[t]
               /\ bettingCall'[t] = bettingCall[t]
<1>1. /\ spectatorPc \in [Spectators -> SpectatorPcs] /\ spectatorRace \in [Spectators -> Nat]
      /\ bettingCall \in [Spectators \cup {Broker} -> BettingMethods]
      /\ bets \in [Spectators -> [horse : HorseJockeys \cup {NoHorse}, amount : Nat]]
      /\ money \in [Spectators -> Nat]
      /\ Broker # s
  BY DistinctClients DEF BetsInv, BetTypes, MoneyInv, MoneyTypes
<1>2. CASE SpectatorPlacesBet(s)
  <2>1. /\ UNCHANGED <<horsesOdds, winners, brokerVars, spectatorRace>>
        /\ \E m : bettingCall' = [bettingCall EXCEPT ![s] = m]
        /\ UNCHANGED bets \/ \E b : bets' = [bets EXCEPT ![s] = b]
        /\ UNCHANGED money \/ \E b : money' = [money EXCEPT ![s] = b]
        /\ \E pc : spectatorPc' = [spectatorPc EXCEPT ![s] = pc]
    BY <1>2 DEF SpectatorPlacesBet, SpectatorReturns, bettingCentre!placeABet,
       bettingCentre!resumePlaceABet, bettingCentre!WaitWhile, bettingCentre!betVars,
       bettingCentre!oddsVars, bettingCentre!resultVars
  <2> QED
    BY <1>1, <2>1
<1>3. CASE SpectatorAsksResult(s) \/ SpectatorCollectsGains(s)
  <2>1. /\ UNCHANGED <<horsesOdds, winners, brokerVars, bets>>
        /\ \E m : bettingCall' = [bettingCall EXCEPT ![s] = m]
        /\ \E pc : spectatorPc' = [spectatorPc EXCEPT ![s] = pc]
    BY <1>3 DEF SpectatorAsksResult, SpectatorCollectsGains, SpectatorReturns,
       bettingCentre!haveIWon, bettingCentre!resumeHaveIWon, bettingCentre!AskOrWait,
       bettingCentre!goCollectTheGains, bettingCentre!resumeGoCollectTheGains,
       bettingCentre!WaitWhile, bettingCentre!betVars, bettingCentre!oddsVars,
       bettingCentre!resultVars
  <2>2. /\ UNCHANGED money \/ \E b : money' = [money EXCEPT ![s] = b]
        /\ UNCHANGED spectatorRace \/ \E b : spectatorRace' = [spectatorRace EXCEPT ![s] = b]
    BY <1>3, ResultIsTold, GainsArePaid
  <2> QED
    BY <1>1, <2>1, <2>2
<1>4. CASE ~SpectatorPlacesBet(s) /\ ~SpectatorAsksResult(s) /\ ~SpectatorCollectsGains(s)
  BY <1>4, SpectatorRacesOn DEF bettingVars
<1> QED
  BY <1>2, <1>3, <1>4

LEMMA SpectatorKeepsMoney ==
  ASSUME MoneyInv, BetsInv, NEW s \in Spectators, SpectatorNext(s)
  PROVE  MoneyInv'
<1>1. /\ UNCHANGED horsesOdds
      /\ \A t \in Spectators \ {s} : BetIsCovered(t)'
  BY SpectatorLeavesOthers, BetStaysCovered DEF MoneyInv
<1>2. /\ money[s] \in Nat /\ BetIsCovered(s) /\ MoneyTypes
      /\ bets[s] \in [horse : HorseJockeys \cup {NoHorse}, amount : Nat]
      /\ spectatorRace \in [Spectators -> Nat]
  BY DEF MoneyInv, MoneyTypes, BetsInv, BetTypes
<1>3. SUFFICES MoneyTypes' /\ BetIsCovered(s)'
  BY <1>1 DEF MoneyInv
<1>4. CASE SpectatorPlacesBet(s) /\ bettingCall[s] = "none"
  <2>1. PICK amount \in 0 .. money[s], horse \in HorseJockeys :
           /\ bets' = [bets EXCEPT ![s] = [horse |-> horse, amount |-> amount]]
           /\ \/ /\ bettingCall'[s] = "none"
                 /\ spectatorPc'[s] = "controlCentre.goWatchTheRace"
                 /\ money' = [money EXCEPT ![s] = @ - amount]
              \/ /\ bettingCall'[s] = "placeABet"
                 /\ spectatorPc'[s] = "bettingCentre.placeABet"
                 /\ UNCHANGED money
    BY <1>4, BetIsRecorded
  <2>2. amount \in Nat /\ money[s] - amount \in Nat /\ amount <= money[s]
    BY <1>2
  <2>3. bets'[s] = [horse |-> horse, amount |-> amount]
    BY <1>2, <2>1 DEF MoneyTypes
  <2>4. MoneyTypes'
    BY <1>1, <1>2, <2>1, <2>2 DEF MoneyTypes
  <2>5. BetIsCovered(s)'
    BY <2>1, <2>2, <2>3 DEF BetIsCovered
  <2> QED
    BY <2>4, <2>5
<1>5. CASE SpectatorPlacesBet(s) /\ bettingCall[s] # "none"
  <2>1. /\ UNCHANGED <<bets, spectatorRace>>
        /\ spectatorPc[s] = "bettingCentre.placeABet" /\ bets[s].amount <= money[s]
    BY <1>2, <1>5 DEF SpectatorPlacesBet, SpectatorReturns, bettingCentre!placeABet,
       bettingCentre!Outside, bettingCentre!None, bettingCentre!resumePlaceABet,
       bettingCentre!betVars, BetIsCovered
  <2>2. \/ bettingCall'[s] = "none" /\ money' = [money EXCEPT ![s] = @ - bets[s].amount]
           /\ spectatorPc'[s] = "controlCentre.goWatchTheRace"
        \/ bettingCall'[s] # "none" /\ UNCHANGED money
           /\ spectatorPc'[s] = "bettingCentre.placeABet"
    BY <1>5, <2>1 DEF SpectatorPlacesBet, SpectatorReturns, BettingCentreAnswers, BetsInv,
       BetTypes
  <2>3. money[s] - bets[s].amount \in Nat
    BY <1>2, <2>1
  <2>4. MoneyTypes'
    BY <1>1, <1>2, <2>1, <2>2, <2>3 DEF MoneyTypes
  <2>5. bets[s].horse \in HorseJockeys
    BY <1>2, <1>5, <2>1 DEF BetIsCovered, HasBetFor
  <2>6. BetIsCovered(s)'
    BY <2>1, <2>2, <2>5 DEF BetIsCovered
  <2> QED
    BY <2>4, <2>6
<1>6. CASE SpectatorAsksResult(s)
  <2>1. spectatorPc[s] = "bettingCentre.haveIWon" /\ UNCHANGED <<bets, money>>
    BY <1>6, ResultIsTold
  <2>2. MoneyTypes'
    BY <1>1, <1>2, <2>1 DEF MoneyTypes
  <2>3. bets[s].horse \in HorseJockeys
    BY <1>2, <2>1 DEF BetIsCovered, HasBetFor
  <2>4. spectatorPc'[s] # "bettingCentre.placeABet"
    BY <1>6, ResultIsTold DEF AfterTheRace
  <2> QED
    BY <2>1, <2>2, <2>3, <2>4 DEF BetIsCovered
<1>7. CASE SpectatorCollectsGains(s)
  <2>1. spectatorPc[s] = "bettingCentre.goCollectTheGains" /\ UNCHANGED bets
    BY <1>7, GainsArePaid
  <2>2. bets[s].horse \in HorseJockeys
    BY <1>2, <2>1 DEF BetIsCovered, HasBetFor
  <2>3. money[s] + bets[s].amount * horsesOdds[bets[s].horse] \in Nat
    <3>1. horsesOdds[bets[s].horse] \in Nat /\ bets[s].amount \in Nat
      BY <1>2, <2>2 DEF MoneyTypes
    <3> QED
      BY <1>2, <3>1
  <2>4. MoneyTypes'
    BY <1>1, <1>2, <1>7, <2>1, <2>3, GainsArePaid DEF MoneyTypes
  <2>5. spectatorPc'[s] # "bettingCentre.placeABet"
    BY <1>7, GainsArePaid DEF AfterTheRace
  <2> QED
    BY <2>1, <2>2, <2>4, <2>5 DEF BetIsCovered
<1>8. CASE ~SpectatorPlacesBet(s) /\ ~SpectatorAsksResult(s) /\ ~SpectatorCollectsGains(s)
  <2>1. /\ UNCHANGED <<bets, money, spectatorRace, bettingCall>>
        /\ bettingCall[s] = "none"
        /\ HasBetFor(s, spectatorRace[s])' <=> HasBetFor(s, spectatorRace[s])
    BY <1>8, SpectatorRacesOn DEF bettingVars
  <2> QED
    BY <1>1, <1>2, <2>1 DEF MoneyTypes, BetIsCovered
<1> QED
  BY <1>4, <1>5, <1>6, <1>7, <1>8

bookVars == <<betsVars, bets, horsesOdds, winners, brokerWinner, money>>

LEMMA OthersLeaveBooks ==
  ASSUME (\E h \in HorseJockeys : HorseNext(h)) \/ LauncherNext \/ UNCHANGED vars
  PROVE  UNCHANGED bookVars
<1> USE DEF bookVars
<1>1. ASSUME NEW h \in HorseJockeys, HorseNext(h) PROVE UNCHANGED bookVars
  <2>1. UNCHANGED <<brokerWinner, money>>
    BY <1>1 DEF HorseNext, HorseSetsAbility, HorseArrivesAtStable, HorseLeavesForPaddock,
       HorseParades, HorseLeavesPaddock, HorseLinesUp, HorseChecksFinishLine, HorseMoves,
       HorseFinishes, HorseGoesToRest, HorseReturns, brokerVars, spectatorVars
  <2>2. UNCHANGED <<bets, horsesOdds, winners>>
    <3>1. CASE HorseSetsAbility(h)
      BY <3>1 DEF HorseSetsAbility, bettingCentre!setAbility, bettingCentre!betVars,
         bettingCentre!resultVars
    <3> QED
      BY <1>1, <3>1 DEF HorseNext, HorseArrivesAtStable, HorseLeavesForPaddock,
         HorseParades, HorseLeavesPaddock, HorseLinesUp, HorseChecksFinishLine, HorseMoves,
         HorseFinishes, HorseGoesToRest, InStable, InControlCentre, InPaddock, InRacingTrack,
         bettingVars
  <2> QED
    BY <1>1, <2>1, <2>2, HorsesDoNotBet
<1>2. CASE LauncherNext
  BY <1>2, LauncherDoesNotBet DEF LauncherNext, LaunchNextBatch, LaunchHorse, InNoRegion,
     InStable, brokerVars, spectatorVars, bettingVars
<1>3. CASE UNCHANGED vars
  BY <1>3 DEF vars, betsVars, brokerVars, spectatorVars, bettingVars, centreVars
<1> QED
  BY <1>1, <1>2, <1>3

LEMMA MoneyNext ==
  MoneyInv /\ AbilityInv /\ ParadeInv /\ BetsInv /\ StartInv /\ [Next]_vars => MoneyInv'
<1> SUFFICES ASSUME MoneyInv, AbilityInv, ParadeInv, BetsInv, StartInv, [Next]_vars
             PROVE  MoneyInv'
  OBVIOUS
<1>1. CASE BrokerNext
  BY <1>1, BrokerKeepsMoney
<1>2. CASE \E s \in Spectators : SpectatorNext(s)
  BY <1>2, SpectatorKeepsMoney
<1>3. CASE UNCHANGED bookVars
  <2>1. \A s \in Spectators : BetIsCovered(s)'
    BY <1>3, BetStaysCovered DEF MoneyInv, bookVars, betsVars
  <2> QED
    BY <1>3, <2>1 DEF MoneyInv, MoneyTypes, bookVars
<1> QED
  BY <1>1, <1>2, <1>3, OthersLeaveBooks DEF Next

LEMMA MoneyIsCovered == Spec => []MoneyInv
<1>1. Init => MoneyInv
  BY MoneyInit
<1> QED
  BY <1>1, MoneyNext, AbilitiesAreKnown, ParadeIsInOrder, BetsAreInOrder, StartsAreInOrder, PTL
     DEF Spec

(* A spectator that has still to settle the last race decided has bet on   *)
(* it.                                                                     *)
LEMMA SettlesItsBet ==
  ASSUME BetsInv, NEW s \in Spectators, spectatorRace[s] < Decided
  PROVE  HasBetFor(s, spectatorRace[s]) /\ Accepted = Decided /\ spectatorRace[s] = Decided - 1
<1>1. /\ Accepted \in Nat /\ Decided \in Nat /\ Decided <= Accepted /\ Accepted <= Decided + 1
      /\ spectatorRace[s] \in Nat
      /\ Accepted > 0 => HasBetFor(s, Accepted - 1)
  BY BrokerProgress DEF BetsInv, BetTypes, SpectatorInOrder, BetsOnceForARace
<1>2. HasBetFor(s, Accepted - 1)
  BY <1>1
<1>3. spectatorRace[s] >= Accepted - 1
  BY <1>1, <1>2 DEF HasBetFor
<1>4. spectatorRace[s] = Accepted - 1
  BY <1>1, <1>3
<1> QED
  BY <1>1, <1>2, <1>4

LEMMA WinnersNext == WinnersInv /\ MoneyInv /\ BetsInv /\ [Next]_vars => WinnersInv'
<1> SUFFICES ASSUME WinnersInv, MoneyInv, BetsInv, [Next]_vars PROVE WinnersInv'
  OBVIOUS
<1>0. /\ Decided \in Nat /\ Accepted \in Nat /\ Reported \in Nat
      /\ Decided <= Reported /\ Reported <= Accepted
      /\ spectatorRace \in [Spectators -> Nat] /\ brokerRace \in Nat
      /\ \A s \in Spectators : spectatorRace[s] <= Decided
  BY BrokerProgress DEF BetsInv, BetTypes, SpectatorInOrder, FollowsTheBroker
<1>1. CASE BrokerNext
  <2>1. /\ UNCHANGED <<spectatorPc, spectatorRace, bets>>
        /\ UNCHANGED winners \/ BrokerLooksForWinners
        /\ UNCHANGED brokerWinner \/ BrokerReportsResults
    BY <1>1, BrokerLeavesBets DEF BetsInv
  <2>2. CASE BrokerLooksForWinners
    BY <2>1, <2>2 DEF BrokerLooksForWinners, bettingCentre!areThereAnyWinners,
       bettingCentre!BettorsOn, WinnersInv
  <2>3. CASE BrokerReportsResults
    <3>1. Accepted = Decided + 1 /\ Decided' = Decided
      BY <2>3 DEF BrokerReportsResults, BrokerReturns, Accepted, Decided, BeforeAcceptance,
         AfterReport
    <3>2. \A s \in Spectators : ~(spectatorRace[s] < Decided)
      BY <1>0, <3>1, SettlesItsBet
    <3> QED
      BY <2>1, <3>1, <3>2 DEF WinnersInv
  <2>4. CASE ~BrokerLooksForWinners /\ ~BrokerReportsResults
    <3>1. Decided' = Decided
      <4> USE DEF BrokerReturns, Decided, AfterReport
      <4>1. AfterTheBets \in {"racingTrack.setRace", "controlCentre.entertainTheGuests"}
        BY DEF AfterTheBets
      <4>2. CASE BrokerSetsRace
        BY <1>0, <4>2 DEF BrokerSetsRace
      <4>3. CASE BrokerHonoursBets
        BY <4>1, <4>3 DEF BrokerHonoursBets
      <4>4. CASE ~BrokerSetsRace /\ ~BrokerHonoursBets
        BY <1>1, <2>4, <4>4 DEF BrokerNext, BrokerSummonsHorses, BrokerAnnouncesRace,
           BrokerAcceptsBets, BrokerStartsRace, BrokerSupervisesRace, BrokerEntertainsGuests
      <4> QED
        BY <4>2, <4>3, <4>4
    <3> QED
      BY <2>1, <2>4, <3>1 DEF WinnersInv
  <2> QED
    BY <2>2, <2>3, <2>4
<1>2. ASSUME NEW s \in Spectators, SpectatorNext(s) PROVE WinnersInv'
  <2>1. /\ UNCHANGED <<winners, brokerVars>>
        /\ \A t \in Spectators \ {s} : bets'[t] = bets[t] /\ spectatorRace'[t] = spectatorRace[t]
    BY <1>2, SpectatorLeavesOthers
  <2>2. Decided' = Decided
    BY <2>1 DEF Decided, brokerVars
  <2>3. spectatorRace'[s] < Decided => spectatorRace[s] < Decided /\ bets'[s] = bets[s]
    <3>1. CASE SpectatorPlacesBet(s)
      <4>1. UNCHANGED spectatorRace /\ (bettingCall[s] # "none" => UNCHANGED bets)
        BY <3>1 DEF SpectatorPlacesBet, bettingCentre!placeABet,
           bettingCentre!Outside, bettingCentre!None, bettingCentre!resumePlaceABet,
           bettingCentre!betVars
      <4>2. ~HasBetFor(s, spectatorRace[s]) \/ bettingCall[s] # "none"
        BY <1>0, <3>1 DEF HasBetFor, SpectatorPlacesBet, SpectatorReturns
      <4> QED
        BY <4>1, <4>2, SettlesItsBet
    <3>2. CASE SpectatorAsksResult(s) \/ SpectatorCollectsGains(s)
      <4>1. UNCHANGED bets /\ (UNCHANGED spectatorRace \/ spectatorRace'[s] = spectatorRace[s] + 1)
        BY <1>0, <3>2, ResultIsTold, GainsArePaid
      <4> QED
        BY <1>0, <4>1
    <3>3. CASE ~SpectatorPlacesBet(s) /\ ~SpectatorAsksResult(s) /\ ~SpectatorCollectsGains(s)
      BY <1>2, <3>3, SpectatorRacesOn DEF bettingVars
    <3> QED
      BY <3>1, <3>2, <3>3
  <2> QED
    BY <2>1, <2>2, <2>3 DEF WinnersInv, brokerVars
<1>3. CASE UNCHANGED bookVars
  BY <1>3 DEF bookVars, betsVars, WinnersInv, Decided
<1> QED
  BY <1>1, <1>2, <1>3, OthersLeaveBooks DEF Next

LEMMA WinnersAreOfTheRace == Spec => []WinnersInv
<1>1. Init => WinnersInv
  BY MoneyInit
<1> QED
  BY <1>1, WinnersNext, MoneyIsCovered, BetsAreInOrder, PTL DEF Spec

(* What the clients keep stays in range, in events of any size: the        *)
(* numbers of the races do not run past the last one (Broker.run,          *)
(* Spectator.run, the constructor of HorseJockey), the counts of the       *)
(* paddock stay within one batch, nobody bets money it does not have       *)
(* (placeABet), and whoever is reported as the winner is a horse or nobody *)
(* (reportResults).                                                        *)
THEOREM HippodromeTypeOK == Spec => []TypeOK
<1>1. ASSUME PaddockInv, ParadeInv, BetsInv, StartInv, PaddockSleepers
      PROVE  paddock!TypeOK
  <2> DEFINE n == NUMBER_OF_PAIRS_HORSE_JOCKEY
             m == NUMBER_OF_SPECTATORS
             r == NUMBER_OF_RACES
  <2>1. n \in Nat \ {0} /\ m \in Nat \ {0} /\ r \in Nat \ {0}
    BY Sizes
  <2>2. /\ paddock!MaxHorses = 2 * n * r /\ paddock!MaxSpectators = m * r
    BY DEF paddock!MaxHorses, paddock!MaxSpectators, paddock!NUMBER_OF_PAIRS_HORSE_JOCKEY,
           paddock!NUMBER_OF_SPECTATORS, NUMBER_OF_PAIRS_HORSE_JOCKEY, NUMBER_OF_SPECTATORS,
           paddock!Cardinality, Cardinality
  <2>3. currentNumberOfHorses \in 0 .. 2 * n
    <3>1. Cardinality(Parading) + 2 * Cardinality(Gone) \in 0 .. 2 * n
      <4>1. /\ Parading \in SUBSET HorseJockeys /\ Gone \in SUBSET HorseJockeys
            /\ Parading \cap Gone = {}
        BY TwoParts
      <4>2. /\ Cardinality(Parading) \in Nat /\ Cardinality(Gone) \in Nat
            /\ Cardinality(Parading) + 2 * Cardinality(Gone) <= 2 * n
        BY <4>1, TwoPerHorse
      <4> QED
        BY <2>1, <4>2
    <3> QED
      BY <1>1, <2>1, <3>1 DEF PaddockInv
  <2>4. currentNumberOfSpectators \in 0 .. m
    <3>1. CountedNow \in SUBSET Spectators /\ IsFiniteSet(Spectators)
      BY ConfigurationAssumption DEF ConfigurationAssumption, CountedNow
    <3>2. Cardinality(CountedNow) \in Nat /\ Cardinality(CountedNow) <= m
      BY <3>1, FS_Subset, FS_CardinalityType DEF NUMBER_OF_SPECTATORS
    <3> QED
      BY <1>1, <2>1, <3>2 DEF ParadeInv, SpectatorsAreCounted
  <2>5. ASSUME NEW k \in Nat PROVE k <= k * r
    BY <2>1
  <2>6. 2 * n <= 2 * n * r /\ m <= m * r
    BY <2>1, <2>5
  <2> HIDE DEF n, m, r
  <2>7. 2 * n * r \in Nat /\ m * r \in Nat
    BY <2>1
  <2>8. /\ currentNumberOfHorses \in 0 .. paddock!MaxHorses
        /\ currentNumberOfSpectators \in 0 .. paddock!MaxSpectators
    BY <2>1, <2>2, <2>3, <2>4, <2>6, <2>7
  <2> QED
    BY <1>1, <2>8 DEF paddock!TypeOK, ParadeInv, ParadeTypes, PaddockMethods, PaddockSleepers,
       paddock!Threads, paddock!None, paddock!Parade, paddock!Appraise
<1>2. ASSUME RacesInv, BetsInv, ParadeInv, StartInv, MoneyInv
      PROVE  /\ brokerRace \in Races
             /\ brokerWinner \in HorseJockeys \cup {NoHorse}
             /\ spectatorRace \in [Spectators -> 0 .. NUMBER_OF_RACES]
             /\ isLastSpectator \in [Spectators -> BOOLEAN]
             /\ money \in [Spectators -> Nat]
             /\ horseRace \in [HorseJockeys -> Races]
             /\ horseAbility \in [HorseJockeys -> Abilities]
             /\ batch \in Races
  <2>1. brokerRace \in Races
    BY <1>2 DEF RacesInv
  <2>2. \A s \in Spectators : spectatorRace[s] \in 0 .. NUMBER_OF_RACES
    BY <1>2, Sizes DEF RacesInv, BetsInv, BetTypes
  <2> QED
    BY <1>2, <2>1, <2>2
       DEF RacesInv, BetsInv, BetTypes, ParadeInv, ParadeTypes, StartInv, BatchTypes, MoneyInv,
           MoneyTypes
<1>3. PaddockInv /\ ParadeInv /\ BetsInv /\ StartInv /\ PaddockSleepers /\ RacesInv /\ MoneyInv
        => TypeOK
  BY <1>1, <1>2 DEF TypeOK
<1>4. ParadeInv => ParadeTypes
  BY DEF ParadeInv
<1>5. Spec => []PaddockSleepers
  BY <1>4, PaddockSleepersInit, PaddockSleepersNext, ParadeIsInOrder, PTL DEF Spec
<1> QED
  BY <1>3, <1>5, PaddockIsCounted, ParadeIsInOrder, BetsAreInOrder, StartsAreInOrder,
     RacesAreInOrder, MoneyIsCovered, PTL

-----------------------------------------------------------------------------
(* The betting as the bookmaker promises it.                               *)

Bettors == {s \in Spectators : HasBetFor(s, RaceToCome)}

LEMMA RaceToComeIsReported == RaceToCome = Reported
BY DEF RaceToCome, IsDecided, Reported, AfterReport

LEMMA BooksInit == Init => bookmaker!Init
<1> SUFFICES ASSUME Init PROVE bookmaker!Init
  OBVIOUS
<1> USE DEF Init, bettingCentre!Init, bettingCentre!NoBet
<1>1. MoneyTypes
  BY MoneyInit DEF MoneyInv
<1>2. RaceToCome = 0 /\ BetsPhase = "betting" /\ brokerWinner = NoHorse
      /\ spectatorRace = [s \in Spectators |-> 0]
  BY DEF RaceToCome, IsDecided, BetsPhase
<1>3. \A s \in Spectators : spectatorPc[s] = "controlCentre.waitForTheNextRace"
                             /\ spectatorRace[s] = 0
  OBVIOUS
<1>4. \A s \in Spectators : ~HasBetFor(s, RaceToCome) /\ MoneyLeft(s) = money[s]
  BY <1>2, <1>3 DEF HasBetFor, MoneyLeft
<1>5. [s \in Spectators |-> MoneyLeft(s)] \in [Spectators -> Nat]
  BY <1>1, <1>4 DEF MoneyTypes
<1>6. {s \in Spectators : HasBetFor(s, RaceToCome)} = {}
  BY <1>4
<1> QED
  BY <1>1, <1>2, <1>5, <1>6 DEF bookmaker!Init, MoneyTypes

(* A step the bookmaker does not see.                                      *)
LEMMA NothingIsSettled ==
  ASSUME UNCHANGED <<horsesOdds, bets, brokerWinner, spectatorRace>>,
         RaceToCome' = RaceToCome, BetsPhase' = BetsPhase,
         \A s \in Spectators : HasBetFor(s, RaceToCome)' <=> HasBetFor(s, RaceToCome),
         \A s \in Spectators : MoneyLeft(s)' = MoneyLeft(s)
  PROVE  UNCHANGED bookmaker!vars
<1>1. Bettors' = Bettors
  BY DEF Bettors
<1>2. [s \in Spectators |-> MoneyLeft(s)]' = [s \in Spectators |-> MoneyLeft(s)]
  OBVIOUS
<1> QED
  BY <1>1, <1>2 DEF bookmaker!vars, Bettors

(* Where the broker is, as the bookmaker sees it.                          *)
Closed == brokerPc \in {"racingTrack.startTheRace", "controlCentre.startTheRace",
                        "controlCentre.reportResults"}

Accepting == brokerPc = "bettingCentre.acceptTheBets" /\ bettingCall[Broker] # "none"

LEMMA Phases ==
  /\ Closed => BetsPhase = "closed"
  /\ Accepting => BetsPhase = "accepting"
  /\ ~Closed /\ ~Accepting => BetsPhase = "betting"
<1>1. Closed => ~Accepting
  BY DEF Closed, Accepting
<1>2. BetsPhase = CASE Accepting -> "accepting" [] Closed -> "closed" [] OTHER -> "betting"
  BY DEF BetsPhase, Accepting, Closed
<1> QED
  BY <1>1, <1>2

LEMMA NextPhases ==
  /\ Closed' => BetsPhase' = "closed"
  /\ Accepting' => BetsPhase' = "accepting"
  /\ ~Closed' /\ ~Accepting' => BetsPhase' = "betting"
<1>1. Closed' => ~Accepting'
  BY DEF Closed, Accepting
<1>2. BetsPhase' = CASE Accepting' -> "accepting" [] Closed' -> "closed" [] OTHER -> "betting"
  BY DEF BetsPhase, Accepting, Closed
<1> QED
  BY <1>1, <1>2

LEMMA PhaseOfTheBroker ==
  ASSUME BetsInv
  PROVE  /\ BetsPhase = "closed" <=> Accepted = RaceToCome + 1
         /\ RaceToCome \in Nat /\ Accepted \in Nat
         /\ \A s \in Spectators :
              /\ spectatorRace[s] \in Nat /\ spectatorRace[s] <= RaceToCome
              /\ BetsPhase = "closed" => HasBetFor(s, RaceToCome)
<1>1. /\ Accepted \in Nat /\ Reported \in Nat /\ Decided \in Nat /\ brokerRace \in Nat
      /\ Decided <= Reported /\ brokerPc \in BrokerPcs
  BY BrokerProgress DEF BetsInv, BetTypes
<1>2. BetsPhase = "closed" <=> Accepted = Reported + 1
  <2>1. BetsPhase = "closed" <=> Closed
    BY Phases
  <2>2. CASE brokerPc \in BeforeAcceptance
    <3>1. brokerPc \notin AfterReport /\ ~Closed
      BY <2>2 DEF BeforeAcceptance, AfterReport, Closed
    <3> QED
      BY <1>1, <2>1, <2>2, <3>1 DEF Accepted, Reported
  <2>3. CASE brokerPc \in AfterReport
    <3>1. brokerPc \notin BeforeAcceptance /\ ~Closed
      BY <2>3 DEF BeforeAcceptance, AfterReport, Closed
    <3> QED
      BY <1>1, <2>1, <2>3, <3>1 DEF Accepted, Reported
  <2>4. CASE brokerPc \notin BeforeAcceptance \cup AfterReport
    <3>1. Closed
      BY <1>1, <2>4 DEF BrokerPcs, BeforeAcceptance, AfterReport, Closed
    <3> QED
      BY <1>1, <2>1, <2>4, <3>1 DEF Accepted, Reported
  <2> QED
    BY <2>2, <2>3, <2>4
<1>3. ASSUME NEW s \in Spectators
      PROVE  /\ spectatorRace[s] \in Nat /\ spectatorRace[s] <= Reported
             /\ BetsPhase = "closed" => HasBetFor(s, Reported)
  <2>1. /\ spectatorRace[s] \in Nat /\ spectatorRace[s] <= Decided
        /\ Accepted > 0 => HasBetFor(s, Accepted - 1)
    BY DEF BetsInv, BetTypes, SpectatorInOrder, FollowsTheBroker, BetsOnceForARace
  <2>2. CASE BetsPhase = "closed"
    <3>1. Accepted > 0 /\ Accepted - 1 = Reported
      BY <1>1, <1>2, <2>2
    <3> QED
      BY <1>1, <2>1, <3>1
  <2> QED
    BY <1>1, <2>1, <2>2
<1> QED
  BY <1>1, <1>2, <1>3, RaceToComeIsReported

(* acceptTheBets: the odds are evaluated when everybody has settled the    *)
(* races before, and the bets are closed when everybody has bet.           *)
LEMMA AllBetsAreCounted ==
  ASSUME BetsInv, brokerPc = "bettingCentre.acceptTheBets"
  PROVE  bettingCentre!AllHaveBet <=> Bettors = Spectators
<1>1. RaceToCome = Accepted
  BY DEF RaceToCome, IsDecided, Accepted, BeforeAcceptance
<1>2. \A s \in Spectators : bettingCentre!HasQueued(s) <=> s \in Bettors
  BY <1>1 DEF BetsInv, SpectatorInOrder, BetsOnceForARace, Bettors
<1>3. bettingQueue \in Seq(Spectators) /\ QueuedOnce
  BY DEF BetsInv, BetTypes
<1>4. bettingCentre!AllHaveBet => Bettors = Spectators
  BY <1>2, <1>3, FullQueue DEF Bettors
<1>5. ASSUME Bettors = Spectators PROVE bettingCentre!AllHaveBet
  <2> DEFINE n == Len(bettingQueue)
  <2>1. n \in Nat /\ bettingQueue \in [1 .. n -> Spectators]
    BY <1>3, LenProperties
  <2>2. bettingQueue \in Injection(1 .. n, Spectators)
    BY <1>3, <2>1 DEF QueuedOnce, Injection, IsInjective
  <2>3. bettingQueue \in Surjection(1 .. n, Spectators)
    BY <1>2, <1>5, <2>1 DEF bettingCentre!HasQueued, Surjection
  <2>4. bettingQueue \in Bijection(1 .. n, Spectators)
    BY <2>2, <2>3 DEF Bijection
  <2>5. IsFiniteSet(Spectators)
    BY ConfigurationAssumption DEF ConfigurationAssumption
  <2>6. Cardinality(1 .. n) = n /\ IsFiniteSet(1 .. n)
    BY <2>1, FS_Interval
  <2>7. Cardinality(1 .. n) = Cardinality(Spectators)
    BY <2>4, <2>5, <2>6, FS_Bijection DEF ExistsBijection
  <2> QED
    BY <2>6, <2>7 DEF bettingCentre!AllHaveBet, bettingCentre!NUMBER_OF_SPECTATORS,
       bettingCentre!Cardinality, Cardinality
<1> QED
  BY <1>4, <1>5

(* A step of the broker that leaves the race to come and its bets alone.   *)
LEMMA BrokerKeepsBettors ==
  ASSUME BetTypes, BrokerNext, RaceToCome' = RaceToCome
  PROVE  /\ Bettors' = Bettors
         /\ \A s \in Spectators : HasBetFor(s, RaceToCome)' <=> HasBetFor(s, RaceToCome)
         /\ \A s \in Spectators : MoneyLeft(s)' = MoneyLeft(s)
<1>1. /\ UNCHANGED <<spectatorPc, spectatorRace, money, bets>>
      /\ \A s \in Spectators : bettingCall'[s] = bettingCall[s]
  BY BrokerLeavesBets
<1>2. ASSUME NEW s \in Spectators
      PROVE  /\ HasBetFor(s, RaceToCome)' <=> HasBetFor(s, RaceToCome)
             /\ MoneyLeft(s)' = MoneyLeft(s)
  <2>1. HasBetFor(s, RaceToCome)' <=> HasBetFor(s, RaceToCome)
    BY <1>1 DEF HasBetFor
  <2>2. MoneyLeft(s)' = MoneyLeft(s)
    BY <1>1 DEF MoneyLeft
  <2> QED
    BY <2>1, <2>2
<1>3. Bettors' = Bettors
  BY <1>2 DEF Bettors
<1> QED
  BY <1>2, <1>3

LEMMA BrokerAcceptanceIsBooked ==
  ASSUME MoneyInv, AbilityInv, ParadeInv, BetsInv, StartInv, BrokerAcceptsBets, MoneyInv'
  PROVE  [bookmaker!Next]_(bookmaker!vars)
<1> USE DEF bettingCentre!None, bettingCentre!Accept
<1>0. BrokerNext /\ BetTypes
  BY DEF BrokerNext, BetsInv
<1>1. /\ brokerPc = "bettingCentre.acceptTheBets" /\ UNCHANGED <<brokerRace, brokerWinner>>
      /\ brokerPc' = IF bettingCall'[Broker] = "none"
                     THEN "racingTrack.startTheRace" ELSE "bettingCentre.acceptTheBets"
      /\ UNCHANGED <<spectatorPc, spectatorRace, money, bets>>
  BY <1>0, BrokerLeavesBets DEF BrokerAcceptsBets, BrokerReturns, BettingCentreAnswers
<1>2. RaceToCome' = RaceToCome /\ RaceToCome = brokerRace
  BY <1>1 DEF RaceToCome, IsDecided
<1>3. /\ Bettors' = Bettors
      /\ \A s \in Spectators : HasBetFor(s, RaceToCome)' <=> HasBetFor(s, RaceToCome)
      /\ \A s \in Spectators : MoneyLeft(s)' = MoneyLeft(s)
  BY <1>0, <1>2, BrokerKeepsBettors
<1>4. [s \in Spectators |-> MoneyLeft(s)]' = [s \in Spectators |-> MoneyLeft(s)]
  BY <1>3
<1>5. bettingCentre!AllHaveBet <=> Bettors = Spectators
  BY <1>1, AllBetsAreCounted
<1>6. bettingCentre!AbilitiesKnown
  BY <1>1, AbilitiesAreThoseOfTheRunners
     DEF bettingCentre!AbilitiesKnown, bettingCentre!WithAbility
<1>7. bettingCentre!AcceptOrWait
  BY <1>6 DEF BrokerAcceptsBets, bettingCentre!acceptTheBets, bettingCentre!acceptTheBetsFails,
     bettingCentre!resumeAcceptTheBets
<1>8. bettingCall \in [Spectators \cup {Broker} -> BettingMethods]
  BY DEF BetsInv, BetTypes
<1>9. BetsPhase' = IF Bettors = Spectators THEN "closed" ELSE "accepting"
  <2>1. bettingCall'[Broker] = IF bettingCentre!AllHaveBet THEN "none" ELSE "acceptTheBets"
    BY <1>7, <1>8 DEF bettingCentre!AcceptOrWait, bettingCentre!Wait,
       bettingCentre!NotifyAllAndReturn, bettingCentre!WaitWhile
  <2>2. CASE bettingCentre!AllHaveBet
    BY <1>1, <1>5, <2>1, <2>2, NextPhases DEF Closed
  <2>3. CASE ~bettingCentre!AllHaveBet
    <3>1. Accepting'
      BY <1>1, <2>1, <2>3 DEF Accepting
    <3> QED
      BY <1>5, <2>3, <3>1, NextPhases
  <2> QED
    BY <2>2, <2>3
<1>10. CASE bettingCentre!acceptTheBets
  <2>1. ~Closed /\ ~Accepting
    BY <1>1, <1>10 DEF Closed, Accepting, bettingCentre!acceptTheBets, bettingCentre!Outside
  <2>2. BetsPhase = "betting"
    BY <2>1, Phases
  <2>3. \A s \in Spectators : spectatorRace[s] = RaceToCome
    <3>1. Announced = brokerRace + 1 /\ brokerRace \in Nat
      BY <1>1 DEF Announced, BetsInv, BetTypes
    <3>2. ASSUME NEW s \in Spectators PROVE spectatorRace[s] = RaceToCome
      <4>1. /\ Told \in Nat /\ Announced <= Told /\ Told <= Counted(s)
            /\ Counted(s) \in Nat /\ spectatorRace[s] \in Nat
        BY ParadeProgress DEF ParadeInv, SpectatorKeepsPace
      <4>2. Counted(s) <= spectatorRace[s] + 1
        BY <4>1 DEF Counted
      <4>3. spectatorRace[s] <= RaceToCome
        BY PhaseOfTheBroker
      <4> QED
        BY <1>2, <3>1, <4>1, <4>2, <4>3
    <3> QED
      BY <3>2
  <2>4. horsesOdds' \in [HorseJockeys -> Nat]
    BY DEF MoneyInv, MoneyTypes
  <2>5. bookmaker!EvaluateOdds
    BY <1>1, <1>2, <1>3, <1>4, <1>9, <2>2, <2>3, <2>4 DEF bookmaker!EvaluateOdds, Bettors
  <2> QED
    BY <2>5 DEF bookmaker!Next
<1>11. CASE bettingCentre!resumeAcceptTheBets
  <2>1. Accepting /\ UNCHANGED horsesOdds
    BY <1>1, <1>11 DEF Accepting, bettingCentre!resumeAcceptTheBets, bettingCentre!Notified,
       bettingCentre!oddsVars
  <2>2. BetsPhase = "accepting"
    BY <2>1, Phases
  <2>3. CASE Bettors = Spectators
    <3>1. bookmaker!Close
      BY <1>1, <1>2, <1>3, <1>4, <1>9, <2>1, <2>2, <2>3 DEF bookmaker!Close, Bettors
    <3> QED
      BY <3>1 DEF bookmaker!Next
  <2>4. CASE Bettors # Spectators
    BY <1>1, <1>2, <1>3, <1>9, <2>1, <2>2, <2>4, NothingIsSettled
  <2> QED
    BY <2>3, <2>4
<1> QED
  BY <1>6, <1>10, <1>11 DEF BrokerAcceptsBets, bettingCentre!acceptTheBetsFails

(* reportResults decides the race: the bets are for the next one.          *)
LEMMA BrokerReportIsBooked ==
  ASSUME RacesInv, BetsInv, BrokerReportsResults
  PROVE  bookmaker!Decide
<1>0. BrokerNext /\ BetTypes
  BY DEF BrokerNext, BetsInv
<1>1. /\ brokerPc = "controlCentre.reportResults"
      /\ brokerPc' = "bettingCentre.areThereAnyWinners"
      /\ brokerWinner' = raceWinner /\ UNCHANGED brokerRace
  BY DEF BrokerReportsResults, BrokerReturns
<1>2. /\ UNCHANGED <<spectatorPc, spectatorRace, money, bets, horsesOdds>>
      /\ \A s \in Spectators : bettingCall'[s] = bettingCall[s]
  BY <1>0, <1>1, BrokerLeavesBets DEF BrokerAcceptsBets, BrokerReturns
<1>3. brokerWinner' \in HorseJockeys \cup {NoHorse}
  BY <1>1 DEF RacesInv
<1>4. RaceToCome = brokerRace /\ RaceToCome' = RaceToCome + 1
  BY <1>1 DEF RaceToCome, IsDecided
<1>5. BetsPhase = "closed"
  BY <1>1, Phases DEF Closed
<1>6. BetsPhase' = "betting"
  <2>1. ~Closed' /\ ~Accepting'
    BY <1>1 DEF Closed, Accepting
  <2> QED
    BY <2>1, NextPhases
<1>7. Bettors' = {}
  <2>1. ASSUME NEW s \in Spectators PROVE ~HasBetFor(s, RaceToCome)'
    <3>1. spectatorRace'[s] \in Nat /\ spectatorRace'[s] <= RaceToCome /\ RaceToCome \in Nat
      BY <1>2, PhaseOfTheBroker
    <3> QED
      BY <1>4, <3>1 DEF HasBetFor
  <2> QED
    BY <2>1 DEF Bettors
<1>8. \A s \in Spectators : MoneyLeft(s)' = MoneyLeft(s)
  BY <1>2 DEF MoneyLeft
<1>9. [s \in Spectators |-> MoneyLeft(s)]' = [s \in Spectators |-> MoneyLeft(s)]
  BY <1>8
<1> QED
  BY <1>2, <1>3, <1>4, <1>5, <1>6, <1>7, <1>9 DEF bookmaker!Decide, Bettors

LEMMA BrokerIsBooked ==
  ASSUME MoneyInv, AbilityInv, ParadeInv, BetsInv, StartInv, RacesInv, MoneyInv', BrokerNext
  PROVE  [bookmaker!Next]_(bookmaker!vars)
<1>1. CASE BrokerAcceptsBets
  BY <1>1, BrokerAcceptanceIsBooked
<1>2. CASE BrokerReportsResults
  BY <1>2, BrokerReportIsBooked DEF bookmaker!Next
<1>3. CASE ~BrokerAcceptsBets /\ ~BrokerReportsResults
  <2>0. /\ UNCHANGED <<horsesOdds, bets, brokerWinner, spectatorRace>>
        /\ BetTypes /\ brokerRace \in Nat
    BY <1>3, BrokerLeavesBets DEF BetsInv, BetTypes
  <2>1. AfterTheBets \in {"racingTrack.setRace", "controlCentre.entertainTheGuests"}
    BY DEF AfterTheBets
  <2>2. RaceToCome' = RaceToCome /\ (Closed' <=> Closed) /\ (Accepting' <=> Accepting)
    <3> USE DEF BrokerReturns, RaceToCome, IsDecided, Closed, Accepting
    <3>1. CASE BrokerAnnouncesRace
      <4>1. /\ brokerPc = "controlCentre.summonHorsesToPaddock" /\ UNCHANGED brokerRace
            /\ brokerPc' \in {"controlCentre.summonHorsesToPaddock",
                              "bettingCentre.acceptTheBets"}
            /\ UNCHANGED bettingCall
        BY <3>1 DEF BrokerAnnouncesRace, InControlCentre, bettingVars
      <4>2. bettingCall'[Broker] = "none"
        BY <4>1 DEF BetsInv, ResultsAreHeldBack
      <4> QED
        BY <4>1, <4>2
    <3>2. CASE BrokerLooksForWinners \/ BrokerHonoursBets
      BY <2>1, <3>2 DEF BrokerLooksForWinners, BrokerHonoursBets
    <3>3. CASE BrokerSetsRace \/ BrokerSummonsHorses
      BY <2>0, <3>3 DEF BrokerSetsRace, BrokerSummonsHorses
    <3>4. CASE BrokerStartsRace \/ BrokerSupervisesRace \/ BrokerEntertainsGuests
      BY <3>4 DEF BrokerStartsRace, BrokerSupervisesRace, BrokerEntertainsGuests
    <3> QED
      BY <1>3, <3>1, <3>2, <3>3, <3>4 DEF BrokerNext
  <2>3. BetsPhase' = BetsPhase
    BY <2>2, Phases, NextPhases
  <2> QED
    BY <2>0, <2>2, <2>3, BrokerKeepsBettors, NothingIsSettled
<1> QED
  BY <1>1, <1>2, <1>3

(* What the bookmaker sees of a step of s: the others and the phase stay.  *)
LEMMA SpectatorIsSeen ==
  ASSUME MoneyInv, BetsInv, NEW s \in Spectators, SpectatorNext(s)
  PROVE  /\ RaceToCome' = RaceToCome /\ BetsPhase' = BetsPhase
         /\ UNCHANGED <<horsesOdds, winners, brokerVars>>
         /\ \A t \in Spectators \ {s} :
              /\ bets'[t] = bets[t] /\ spectatorRace'[t] = spectatorRace[t]
              /\ HasBetFor(t, RaceToCome)' <=> HasBetFor(t, RaceToCome)
              /\ MoneyLeft(t)' = MoneyLeft(t)
<1>1. /\ UNCHANGED <<horsesOdds, winners, brokerVars>>
      /\ bettingCall'[Broker] = bettingCall[Broker]
      /\ \A t \in Spectators \ {s} :
              /\ bets'[t] = bets[t] /\ money'[t] = money[t]
              /\ spectatorPc'[t] = spectatorPc[t] /\ spectatorRace'[t] = spectatorRace[t]
              /\ bettingCall'[t] = bettingCall[t]
  BY SpectatorLeavesOthers
<1>2. RaceToCome' = RaceToCome /\ (Closed' <=> Closed) /\ (Accepting' <=> Accepting)
  BY <1>1 DEF RaceToCome, IsDecided, Closed, Accepting, brokerVars
<1>3. BetsPhase' = BetsPhase
  BY <1>2, Phases, NextPhases
<1>4. ASSUME NEW t \in Spectators \ {s}
      PROVE  /\ HasBetFor(t, RaceToCome)' <=> HasBetFor(t, RaceToCome)
             /\ MoneyLeft(t)' = MoneyLeft(t)
  <2>1. HasBetFor(t, RaceToCome)' <=> HasBetFor(t, RaceToCome)
    BY <1>1, <1>2 DEF HasBetFor
  <2>2. MoneyLeft(t)' = MoneyLeft(t)
    BY <1>1 DEF MoneyLeft
  <2> QED
    BY <2>1, <2>2
<1> QED
  BY <1>1, <1>2, <1>3, <1>4

(* A step of s that neither bets nor settles.                              *)
LEMMA SpectatorIsNotBooked ==
  ASSUME MoneyInv, BetsInv, NEW s \in Spectators, SpectatorNext(s),
         UNCHANGED <<bets, spectatorRace>>,
         HasBetFor(s, RaceToCome)' <=> HasBetFor(s, RaceToCome), MoneyLeft(s)' = MoneyLeft(s)
  PROVE  UNCHANGED bookmaker!vars
<1>1. /\ RaceToCome' = RaceToCome /\ BetsPhase' = BetsPhase
      /\ UNCHANGED <<horsesOdds, brokerVars>>
      /\ \A t \in Spectators : HasBetFor(t, RaceToCome)' <=> HasBetFor(t, RaceToCome)
      /\ \A t \in Spectators : MoneyLeft(t)' = MoneyLeft(t)
  BY SpectatorIsSeen
<1> QED
  BY <1>1, NothingIsSettled DEF brokerVars

(* placeABet takes a bet, once, with money s has.                          *)
LEMMA BetIsBooked ==
  ASSUME MoneyInv, MoneyInv', BetsInv, RacesInv, NEW s \in Spectators, SpectatorPlacesBet(s)
  PROVE  [bookmaker!Next]_(bookmaker!vars)
<1> DEFINE left == [t \in Spectators |-> MoneyLeft(t)]
<1>0. SpectatorNext(s) /\ spectatorPc[s] = "bettingCentre.placeABet" /\ UNCHANGED spectatorRace
  BY DEF SpectatorNext, SpectatorPlacesBet, SpectatorReturns
<1>1. /\ RaceToCome' = RaceToCome /\ BetsPhase' = BetsPhase
      /\ UNCHANGED <<horsesOdds, brokerWinner>>
      /\ \A t \in Spectators \ {s} :
              /\ HasBetFor(t, RaceToCome)' <=> HasBetFor(t, RaceToCome)
              /\ MoneyLeft(t)' = MoneyLeft(t)
  BY <1>0, SpectatorIsSeen DEF brokerVars
<1>2. /\ money \in [Spectators -> Nat] /\ BetIsCovered(s)
      /\ bets \in [Spectators -> [horse : HorseJockeys \cup {NoHorse}, amount : Nat]]
  BY DEF MoneyInv, MoneyTypes
<1>3. CASE bettingCall[s] = "none"
  <2>1. /\ RaceToCome \in Nat /\ Accepted \in Nat /\ spectatorRace[s] \in Nat
        /\ spectatorRace[s] <= RaceToCome /\ RaceToCome <= Accepted
        /\ Accepted > 0 => HasBetFor(s, Accepted - 1)
        /\ BetsPhase = "closed" => HasBetFor(s, RaceToCome)
    BY PhaseOfTheBroker, BrokerProgress, RaceToComeIsReported
       DEF BetsInv, SpectatorInOrder, BetsOnceForARace
  <2>2. ASSUME NEW r, HasBetFor(s, r) PROVE spectatorRace[s] > r
    BY <1>0, <1>3, <2>2 DEF HasBetFor
  <2>3. Accepted > 0 => spectatorRace[s] > Accepted - 1
    BY <2>1, <2>2
  <2>4. spectatorRace[s] = RaceToCome
    BY <2>1, <2>3
  <2>5. ~HasBetFor(s, RaceToCome) /\ BetsPhase # "closed"
    BY <2>1, <2>2, <2>4
  <2>6. RaceToCome \in bookmaker!Races
    <3>1. spectatorRace[s] < NUMBER_OF_RACES
      BY <1>0, <2>1, Sizes DEF RacesInv, HasEnded
    <3> QED
      BY <2>1, <2>4, <3>1, Sizes DEF bookmaker!Races
  <2>7. MoneyLeft(s) = money[s] /\ left[s] = money[s]
    BY <1>3 DEF MoneyLeft
  <2>8. PICK amount \in 0 .. money[s], horse \in HorseJockeys :
           /\ bets' = [bets EXCEPT ![s] = [horse |-> horse, amount |-> amount]]
           /\ \/ /\ bettingCall'[s] = "none"
                 /\ spectatorPc'[s] = "controlCentre.goWatchTheRace"
                 /\ money' = [money EXCEPT ![s] = @ - amount]
              \/ /\ bettingCall'[s] = "placeABet"
                 /\ spectatorPc'[s] = "bettingCentre.placeABet"
                 /\ UNCHANGED money
    BY <1>3, BetIsRecorded
  <2>9. MoneyLeft(s)' = money[s] - amount
    BY <1>2, <2>8 DEF MoneyLeft
  <2>10. left' = [left EXCEPT ![s] = @ - amount]
    BY <1>1, <2>7, <2>9
  <2>11. HasBetFor(s, RaceToCome)'
    BY <1>0, <1>1, <2>4, <2>8 DEF HasBetFor
  <2>12. Bettors' = Bettors \cup {s} /\ s \notin Bettors
    BY <1>1, <2>5, <2>11 DEF Bettors
  <2>13. /\ horse \in HorseJockeys /\ amount \in 0 .. left[s]
         /\ bets' = [bets EXCEPT ![s] = [horse |-> horse, amount |-> amount]]
    BY <2>7, <2>8
  <2> HIDE DEF left
  <2>14. bookmaker!Bet(s)
    BY <1>0, <1>1, <2>4, <2>5, <2>6, <2>10, <2>12, <2>13 DEF bookmaker!Bet, Bettors, left
  <2> QED
    BY <2>14 DEF bookmaker!Next
<1>4. CASE bettingCall[s] # "none"
  <2>1. UNCHANGED bets
    BY <1>4 DEF SpectatorPlacesBet, bettingCentre!placeABet, bettingCentre!Outside,
       bettingCentre!None, bettingCentre!resumePlaceABet, bettingCentre!betVars
  <2>2. MoneyLeft(s) = money[s] - bets[s].amount /\ HasBetFor(s, spectatorRace[s])
    BY <1>0, <1>4 DEF MoneyLeft, HasBetFor
  <2>3. \/ bettingCall'[s] = "none" /\ money' = [money EXCEPT ![s] = @ - bets[s].amount]
           /\ spectatorPc'[s] = "controlCentre.goWatchTheRace"
        \/ bettingCall'[s] # "none" /\ UNCHANGED money
           /\ spectatorPc'[s] = "bettingCentre.placeABet"
    BY <2>1 DEF SpectatorPlacesBet, SpectatorReturns, BettingCentreAnswers, BetsInv, BetTypes
  <2>4. MoneyLeft(s)' = MoneyLeft(s)
    BY <1>2, <2>1, <2>2, <2>3 DEF MoneyLeft
  <2>5. HasBetFor(s, RaceToCome)' <=> HasBetFor(s, RaceToCome)
    BY <1>0, <1>1, <1>4, <2>3 DEF HasBetFor
  <2> QED
    BY <1>0, <2>1, <2>4, <2>5, SpectatorIsNotBooked
<1> QED
  BY <1>3, <1>4

(* s settles its race: with the gains of its bet if its horse has won.     *)
LEMMA SettlementIsBooked ==
  ASSUME MoneyInv, BetsInv, NEW s \in Spectators, SpectatorNext(s),
         UNCHANGED bets, spectatorRace[s] < Decided,
         spectatorPc[s] \in {"bettingCentre.haveIWon", "bettingCentre.goCollectTheGains"},
         spectatorPc'[s] = AfterTheRace(s),
         spectatorRace' = [spectatorRace EXCEPT ![s] = @ + 1],
         money' = [money EXCEPT ![s] = @ + bookmaker!Gains(s)]
  PROVE  bookmaker!Settle(s)
<1> DEFINE left == [t \in Spectators |-> MoneyLeft(t)]
<1>1. /\ RaceToCome' = RaceToCome /\ BetsPhase' = BetsPhase
      /\ UNCHANGED <<horsesOdds, brokerWinner>>
      /\ \A t \in Spectators \ {s} :
              /\ HasBetFor(t, RaceToCome)' <=> HasBetFor(t, RaceToCome)
              /\ MoneyLeft(t)' = MoneyLeft(t)
  BY SpectatorIsSeen DEF brokerVars
<1>2. /\ Decided \in Nat /\ Decided <= RaceToCome /\ RaceToCome \in Nat
      /\ spectatorRace \in [Spectators -> Nat] /\ money \in [Spectators -> Nat]
  BY BrokerProgress, RaceToComeIsReported DEF BetsInv, BetTypes, MoneyInv, MoneyTypes
<1>3. spectatorRace[s] < RaceToCome
  BY <1>2
<1>4. spectatorRace'[s] = spectatorRace[s] + 1 /\ spectatorRace'[s] <= RaceToCome
  BY <1>2, <1>3
<1>5. spectatorPc'[s] \in {"controlCentre.relaxABit", "controlCentre.waitForTheNextRace"}
  BY DEF AfterTheRace
<1>6. ~HasBetFor(s, RaceToCome) /\ ~HasBetFor(s, RaceToCome)'
  BY <1>1, <1>2, <1>3, <1>4, <1>5 DEF HasBetFor
<1>7. Bettors' = Bettors
  BY <1>1, <1>6 DEF Bettors
<1>8. left[s] = money[s] /\ left'[s] = money[s] + bookmaker!Gains(s)
  BY <1>2, <1>5 DEF MoneyLeft
<1>9. left' = [left EXCEPT ![s] = @ + bookmaker!Gains(s)]
  BY <1>1, <1>8
<1> HIDE DEF left
<1> QED
  BY <1>1, <1>3, <1>7, <1>9 DEF bookmaker!Settle, bookmaker!Gains, Bettors, left

(* haveIWon: a loser has settled its race, a winner has still to collect.  *)
LEMMA ResultIsBooked ==
  ASSUME MoneyInv, BetsInv, WinnersInv, NEW s \in Spectators, SpectatorAsksResult(s)
  PROVE  [bookmaker!Next]_(bookmaker!vars)
<1>0. SpectatorNext(s) /\ spectatorPc[s] = "bettingCentre.haveIWon" /\ UNCHANGED <<bets, money>>
  BY ResultIsTold DEF SpectatorNext
<1>1. CASE UNCHANGED spectatorRace
  <2>1. spectatorPc'[s] \in {"bettingCentre.haveIWon", "bettingCentre.goCollectTheGains"}
    <3>1. spectatorRace \in [Spectators -> Nat]
      BY DEF BetsInv, BetTypes
    <3>2. spectatorRace' # [spectatorRace EXCEPT ![s] = @ + 1]
      BY <1>1, <3>1
    <3> QED
      BY <3>2, ResultIsTold
  <2>2. HasBetFor(s, RaceToCome)' <=> HasBetFor(s, RaceToCome)
    <3>1. RaceToCome' = RaceToCome
      BY <1>0, SpectatorIsSeen
    <3> QED
      BY <1>0, <1>1, <2>1, <3>1 DEF HasBetFor
  <2>3. MoneyLeft(s)' = MoneyLeft(s)
    BY <1>0, <2>1 DEF MoneyLeft
  <2> QED
    BY <1>0, <1>1, <2>2, <2>3, SpectatorIsNotBooked
<1>2. CASE spectatorRace' # spectatorRace
  <2>1. /\ s \notin winners /\ spectatorPc'[s] = AfterTheRace(s)
        /\ spectatorRace' = [spectatorRace EXCEPT ![s] = @ + 1]
        /\ ~brokerDoesNotAllowToProceedToHaveIWon
    BY <1>2, ResultIsTold
  <2>2. brokerPc \in (AfterReport \ {"bettingCentre.areThereAnyWinners"}) \cup BeforeAcceptance
    BY <2>1 DEF BetsInv, ResultsAreHeldBack
  <2>3. Decided = Reported
    <3>1. brokerPc # "bettingCentre.areThereAnyWinners"
      BY <2>2 DEF BeforeAcceptance
    <3> QED
      BY <3>1 DEF Decided, Reported
  <2>4. spectatorRace[s] < Decided
    BY <1>0, <2>3 DEF BetsInv, SpectatorInOrder, FollowsTheBroker
  <2>5. bets[s].horse # brokerWinner
    BY <2>1, <2>4 DEF WinnersInv
  <2>6. money' = [money EXCEPT ![s] = @ + bookmaker!Gains(s)]
    <3>1. bookmaker!Gains(s) = 0
      BY <2>5 DEF bookmaker!Gains
    <3>2. money \in [Spectators -> Nat]
      BY DEF MoneyInv, MoneyTypes
    <3> QED
      BY <1>0, <3>1, <3>2
  <2> QED
    BY <1>0, <2>1, <2>4, <2>6, SettlementIsBooked DEF bookmaker!Next
<1> QED
  BY <1>1, <1>2

(* goCollectTheGains: a winner gets its bet at the odds of its horse.      *)
LEMMA GainsAreBooked ==
  ASSUME MoneyInv, BetsInv, WinnersInv, HonourInv,
         NEW s \in Spectators, SpectatorCollectsGains(s)
  PROVE  [bookmaker!Next]_(bookmaker!vars)
<1>0. /\ SpectatorNext(s) /\ UNCHANGED bets
      /\ spectatorPc[s] = "bettingCentre.goCollectTheGains"
  BY GainsArePaid DEF SpectatorNext
<1>1. CASE UNCHANGED spectatorRace
  <2>1. /\ spectatorPc'[s] = "bettingCentre.goCollectTheGains" /\ UNCHANGED money
    <3>1. spectatorRace \in [Spectators -> Nat]
      BY DEF BetsInv, BetTypes
    <3>2. spectatorRace' # [spectatorRace EXCEPT ![s] = @ + 1]
      BY <1>1, <3>1
    <3> QED
      BY <3>2, GainsArePaid
  <2>2. HasBetFor(s, RaceToCome)' <=> HasBetFor(s, RaceToCome)
    <3>1. RaceToCome' = RaceToCome
      BY <1>0, SpectatorIsSeen
    <3> QED
      BY <1>0, <1>1, <2>1, <3>1 DEF HasBetFor
  <2>3. MoneyLeft(s)' = MoneyLeft(s)
    BY <1>0, <2>1 DEF MoneyLeft
  <2> QED
    BY <1>0, <1>1, <2>2, <2>3, SpectatorIsNotBooked
<1>2. CASE spectatorRace' # spectatorRace
  <2>1. /\ spectatorPc'[s] = AfterTheRace(s)
        /\ spectatorRace' = [spectatorRace EXCEPT ![s] = @ + 1]
        /\ money' = [money EXCEPT ![s] = @ + bets[s].amount * horsesOdds[bets[s].horse]]
    BY <1>2, GainsArePaid
  <2>2. spectatorRace[s] < Decided /\ s \in winners
    BY <1>0 DEF BetsInv, SpectatorInOrder, FollowsTheBroker, HonourInv
  <2>3. bets[s].horse = brokerWinner
    BY <2>2 DEF WinnersInv
  <2>4. money' = [money EXCEPT ![s] = @ + bookmaker!Gains(s)]
    BY <2>1, <2>3 DEF bookmaker!Gains
  <2> QED
    BY <1>0, <2>1, <2>2, <2>4, SettlementIsBooked DEF bookmaker!Next
<1> QED
  BY <1>1, <1>2

LEMMA SpectatorIsBooked ==
  ASSUME MoneyInv, MoneyInv', BetsInv, WinnersInv, HonourInv, RacesInv,
         NEW s \in Spectators, SpectatorNext(s)
  PROVE  [bookmaker!Next]_(bookmaker!vars)
<1>1. CASE SpectatorPlacesBet(s)
  BY <1>1, BetIsBooked
<1>2. CASE SpectatorAsksResult(s)
  BY <1>2, ResultIsBooked
<1>3. CASE SpectatorCollectsGains(s)
  BY <1>3, GainsAreBooked
<1>4. CASE ~SpectatorPlacesBet(s) /\ ~SpectatorAsksResult(s) /\ ~SpectatorCollectsGains(s)
  <2>1. /\ UNCHANGED <<bets, money, spectatorRace, bettingCall>>
        /\ bettingCall[s] = "none"
        /\ \A r : HasBetFor(s, r)' <=> HasBetFor(s, r)
    BY <1>4, SpectatorRacesOn DEF bettingVars
  <2>2. RaceToCome' = RaceToCome
    BY SpectatorIsSeen
  <2>3. HasBetFor(s, RaceToCome)' <=> HasBetFor(s, RaceToCome)
    BY <2>1, <2>2 DEF HasBetFor
  <2>4. MoneyLeft(s)' = MoneyLeft(s)
    BY <2>1 DEF MoneyLeft
  <2> QED
    BY <2>1, <2>3, <2>4, SpectatorIsNotBooked
<1> QED
  BY <1>1, <1>2, <1>3, <1>4

LEMMA OthersAreNotBooked ==
  ASSUME UNCHANGED bookVars
  PROVE  UNCHANGED bookmaker!vars
<1>1. /\ UNCHANGED <<horsesOdds, bets, brokerWinner, spectatorRace, spectatorPc, money>>
      /\ UNCHANGED <<brokerPc, brokerRace, bettingCall>>
  BY DEF bookVars, betsVars
<1>2. RaceToCome' = RaceToCome /\ (Closed' <=> Closed) /\ (Accepting' <=> Accepting)
  BY <1>1 DEF RaceToCome, IsDecided, Closed, Accepting
<1>3. BetsPhase' = BetsPhase
  BY <1>2, Phases, NextPhases
<1>4. \A s \in Spectators : HasBetFor(s, RaceToCome)' <=> HasBetFor(s, RaceToCome)
  BY <1>1, <1>2 DEF HasBetFor
<1>5. \A s \in Spectators : MoneyLeft(s)' = MoneyLeft(s)
  BY <1>1 DEF MoneyLeft
<1> QED
  BY <1>1, <1>2, <1>3, <1>4, <1>5, NothingIsSettled

(* The event keeps the promise of the bookmaker, in events of any size and *)
(* however late the messages are: every bet is recorded before its race is *)
(* started, at most once and with money its spectator has (placeABet,      *)
(* acceptTheBets), and is paid once, for the right race, at the odds of    *)
(* that race, if its horse was reported as the winner                      *)
(* (areThereAnyWinners, haveIWon, goCollectTheGains).                      *)
THEOREM HippodromeBetsAreSettled == Spec => BetsAreSettled
<1>1. ASSUME MoneyInv, MoneyInv', AbilityInv, ParadeInv, BetsInv, StartInv, RacesInv, WinnersInv,
             HonourInv, [Next]_vars
      PROVE  [bookmaker!Next]_(bookmaker!vars)
  <2>1. CASE BrokerNext
    BY <1>1, <2>1, BrokerIsBooked
  <2>2. CASE \E s \in Spectators : SpectatorNext(s)
    BY <1>1, <2>2, SpectatorIsBooked
  <2>3. CASE UNCHANGED bookVars
    BY <2>3, OthersAreNotBooked
  <2> QED
    BY <1>1, <2>1, <2>2, <2>3, OthersLeaveBooks DEF Next
<1> QED
  BY <1>1, BooksInit, MoneyIsCovered, AbilitiesAreKnown, ParadeIsInOrder, BetsAreInOrder,
     StartsAreInOrder, RacesAreInOrder, WinnersAreOfTheRace, BetsAreHonoured, PTL
     DEF Spec, BetsAreSettled, bookmaker!Spec

-----------------------------------------------------------------------------
(* The use of the stable.                                                  *)

(* The horses of the batch that have called proceedToStable(int).          *)
Came ==
  {h \in HorseJockeys :
     \/ horsePc[h] = "stable.proceedToStable(int)" /\ stableCall[h] # "none"
     \/ horsePc[h] \notin {"unborn", "bettingCentre.setAbility", "stable.proceedToStable(int)"}}

(* The stable has counted every batch so far and those of this one that    *)
(* came, and the race it knows is the one the broker has summoned.         *)
ArrivalsInv ==
  /\ numberOfHorsesOnStable = batch * NUMBER_OF_PAIRS_HORSE_JOCKEY + Cardinality(Came)
  /\ currentRaceNumber = IF brokerPc = "stable.summonHorsesToPaddock"
                         THEN brokerRace - 1 ELSE brokerRace
  /\ stableCall[Broker] # "none"
       => brokerPc = "stable.summonHorsesToPaddock" /\ argument[Broker] = brokerRace
  /\ \A h \in HorseJockeys :
       stableCall[h] # "none"
         => horsePc[h] \in {"stable.proceedToStable(int)", "stable.proceedToStable()"}

LEMMA CameIsFinite ==
  /\ IsFiniteSet(Came) /\ Cardinality(Came) \in Nat
  /\ Cardinality(Came) <= NUMBER_OF_PAIRS_HORSE_JOCKEY
  /\ Cardinality(Came) = NUMBER_OF_PAIRS_HORSE_JOCKEY <=> Came = HorseJockeys
<1>1. Came \in SUBSET HorseJockeys /\ IsFiniteSet(HorseJockeys)
  BY ConfigurationAssumption DEF ConfigurationAssumption, Came
<1> QED
  BY <1>1, FS_Subset, FS_CardinalityType DEF NUMBER_OF_PAIRS_HORSE_JOCKEY

LEMMA ArrivalsInit == Init => ArrivalsInv
<1> SUFFICES ASSUME Init PROVE ArrivalsInv
  OBVIOUS
<1> USE DEF Init, stable!Init, stable!Threads, stable!None
<1>1. Came = {}
  BY DEF Came
<1>2. Cardinality(Came) = 0 /\ 0 * NUMBER_OF_PAIRS_HORSE_JOCKEY = 0
  BY <1>1, Sizes, FS_EmptySet
<1>3. batch * NUMBER_OF_PAIRS_HORSE_JOCKEY = 0
  BY <1>2
<1> QED
  BY <1>2, <1>3 DEF ArrivalsInv

(* A step that calls no method of the stable.                              *)
LEMMA OthersKeepArrivals ==
  ASSUME ArrivalsInv, Came' = Came, UNCHANGED <<stableVars, batch>>,
         UNCHANGED <<brokerPc, brokerRace>>
           \/ /\ stableCall[Broker] = "none"
              /\ currentRaceNumber = IF brokerPc' = "stable.summonHorsesToPaddock"
                                     THEN brokerRace' - 1 ELSE brokerRace',
         \A h \in HorseJockeys :
            horsePc'[h] = horsePc[h] \/ stableCall[h] = "none"
  PROVE  ArrivalsInv'
BY DEF ArrivalsInv, stableVars

LEMMA BrokerKeepsArrivals ==
  ASSUME ArrivalsInv, BetTypes, StableSleepers, BrokerNext
  PROVE  ArrivalsInv'
<1>0. /\ UNCHANGED <<horsePc, batch>>
      /\ brokerRace \in Nat /\ brokerPc \in BrokerPcs
      /\ stableCall \in [StableThreads -> StableMethods] /\ argument \in [StableThreads -> Nat]
  BY DEF BetTypes, StableSleepers, BrokerNext, BrokerSummonsHorses, BrokerAnnouncesRace,
     BrokerAcceptsBets, BrokerStartsRace, BrokerSupervisesRace, BrokerReportsResults,
     BrokerLooksForWinners, BrokerHonoursBets, BrokerSetsRace, BrokerEntertainsGuests,
     BrokerReturns, horseVars
<1>1. CASE BrokerSummonsHorses
  <2>1. /\ brokerPc = "stable.summonHorsesToPaddock"
        /\ UNCHANGED <<brokerRace, numberOfHorsesOnStable>>
        /\ brokerPc' = IF stableCall'[Broker] = "none" THEN "controlCentre.summonHorsesToPaddock"
                       ELSE "stable.summonHorsesToPaddock"
        /\ stable!SummonOrWait(brokerRace)
    BY <1>1 DEF BrokerSummonsHorses, BrokerReturns, StableAnswers, stable!SummonOrWait,
       stable!summonHorsesToPaddock, stable!resumeSummonHorsesToPaddock, stable!Notified,
       stable!Summon, stable!stableVars, ArrivalsInv
  <2>2. /\ argument' = [argument EXCEPT ![Broker] = brokerRace]
        /\ \/ /\ stableCall' = [stableCall EXCEPT ![Broker] = "summonHorsesToPaddock(int)"]
              /\ UNCHANGED currentRaceNumber
           \/ /\ stableCall' = [stableCall EXCEPT ![Broker] = "none"]
              /\ currentRaceNumber' = brokerRace
    BY <2>1 DEF stable!SummonOrWait, stable!Wait, stable!NotifyAllAndReturn, stable!Summon,
       stable!None, stable!stableVars, stable!WaitWhile
  <2>3. argument'[Broker] = brokerRace /\ \A h \in HorseJockeys : stableCall'[h] = stableCall[h]
    BY <1>0, <2>2, DistinctClients DEF StableThreads
  <2>4. Came' = Came
    BY <1>0, <2>3 DEF Came
  <2>5. \/ stableCall'[Broker] = "summonHorsesToPaddock(int)" /\ UNCHANGED currentRaceNumber
        \/ stableCall'[Broker] = "none" /\ currentRaceNumber' = brokerRace
    BY <1>0, <2>2 DEF StableThreads
  <2>6. numberOfHorsesOnStable' = batch' * NUMBER_OF_PAIRS_HORSE_JOCKEY + Cardinality(Came')
    BY <1>0, <2>1, <2>4 DEF ArrivalsInv
  <2>7. \A h \in HorseJockeys :
          stableCall'[h] # "none"
            => horsePc'[h] \in {"stable.proceedToStable(int)", "stable.proceedToStable()"}
    BY <1>0, <2>3 DEF ArrivalsInv
  <2>8. CASE stableCall'[Broker] = "none"
    BY <2>1, <2>5, <2>6, <2>7, <2>8 DEF ArrivalsInv
  <2>9. CASE stableCall'[Broker] # "none"
    BY <2>1, <2>3, <2>5, <2>6, <2>7, <2>9 DEF ArrivalsInv
  <2> QED
    BY <2>8, <2>9
<1>2. CASE ~BrokerSummonsHorses
  <2>1. UNCHANGED stableVars /\ brokerPc # "stable.summonHorsesToPaddock"
    BY <1>2 DEF BrokerNext, BrokerAnnouncesRace,
     BrokerAcceptsBets, BrokerStartsRace, BrokerSupervisesRace, BrokerReportsResults,
     BrokerLooksForWinners, BrokerHonoursBets, BrokerSetsRace, BrokerEntertainsGuests,
     BrokerReturns, InControlCentre, InRacingTrack, InBettingCentre, InNoRegion
  <2>2. stableCall[Broker] = "none" /\ currentRaceNumber = brokerRace
    BY <2>1 DEF ArrivalsInv
  <2>3. AfterTheBets \in {"racingTrack.setRace", "controlCentre.entertainTheGuests"}
    BY DEF AfterTheBets
  <2>4. brokerRace = IF brokerPc' = "stable.summonHorsesToPaddock"
                     THEN brokerRace' - 1 ELSE brokerRace'
    <3> USE <1>0 DEF BrokerReturns
    <3>1. CASE BrokerSetsRace
      BY <3>1 DEF BrokerSetsRace
    <3>2. CASE BrokerLooksForWinners \/ BrokerHonoursBets
      BY <2>3, <3>2 DEF BrokerLooksForWinners, BrokerHonoursBets
    <3>3. CASE ~BrokerSetsRace /\ ~BrokerLooksForWinners /\ ~BrokerHonoursBets
      BY <1>2, <3>3 DEF BrokerNext, BrokerAnnouncesRace, BrokerAcceptsBets, BrokerStartsRace,
         BrokerSupervisesRace, BrokerReportsResults, BrokerEntertainsGuests
    <3> QED
      BY <3>1, <3>2, <3>3
  <2>5. Came' = Came
    BY <1>0, <2>1 DEF Came, stableVars
  <2> QED
    BY <1>0, <2>1, <2>2, <2>4, <2>5, OthersKeepArrivals
<1> QED
  BY <1>1, <1>2

LEMMA HorseKeepsArrivals ==
  ASSUME ArrivalsInv, BatchTypes, StableSleepers, NEW h \in HorseJockeys, HorseNext(h)
  PROVE  ArrivalsInv'
<1> DEFINE n == NUMBER_OF_PAIRS_HORSE_JOCKEY
<1>0. /\ UNCHANGED <<brokerPc, brokerRace, batch>>
      /\ \E pc : horsePc' = [horsePc EXCEPT ![h] = pc]
      /\ batch \in Nat /\ n \in Nat /\ batch * n \in Nat
      /\ stableCall \in [StableThreads -> StableMethods] /\ argument \in [StableThreads -> Nat]
      /\ horsePc \in [HorseJockeys -> HorsePcs]
  <2>1. \A i, j \in Nat : i * j \in Nat
    OBVIOUS
  <2> QED
    BY <2>1, Sizes DEF BatchTypes, StableSleepers, HorseNext, HorseSetsAbility, HorseArrivesAtStable,
     HorseLeavesForPaddock, HorseParades, HorseLeavesPaddock, HorseLinesUp,
     HorseChecksFinishLine, HorseMoves, HorseFinishes, HorseGoesToRest, HorseReturns, brokerVars
<1>1. \A g \in HorseJockeys \ {h} : horsePc'[g] = horsePc[g]
  BY <1>0
<1>2. CASE HorseArrivesAtStable(h)
  <2>1. \E m \in {"none", "proceedToStable(int)"} : stableCall' = [stableCall EXCEPT ![h] = m]
    BY <1>2 DEF HorseArrivesAtStable, stable!proceedToStableForRace,
       stable!resumeProceedToStableForRace, stable!WaitWhile, stable!None, stable!ForRace
  <2>2. PICK m \in {"none", "proceedToStable(int)"} : stableCall' = [stableCall EXCEPT ![h] = m]
    BY <2>1
  <2>3. /\ stableCall'[h] = m /\ stableCall'[Broker] = stableCall[Broker]
        /\ \A g \in HorseJockeys \ {h} : stableCall'[g] = stableCall[g]
    BY <1>0, <2>2, DistinctClients DEF StableThreads
  <2>4. /\ horsePc[h] = "stable.proceedToStable(int)"
        /\ horsePc'[h] = IF m = "none" THEN "controlCentre.proceedToPaddock"
                         ELSE "stable.proceedToStable(int)"
    BY <1>0, <1>2, <2>3 DEF HorseArrivesAtStable, HorseReturns, StableAnswers
  <2>5. /\ UNCHANGED currentRaceNumber /\ argument'[Broker] = argument[Broker]
        /\ \/ stableCall[h] = "none" /\ numberOfHorsesOnStable' = numberOfHorsesOnStable + 1
           \/ stableCall[h] # "none" /\ UNCHANGED numberOfHorsesOnStable
    BY <1>0, <1>2, DistinctClients DEF HorseArrivesAtStable, stable!proceedToStableForRace,
       stable!resumeProceedToStableForRace, stable!Outside, stable!Notified, stable!None,
       stable!ForRace, stable!stableVars, StableThreads
  <2>6. Came' = Came \cup {h} /\ (h \in Came <=> stableCall[h] # "none")
    BY <1>1, <2>3, <2>4 DEF Came
  <2>7. Cardinality(Came') = IF stableCall[h] = "none" THEN Cardinality(Came) + 1
                             ELSE Cardinality(Came)
    BY <2>6, CameIsFinite, FS_AddElement
  <2>8. numberOfHorsesOnStable' = batch * n + Cardinality(Came')
    BY <1>0, <2>5, <2>7, CameIsFinite DEF ArrivalsInv
  <2>9. \A g \in HorseJockeys :
          stableCall'[g] # "none"
            => horsePc'[g] \in {"stable.proceedToStable(int)", "stable.proceedToStable()"}
    BY <1>1, <2>3, <2>4 DEF ArrivalsInv
  <2> QED
    BY <1>0, <2>3, <2>5, <2>8, <2>9 DEF ArrivalsInv
<1>3. CASE HorseGoesToRest(h)
  <2>1. /\ UNCHANGED <<currentRaceNumber, numberOfHorsesOnStable, argument>>
        /\ \E m \in {"none", "proceedToStable()"} : stableCall' = [stableCall EXCEPT ![h] = m]
    <3>1. CASE stable!Outside(h) /\ UNCHANGED stable!vars
      BY <1>0, <3>1 DEF StableThreads, stable!Outside, stable!None, stable!vars, stable!stableVars
    <3>2. CASE stable!RestOrWait(h)
      BY <3>2, <1>0 DEF stable!RestOrWait, stable!WaitWhile, stable!None, stable!ToRest
    <3> QED
      BY <1>3, <3>1, <3>2 DEF HorseGoesToRest, stable!proceedToStable,
         stable!resumeProceedToStable
  <2>2. PICK m \in {"none", "proceedToStable()"} : stableCall' = [stableCall EXCEPT ![h] = m]
    BY <2>1
  <2>3. /\ stableCall'[h] = m /\ stableCall'[Broker] = stableCall[Broker]
        /\ \A g \in HorseJockeys \ {h} : stableCall'[g] = stableCall[g]
    BY <1>0, <2>2, DistinctClients DEF StableThreads
  <2>4. /\ horsePc[h] = "stable.proceedToStable()"
        /\ horsePc'[h] = IF m = "none" THEN "deceased" ELSE "stable.proceedToStable()"
    BY <1>0, <1>3, <2>3 DEF HorseGoesToRest, HorseReturns, StableAnswers
  <2>5. Came' = Came
    BY <1>1, <2>3, <2>4 DEF Came
  <2>6. \A g \in HorseJockeys :
          stableCall'[g] # "none"
            => horsePc'[g] \in {"stable.proceedToStable(int)", "stable.proceedToStable()"}
    BY <1>1, <2>3, <2>4 DEF ArrivalsInv
  <2> QED
    BY <1>0, <2>1, <2>3, <2>5, <2>6 DEF ArrivalsInv
<1>4. CASE ~HorseArrivesAtStable(h) /\ ~HorseGoesToRest(h)
  <2>1. /\ UNCHANGED stableVars
        /\ horsePc[h] \notin {"stable.proceedToStable(int)", "stable.proceedToStable()"}
    BY <1>4 DEF HorseNext, HorseSetsAbility, HorseLeavesForPaddock, HorseParades,
       HorseLeavesPaddock, HorseLinesUp, HorseChecksFinishLine, HorseMoves, HorseFinishes,
       HorseReturns, InControlCentre, InPaddock, InRacingTrack, InBettingCentre
  <2>2. stableCall[h] = "none"
    BY <2>1 DEF ArrivalsInv
  <2>3. \/ /\ horsePc[h] = "bettingCentre.setAbility"
           /\ horsePc'[h] = "stable.proceedToStable(int)"
        \/ /\ horsePc[h] \notin {"unborn", "bettingCentre.setAbility",
                                 "stable.proceedToStable(int)"}
           /\ horsePc'[h] \notin {"unborn", "bettingCentre.setAbility",
                                  "stable.proceedToStable(int)"}
    BY <1>0, <1>4 DEF HorseNext, HorseSetsAbility, HorseLeavesForPaddock, HorseParades,
       HorseLeavesPaddock, HorseLinesUp, HorseChecksFinishLine, HorseMoves, HorseFinishes,
       HorseReturns
  <2>4. Came' = Came
    BY <1>1, <2>1, <2>2, <2>3 DEF Came, stableVars
  <2> QED
    BY <1>0, <1>1, <2>1, <2>2, <2>4, OthersKeepArrivals
<1> QED
  BY <1>2, <1>3, <1>4

LEMMA LauncherKeepsArrivals ==
  ASSUME ArrivalsInv, BatchTypes, StableSleepers, LauncherNext
  PROVE  ArrivalsInv'
<1> DEFINE n == NUMBER_OF_PAIRS_HORSE_JOCKEY
<1>0. /\ UNCHANGED <<stableVars, brokerPc, brokerRace>>
      /\ batch \in Nat /\ n \in Nat
      /\ horsePc \in [HorseJockeys -> HorsePcs]
  BY Sizes DEF BatchTypes, LauncherNext, LaunchNextBatch, LaunchHorse, InNoRegion, brokerVars
<1>1. CASE LaunchNextBatch
  <2>1. /\ \A h \in HorseJockeys : horsePc[h] = "deceased" /\ horsePc'[h] = "unborn"
        /\ batch' = batch + 1
    BY <1>1 DEF LaunchNextBatch
  <2>2. Came = HorseJockeys /\ Came' = {}
    BY <2>1 DEF Came
  <2>3. Cardinality(Came) = n /\ Cardinality(Came') = 0
    BY <2>2, CameIsFinite, FS_EmptySet
  <2>4. (batch + 1) * n + 0 = batch * n + n
    BY <1>0
  <2>5. numberOfHorsesOnStable' = batch' * n + Cardinality(Came')
    <3>1. numberOfHorsesOnStable' = batch * n + n
      BY <1>0, <2>3 DEF stableVars, ArrivalsInv
    <3> QED
      BY <2>1, <2>3, <2>4, <3>1
  <2>6. \A h \in HorseJockeys : stableCall'[h] = "none"
    BY <1>0, <2>1 DEF stableVars, ArrivalsInv
  <2> QED
    BY <1>0, <2>5, <2>6 DEF ArrivalsInv, stableVars
<1>2. ASSUME NEW h \in HorseJockeys, LaunchHorse(h)
      PROVE  ArrivalsInv'
  <2>1. /\ horsePc[h] = "unborn" /\ horsePc'[h] = "bettingCentre.setAbility"
        /\ \A g \in HorseJockeys \ {h} : horsePc'[g] = horsePc[g]
        /\ UNCHANGED batch
    BY <1>0, <1>2 DEF LaunchHorse
  <2>2. Came' = Came /\ stableCall[h] = "none"
    BY <1>0, <2>1 DEF Came, stableVars, ArrivalsInv
  <2> QED
    BY <1>0, <2>1, <2>2, OthersKeepArrivals
<1> QED
  BY <1>1, <1>2 DEF LauncherNext

LEMMA SpectatorLeavesStable ==
  ASSUME NEW s \in Spectators, SpectatorNext(s)
  PROVE  UNCHANGED <<stableVars, horseVars, brokerVars>>
BY DEF SpectatorNext, SpectatorWaitsForRace, SpectatorIsCounted, LastSpectatorTellsBroker,
   SpectatorAppraisesHorses, SpectatorPlacesBet, SpectatorWatchesRace, SpectatorAsksResult,
   SpectatorCollectsGains, SpectatorRelaxes, SpectatorReturns, InControlCentre, InPaddock,
   InBettingCentre, InNoRegion

LEMMA ArrivalsNext ==
  ArrivalsInv /\ BetTypes /\ BatchTypes /\ StableSleepers /\ [Next]_vars => ArrivalsInv'
<1> SUFFICES ASSUME ArrivalsInv, BetTypes, BatchTypes, StableSleepers, [Next]_vars
             PROVE  ArrivalsInv'
  OBVIOUS
<1>1. CASE BrokerNext
  BY <1>1, BrokerKeepsArrivals
<1>2. CASE \E h \in HorseJockeys : HorseNext(h)
  BY <1>2, HorseKeepsArrivals
<1>3. CASE LauncherNext
  BY <1>3, LauncherKeepsArrivals
<1>4. CASE (\E s \in Spectators : SpectatorNext(s)) \/ UNCHANGED vars
  <2>1. UNCHANGED <<stableVars, horseVars, brokerVars>>
    BY <1>4, SpectatorLeavesStable DEF vars
  <2>2. Came' = Came
    BY <2>1 DEF Came, stableVars, horseVars
  <2> QED
    BY <2>1, <2>2, OthersKeepArrivals DEF horseVars, brokerVars
<1> QED
  BY <1>1, <1>2, <1>3, <1>4 DEF Next

LEMMA StableIsUsed ==
  ArrivalsInv /\ RacesInv /\ StableSleepers /\ BatchTypes /\ [Next]_vars
    => [stable!Next]_(stable!vars)
<1> SUFFICES ASSUME ArrivalsInv, RacesInv, StableSleepers, BatchTypes, [Next]_vars
             PROVE  [stable!Next]_(stable!vars)
  OBVIOUS
<1> DEFINE n == NUMBER_OF_PAIRS_HORSE_JOCKEY
<1>1. CASE UNCHANGED stableVars
  BY <1>1 DEF stableVars, stable!vars, stable!stableVars
<1>2. ASSUME NEW h \in HorseJockeys, HorseArrivesAtStable(h)
      PROVE  stable!Next
  <2>1. CASE stable!proceedToStableForRace(h, horseRace[h])
    <3>1. horseRace[h] \in stable!Races
      BY DEF RacesInv, Races, stable!Races
    <3>2. h \notin Came /\ Came # HorseJockeys
      BY <1>2, <2>1 DEF Came, HorseArrivesAtStable, HorseReturns, stable!proceedToStableForRace,
         stable!Outside, stable!None
    <3>3. /\ batch \in Nat /\ batch + 1 <= NUMBER_OF_RACES /\ n \in Nat
          /\ NUMBER_OF_RACES \in Nat
      BY Sizes DEF RacesInv, Races
    <3>4. Cardinality(Came) \in Nat /\ Cardinality(Came) < n
      BY <3>2, <3>3, CameIsFinite
    <3>5. batch * n + n = n * (batch + 1)
      BY <3>3
    <3>6. n * (batch + 1) <= n * NUMBER_OF_RACES
      BY <3>3
    <3>7. batch * n + Cardinality(Came) < batch * n + n
      <4>1. batch * n \in Nat
        BY <3>3
      <4> QED
        BY <3>3, <3>4, <4>1
    <3>8. numberOfHorsesOnStable < n * NUMBER_OF_RACES
      <4>1. /\ batch * n \in Nat /\ n * NUMBER_OF_RACES \in Nat
            /\ numberOfHorsesOnStable = batch * n + Cardinality(Came)
        BY <3>3 DEF ArrivalsInv
      <4> HIDE DEF n
      <4> QED
        BY <3>3, <3>4, <3>5, <3>6, <3>7, <4>1
    <3>9. stable!MaxArrivals = n * NUMBER_OF_RACES
      BY DEF stable!MaxArrivals, stable!NUMBER_OF_PAIRS_HORSE_JOCKEY,
         NUMBER_OF_PAIRS_HORSE_JOCKEY, stable!Cardinality, Cardinality
    <3> QED
      BY <2>1, <3>1, <3>8, <3>9 DEF stable!Next
  <2>2. CASE stable!resumeProceedToStableForRace(h)
    BY <2>2 DEF stable!Next
  <2> QED
    BY <1>2, <2>1, <2>2 DEF HorseArrivesAtStable
<1>3. ASSUME NEW h \in HorseJockeys, HorseGoesToRest(h)
      PROVE  stable!Next
  BY <1>3 DEF HorseGoesToRest, stable!Next
<1>4. CASE BrokerSummonsHorses
  <2>1. currentRaceNumber + 1 = brokerRace /\ brokerRace \in stable!Races
    <3>1. brokerPc = "stable.summonHorsesToPaddock" /\ brokerRace \in Races
      BY <1>4 DEF BrokerSummonsHorses, BrokerReturns, RacesInv
    <3>2. currentRaceNumber = brokerRace - 1 /\ brokerRace \in Nat
      BY <3>1, Sizes DEF ArrivalsInv, Races
    <3> QED
      BY <3>1, <3>2 DEF Races, stable!Races
  <2> QED
    BY <1>4, <2>1 DEF BrokerSummonsHorses, stable!Next
<1>5. CASE BrokerNext
  BY <1>1, <1>4, <1>5 DEF BrokerNext, BrokerAnnouncesRace, BrokerAcceptsBets, BrokerStartsRace,
     BrokerSupervisesRace, BrokerReportsResults, BrokerLooksForWinners, BrokerHonoursBets,
     BrokerSetsRace, BrokerEntertainsGuests, InControlCentre, InRacingTrack, InBettingCentre,
     InNoRegion
<1>6. CASE \E s \in Spectators : SpectatorNext(s)
  BY <1>1, <1>6, SpectatorLeavesStable
<1>7. ASSUME NEW h \in HorseJockeys, HorseNext(h)
      PROVE  [stable!Next]_(stable!vars)
  BY <1>1, <1>2, <1>3, <1>7 DEF HorseNext, HorseSetsAbility, HorseLeavesForPaddock, HorseParades,
     HorseLeavesPaddock, HorseLinesUp, HorseChecksFinishLine, HorseMoves, HorseFinishes,
     InControlCentre, InPaddock, InRacingTrack, InBettingCentre
<1>8. CASE LauncherNext
  BY <1>1, <1>8 DEF LauncherNext, LaunchNextBatch, LaunchHorse, InNoRegion
<1>9. CASE UNCHANGED vars
  BY <1>1, <1>9 DEF vars
<1> QED
  BY <1>5, <1>6, <1>7, <1>8, <1>9 DEF Next

(* The clients use the stable as its own specification assumes, in events  *)
(* of any size: the races are summoned one after the other, each when it   *)
(* is the broker's turn, and no horse calls proceedToStable(int) twice, so *)
(* that everything proved of the stable alone holds in the simulation.     *)
THEOREM HippodromeUsesStable == Spec => StableUse
<1>1. BetsInv => BetTypes
  BY DEF BetsInv
<1>2. StartInv => BatchTypes
  BY DEF StartInv
<1>3. Spec => []StableSleepers
  BY <1>1, StableSleepersInit, StableSleepersNext, BetsAreInOrder, RacesAreInOrder, PTL DEF Spec
<1>4. Spec => []ArrivalsInv
  BY <1>1, <1>2, <1>3, ArrivalsInit, ArrivalsNext, BetsAreInOrder, StartsAreInOrder, PTL DEF Spec
<1>5. Init => stable!Init
  BY DEF Init
<1> QED
  BY <1>2, <1>3, <1>4, <1>5, StableIsUsed, RacesAreInOrder, StartsAreInOrder, PTL
     DEF Spec, StableUse, stable!Spec

-----------------------------------------------------------------------------
(* The use of the betting centre.                                          *)

(* The broker names winners only after it has accepted bets, and the safe  *)
(* is never emptied.                                                       *)
SafeInv ==
  /\ moneyOnSafe \in Nat
  /\ brokerPc \notin BeforeAcceptance => ~brokerHaveNotAcceptedTheBet

LEMMA SafeInit == Init => SafeInv
BY DEF Init, bettingCentre!Init, SafeInv, BeforeAcceptance

LEMMA BrokerKeepsSafe ==
  ASSUME SafeInv, BetTypes, BrokerNext
  PROVE  SafeInv'
<1> USE DEF BrokerReturns
<1>1. CASE BrokerAcceptsBets
  <2>1. /\ moneyOnSafe' = moneyOnSafe
        /\ brokerPc = "bettingCentre.acceptTheBets"
        /\ bettingCall'[Broker] # "none" => brokerPc' = brokerPc
    BY <1>1 DEF BrokerAcceptsBets, BettingCentreAnswers, bettingCentre!acceptTheBets,
       bettingCentre!acceptTheBetsFails, bettingCentre!resumeAcceptTheBets,
       bettingCentre!AcceptOrWait, bettingCentre!betVars
  <2>2. CASE brokerPc' = brokerPc
    BY <2>1, <2>2 DEF SafeInv, BeforeAcceptance
  <2>3. CASE ~brokerHaveNotAcceptedTheBet'
    BY <2>1, <2>3 DEF SafeInv
  <2>4. brokerPc' = brokerPc \/ ~brokerHaveNotAcceptedTheBet'
    <3>1. ~brokerHaveNotAcceptedTheBet'
          \/ \E m \in {"acceptTheBets", "failed"} :
               bettingCall' = [bettingCall EXCEPT ![Broker] = m]
      BY <1>1 DEF BrokerAcceptsBets, bettingCentre!acceptTheBets,
         bettingCentre!acceptTheBetsFails, bettingCentre!resumeAcceptTheBets,
         bettingCentre!AcceptOrWait, bettingCentre!Wait, bettingCentre!Accept,
         bettingCentre!NoReply, bettingCentre!WaitWhile
    <3> QED
      BY <2>1, <3>1 DEF BetTypes
  <2> QED
    BY <2>2, <2>3, <2>4
<1>2. CASE ~BrokerAcceptsBets
  <2>1. UNCHANGED <<moneyOnSafe, brokerHaveNotAcceptedTheBet>>
    BY <1>2 DEF BrokerNext, BrokerSummonsHorses, BrokerAnnouncesRace, BrokerStartsRace,
       BrokerSupervisesRace, BrokerReportsResults, BrokerLooksForWinners, BrokerHonoursBets,
       BrokerSetsRace, BrokerEntertainsGuests, InStable, InControlCentre, InRacingTrack,
       InNoRegion, bettingVars, bettingCentre!areThereAnyWinners, bettingCentre!honourTheBets,
       bettingCentre!resumeHonourTheBets, bettingCentre!HonourOrWait, bettingCentre!betVars
  <2>2. brokerPc' \in BeforeAcceptance \/ brokerPc \notin BeforeAcceptance
    BY <1>2 DEF BrokerNext, BrokerSummonsHorses, BrokerAnnouncesRace, BrokerStartsRace,
       BrokerSupervisesRace, BrokerReportsResults, BrokerLooksForWinners, BrokerHonoursBets,
       BrokerSetsRace, BrokerEntertainsGuests, BeforeAcceptance
  <2> QED
    BY <2>1, <2>2 DEF SafeInv
<1> QED
  BY <1>1, <1>2

(* What a spectator does in the betting centre, and the money it hands in. *)
LEMMA SpectatorKeepsSafe ==
  ASSUME SafeInv, BetsInv, MoneyInv, NEW s \in Spectators, SpectatorNext(s)
  PROVE  SafeInv'
<1>1. brokerPc' = brokerPc
  BY SpectatorsKeepStart DEF brokerVars
<1>2. CASE UNCHANGED <<moneyOnSafe, brokerHaveNotAcceptedTheBet>>
  BY <1>1, <1>2 DEF SafeInv
<1>3. ASSUME NEW amount \in BetsOf(s), NEW horse \in HorseJockeys,
             bettingCentre!placeABet(s, amount, horse)
      PROVE  SafeInv'
  <2>1. /\ moneyOnSafe' = moneyOnSafe + amount
        /\ UNCHANGED brokerHaveNotAcceptedTheBet
    BY <1>3 DEF bettingCentre!placeABet
  <2>2. amount \in Nat
    <3>1. PICK p \in Portions : amount = (money[s] * p[1]) \div p[2]
      BY DEF BetsOf
    <3> QED
      BY <3>1, PortionOfMoney DEF MoneyInv, MoneyTypes
  <2> QED
    BY <1>1, <2>1, <2>2 DEF SafeInv
<1> QED
  BY <1>2, <1>3 DEF SpectatorNext, SpectatorWaitsForRace, SpectatorIsCounted,
     LastSpectatorTellsBroker, SpectatorAppraisesHorses, SpectatorPlacesBet,
     SpectatorWatchesRace, SpectatorAsksResult, SpectatorCollectsGains, SpectatorRelaxes,
     InControlCentre, InPaddock, InNoRegion, InStable, bettingVars,
     bettingCentre!resumePlaceABet, bettingCentre!haveIWon, bettingCentre!resumeHaveIWon,
     bettingCentre!AskOrWait, bettingCentre!goCollectTheGains,
     bettingCentre!resumeGoCollectTheGains, bettingCentre!betVars

LEMMA SafeNext == SafeInv /\ BetsInv /\ MoneyInv /\ [Next]_vars => SafeInv'
<1> SUFFICES ASSUME SafeInv, BetsInv, MoneyInv, [Next]_vars PROVE SafeInv'
  OBVIOUS
<1>1. CASE BrokerNext
  BY <1>1, BrokerKeepsSafe DEF BetsInv
<1>2. CASE \E s \in Spectators : SpectatorNext(s)
  BY <1>2, SpectatorKeepsSafe
<1>3. CASE UNCHANGED <<moneyOnSafe, brokerHaveNotAcceptedTheBet, brokerPc>>
  BY <1>3 DEF SafeInv
<1>4. ASSUME NEW h \in HorseJockeys, HorseNext(h)
      PROVE  UNCHANGED <<moneyOnSafe, brokerHaveNotAcceptedTheBet, brokerPc>>
  BY <1>4 DEF HorseNext, HorseSetsAbility, HorseArrivesAtStable, HorseLeavesForPaddock,
     HorseParades, HorseLeavesPaddock, HorseLinesUp, HorseChecksFinishLine, HorseMoves,
     HorseFinishes, HorseGoesToRest, HorseReturns, brokerVars, InStable, InControlCentre,
     InPaddock, InRacingTrack, bettingVars, bettingCentre!setAbility, bettingCentre!betVars
<1>5. CASE LauncherNext \/ UNCHANGED vars
  BY <1>3, <1>5 DEF LauncherNext, LaunchNextBatch, LaunchHorse, InNoRegion, InStable,
     bettingVars, brokerVars, vars
<1> QED
  BY <1>1, <1>2, <1>3, <1>4, <1>5 DEF Next

LEMMA SafeIsKept == Spec => []SafeInv
BY SafeInit, SafeNext, BetsAreInOrder, MoneyIsCovered, PTL DEF Spec

(* A spectator hands in a bet of the race that comes, which fits the safe, *)
(* and collects once.                                                      *)
LEMMA SpectatorUsesBettingCentre ==
  ASSUME BetsInv, HonourInv, MoneyInv, SafeInv, moneyOnSafe' <= MaxMoney,
         NEW s \in Spectators, SpectatorNext(s)
  PROVE  [bettingCentre!SpectatorNext(s)]_(bettingCentre!vars)
<1>1. CASE UNCHANGED bettingVars
  BY <1>1 DEF bettingVars, bettingCentre!vars, bettingCentre!betVars, bettingCentre!oddsVars,
     bettingCentre!payVars, bettingCentre!resultVars
<1>2. CASE SpectatorPlacesBet(s)
  <2>1. ASSUME NEW amount \in BetsOf(s), NEW horse \in HorseJockeys,
               bettingCentre!placeABet(s, amount, horse)
        PROVE  bettingCentre!SpectatorNext(s)
    <3>1. moneyOnSafe' = moneyOnSafe + amount /\ bettingCall[s] = "none"
      BY <2>1 DEF bettingCentre!placeABet, bettingCentre!Outside, bettingCentre!None
    <3>2. amount \in Nat
      <4>1. PICK p \in Portions : amount = (money[s] * p[1]) \div p[2]
        BY DEF BetsOf
      <4> QED
        BY <4>1, PortionOfMoney DEF MoneyInv, MoneyTypes
    <3>3. amount \in 0 .. MaxMoney /\ moneyOnSafe + amount <= MaxMoney
      BY <3>1, <3>2, HippodromeAssumption DEF SafeInv, HippodromeAssumption
    <3>4. ~bettingCentre!HasQueued(s)
      <4>1. spectatorPc[s] = "bettingCentre.placeABet"
        BY <1>2 DEF SpectatorPlacesBet, SpectatorReturns
      <4>2. ~HasBetFor(s, Accepted)
        BY <3>1, <4>1, BrokerProgress DEF HasBetFor, BetsInv, BetTypes, SpectatorInOrder,
           FollowsTheBroker
      <4> QED
        BY <4>2 DEF BetsInv, SpectatorInOrder, BetsOnceForARace
    <3> QED
      BY <2>1, <3>3, <3>4 DEF bettingCentre!SpectatorNext
  <2>2. CASE bettingCentre!resumePlaceABet(s)
    BY <2>2 DEF bettingCentre!SpectatorNext
  <2> QED
    BY <1>2, <2>1, <2>2 DEF SpectatorPlacesBet
<1>3. CASE SpectatorCollectsGains(s)
  <2>1. CASE bettingCentre!goCollectTheGains(s)
    <3>1. s \in winners /\ spectatorPc[s] = "bettingCentre.goCollectTheGains"
          /\ bettingCall[s] = "none"
      BY <1>3, <2>1 DEF SpectatorCollectsGains, SpectatorReturns, HonourInv,
         bettingCentre!goCollectTheGains, bettingCentre!Outside, bettingCentre!None
    <3>2. ~Arrived(s)
      BY <3>1, BrokerProgress DEF Arrived, BetsInv, BetTypes, SpectatorInOrder,
         FollowsTheBroker
    <3> DEFINE come == {t \in winners : Arrived(t)}
    <3>3. come \subseteq winners /\ come # winners /\ winnersArrived = Cardinality(come)
      BY <3>1, <3>2 DEF HonourInv
    <3>4. IsFiniteSet(winners)
      BY ConfigurationAssumption, FS_Subset DEF ConfigurationAssumption, HonourInv
    <3> HIDE DEF come
    <3>5. /\ Cardinality(come) <= Cardinality(winners)
          /\ Cardinality(come) = Cardinality(winners) => come = winners
          /\ IsFiniteSet(come)
      BY <3>3, <3>4, FS_Subset
    <3>6. Cardinality(come) \in Nat /\ Cardinality(winners) \in Nat
      BY <3>4, <3>5, FS_CardinalityType
    <3>7. winnersArrived < Cardinality(winners)
      BY <3>3, <3>5, <3>6
    <3>8. winnersArrived < bettingCentre!Cardinality(winners)
      BY <3>7 DEF bettingCentre!Cardinality, Cardinality
    <3> QED
      BY <2>1, <3>1, <3>8 DEF bettingCentre!SpectatorNext, bettingCentre!Won
  <2>2. CASE bettingCentre!resumeGoCollectTheGains(s)
    BY <2>2 DEF bettingCentre!SpectatorNext
  <2> QED
    BY <1>3, <2>1, <2>2 DEF SpectatorCollectsGains
<1>4. CASE SpectatorAsksResult(s)
  BY <1>4 DEF SpectatorAsksResult, bettingCentre!SpectatorNext
<1> QED
  BY <1>1, <1>2, <1>3, <1>4 DEF SpectatorNext, SpectatorWaitsForRace, SpectatorIsCounted,
     LastSpectatorTellsBroker, SpectatorAppraisesHorses, SpectatorWatchesRace,
     SpectatorRelaxes, InControlCentre, InPaddock, InNoRegion, InStable

LEMMA BettingCentreIsUsed ==
  /\ BetsInv /\ HonourInv /\ MoneyInv /\ SafeInv /\ RacesInv /\ BatchTypes
  /\ (moneyOnSafe <= MaxMoney)' /\ [Next]_vars
  => [bettingCentre!Next]_(bettingCentre!vars)
<1> SUFFICES ASSUME BetsInv, HonourInv, MoneyInv, SafeInv, RacesInv, BatchTypes,
                    moneyOnSafe' <= MaxMoney, [Next]_vars
             PROVE  [bettingCentre!Next]_(bettingCentre!vars)
  OBVIOUS
<1>1. CASE UNCHANGED bettingVars
  BY <1>1 DEF bettingVars, bettingCentre!vars, bettingCentre!betVars, bettingCentre!oddsVars,
     bettingCentre!payVars, bettingCentre!resultVars
<1>2. CASE BrokerNext
  <2>1. CASE BrokerAcceptsBets
    BY <2>1 DEF BrokerAcceptsBets, bettingCentre!Next, bettingCentre!BrokerNext
  <2>2. CASE BrokerHonoursBets
    BY <2>2 DEF BrokerHonoursBets, bettingCentre!Next, bettingCentre!BrokerNext
  <2>3. CASE BrokerLooksForWinners
    <3>1. ~brokerHaveNotAcceptedTheBet
      BY <2>3 DEF BrokerLooksForWinners, BrokerReturns, SafeInv, BeforeAcceptance
    <3> QED
      BY <2>3, <3>1 DEF BrokerLooksForWinners, bettingCentre!Next, bettingCentre!BrokerNext,
         RacesInv
  <2> QED
    BY <1>1, <1>2, <2>1, <2>2, <2>3 DEF BrokerNext, BrokerSummonsHorses, BrokerAnnouncesRace,
       BrokerStartsRace, BrokerSupervisesRace, BrokerReportsResults, BrokerSetsRace,
       BrokerEntertainsGuests, InStable, InControlCentre, InRacingTrack, InNoRegion
<1>3. ASSUME NEW s \in Spectators, SpectatorNext(s)
      PROVE  [bettingCentre!Next]_(bettingCentre!vars)
  BY <1>3, SpectatorUsesBettingCentre DEF bettingCentre!Next
<1>4. ASSUME NEW h \in HorseJockeys, HorseNext(h)
      PROVE  [bettingCentre!Next]_(bettingCentre!vars)
  <2>1. CASE HorseSetsAbility(h)
    <3>1. horseAbility[h] \in Abilities
      BY DEF BatchTypes
    <3> QED
      BY <2>1, <3>1 DEF HorseSetsAbility, bettingCentre!Next
  <2> QED
    BY <1>1, <1>4, <2>1 DEF HorseNext, HorseArrivesAtStable, HorseLeavesForPaddock,
       HorseParades, HorseLeavesPaddock, HorseLinesUp, HorseChecksFinishLine, HorseMoves,
       HorseFinishes, HorseGoesToRest, InStable, InControlCentre, InPaddock, InRacingTrack
<1>5. CASE LauncherNext \/ UNCHANGED vars
  BY <1>1, <1>5 DEF LauncherNext, LaunchNextBatch, LaunchHorse, InNoRegion, InStable, vars
<1> QED
  BY <1>2, <1>3, <1>4, <1>5 DEF Next

(* The clients use the betting centre as its own specification assumes, in *)
(* events of any size whose bets fit in the bound the model puts on the    *)
(* safe (MaxMoney; the code has none): nobody bets twice for one           *)
(* acceptance, the broker names the winners of accepted bets only, and     *)
(* only the winners collect, once each.  So everything proved of the       *)
(* betting centre alone holds in the simulation (placeABet,                *)
(* areThereAnyWinners, goCollectTheGains).                                 *)
THEOREM HippodromeUsesBettingCentre ==
  Spec /\ [](moneyOnSafe <= MaxMoney) => BettingCentreUse
<1>1. StartInv => BatchTypes
  BY DEF StartInv
<1>2. Init => bettingCentre!Init
  BY DEF Init
<1> QED
  BY <1>1, <1>2, BettingCentreIsUsed, BetsAreInOrder, BetsAreHonoured, MoneyIsCovered, SafeIsKept,
     RacesAreInOrder, StartsAreInOrder, PTL DEF Spec, BettingCentreUse, bettingCentre!Spec

-----------------------------------------------------------------------------
(* The paddock alone, called by its clients in any order.                  *)

(* The bounds on the calls are numbers.                                    *)
LEMMA PaddockAloneBounds == paddock!MaxHorses \in Nat /\ paddock!MaxSpectators \in Nat
<1>1. paddock!MaxHorses = 2 * (NUMBER_OF_PAIRS_HORSE_JOCKEY * NUMBER_OF_RACES)
  BY Sizes DEF paddock!MaxHorses, paddock!NUMBER_OF_PAIRS_HORSE_JOCKEY,
       NUMBER_OF_PAIRS_HORSE_JOCKEY, paddock!Cardinality, Cardinality
<1> QED
  BY <1>1, Sizes DEF paddock!MaxSpectators, paddock!NUMBER_OF_SPECTATORS, NUMBER_OF_SPECTATORS,
     paddock!Cardinality, Cardinality

(* A thread that sleeps is in the method whose condition MustWait names;   *)
(* that is all NoMissedSignal needs to be inductive.                       *)
PaddockAloneInv == paddock!TypeOK /\ paddock!NoMissedSignal

LEMMA PaddockAloneInit == paddock!Init => PaddockAloneInv
<1> SUFFICES ASSUME paddock!Init PROVE PaddockAloneInv
  OBVIOUS
<1>1. paddock!TypeOK
  BY PaddockAloneBounds DEF paddock!Init, paddock!TypeOK
<1>2. paddock!NoMissedSignal
  BY DEF paddock!Init, paddock!NoMissedSignal
<1> QED
  BY <1>1, <1>2 DEF PaddockAloneInv

-----------------------------------------------------------------------------
(* The horses' methods.                                                    *)

LEMMA PaddockAloneParade ==
  ASSUME PaddockAloneInv, NEW h \in HorseJockeys, paddock!Outside(h),
         currentNumberOfHorses < paddock!MaxHorses, paddock!proceedToPaddock(h)
  PROVE  PaddockAloneInv'
<1> USE DEF PaddockAloneInv, paddock!Threads, paddock!None, paddock!Parade, paddock!Appraise,
   paddock!Wait, paddock!NotifyAllAndReturn, paddock!WaitWhile
<1>1. paddock!TypeOK'
  BY PaddockAloneBounds DEF paddock!TypeOK, paddock!proceedToPaddock, paddock!ParadeOrWait
<1>2. paddock!NoMissedSignal'
  BY DistinctClients DEF paddock!TypeOK, paddock!NoMissedSignal, paddock!MustWait,
     paddock!proceedToPaddock, paddock!ParadeOrWait, paddock!Outside
<1> QED
  BY <1>1, <1>2

LEMMA PaddockAloneResumedParade ==
  ASSUME PaddockAloneInv, NEW h \in HorseJockeys, paddock!resumeProceedToPaddock(h)
  PROVE  PaddockAloneInv'
<1> USE DEF PaddockAloneInv, paddock!Threads, paddock!None, paddock!Parade, paddock!Appraise,
   paddock!Wait, paddock!NotifyAllAndReturn, paddock!WaitWhile, paddock!paddockVars
<1>1. paddock!TypeOK'
  BY DEF paddock!TypeOK, paddock!resumeProceedToPaddock, paddock!ParadeOrWait
<1>2. paddock!NoMissedSignal'
  BY DistinctClients DEF paddock!TypeOK, paddock!NoMissedSignal, paddock!MustWait,
     paddock!resumeProceedToPaddock, paddock!ParadeOrWait, paddock!Notified
<1> QED
  BY <1>1, <1>2

LEMMA PaddockAloneDeparture ==
  ASSUME PaddockAloneInv, NEW h \in HorseJockeys,
         currentNumberOfHorses < paddock!MaxHorses, paddock!proceedToStartLine(h)
  PROVE  PaddockAloneInv'
<1> USE DEF PaddockAloneInv, paddock!Threads, paddock!None, paddock!Parade, paddock!Appraise
<1>1. paddock!TypeOK'
  BY PaddockAloneBounds DEF paddock!TypeOK, paddock!proceedToStartLine
<1>2. paddock!NoMissedSignal'
  BY DEF paddock!TypeOK, paddock!NoMissedSignal, paddock!MustWait, paddock!proceedToStartLine
<1> QED
  BY <1>1, <1>2

-----------------------------------------------------------------------------
(* The spectators' methods.                                                *)

LEMMA PaddockAloneCount ==
  ASSUME PaddockAloneInv, NEW s \in Spectators,
         currentNumberOfSpectators < paddock!MaxSpectators, paddock!countSpectator(s)
  PROVE  PaddockAloneInv'
<1>1. paddock!TypeOK'
  BY PaddockAloneBounds DEF PaddockAloneInv, paddock!TypeOK, paddock!countSpectator
<1>2. paddock!NoMissedSignal'
  BY DEF PaddockAloneInv, paddock!NoMissedSignal, paddock!MustWait, paddock!countSpectator
<1> QED
  BY <1>1, <1>2 DEF PaddockAloneInv

LEMMA PaddockAloneAppraisal ==
  ASSUME PaddockAloneInv, NEW s \in Spectators, NEW isTheLastSpectator \in BOOLEAN,
         paddock!goCheckHorses(s, isTheLastSpectator)
  PROVE  PaddockAloneInv'
<1> USE DEF PaddockAloneInv, paddock!Threads, paddock!None, paddock!Parade, paddock!Appraise,
   paddock!WaitWhile
<1>1. paddock!TypeOK'
  BY DEF paddock!TypeOK, paddock!goCheckHorses
<1>2. paddock!NoMissedSignal'
  BY DistinctClients DEF paddock!TypeOK, paddock!NoMissedSignal, paddock!MustWait,
     paddock!goCheckHorses, paddock!Outside
<1> QED
  BY <1>1, <1>2

LEMMA PaddockAloneResumedAppraisal ==
  ASSUME PaddockAloneInv, NEW s \in Spectators, paddock!resumeGoCheckHorses(s)
  PROVE  PaddockAloneInv'
<1> USE DEF PaddockAloneInv, paddock!Threads, paddock!None, paddock!Parade, paddock!Appraise,
   paddock!WaitWhile
<1>1. paddock!TypeOK'
  BY DEF paddock!TypeOK, paddock!resumeGoCheckHorses
<1>2. paddock!NoMissedSignal'
  BY DistinctClients DEF paddock!TypeOK, paddock!NoMissedSignal, paddock!MustWait,
     paddock!resumeGoCheckHorses, paddock!Notified
<1> QED
  BY <1>1, <1>2

-----------------------------------------------------------------------------

LEMMA PaddockAloneNext == PaddockAloneInv /\ [paddock!Next]_(paddock!vars) => PaddockAloneInv'
<1> SUFFICES ASSUME PaddockAloneInv, [paddock!Next]_(paddock!vars) PROVE PaddockAloneInv'
  OBVIOUS
<1>1. ASSUME NEW h \in HorseJockeys, currentNumberOfHorses < paddock!MaxHorses,
             paddock!proceedToPaddock(h)
      PROVE  PaddockAloneInv'
  BY <1>1, PaddockAloneParade DEF paddock!proceedToPaddock
<1>2. ASSUME NEW h \in HorseJockeys, paddock!resumeProceedToPaddock(h)
      PROVE  PaddockAloneInv'
  BY <1>2, PaddockAloneResumedParade
<1>3. ASSUME NEW h \in HorseJockeys, currentNumberOfHorses < paddock!MaxHorses,
             paddock!proceedToStartLine(h)
      PROVE  PaddockAloneInv'
  BY <1>3, PaddockAloneDeparture
<1>4. ASSUME NEW s \in Spectators, currentNumberOfSpectators < paddock!MaxSpectators,
             paddock!countSpectator(s)
      PROVE  PaddockAloneInv'
  BY <1>4, PaddockAloneCount
<1>5. ASSUME NEW s \in Spectators, NEW isTheLastSpectator \in BOOLEAN,
             paddock!goCheckHorses(s, isTheLastSpectator)
      PROVE  PaddockAloneInv'
  BY <1>5, PaddockAloneAppraisal
<1>6. ASSUME NEW s \in Spectators, paddock!resumeGoCheckHorses(s)
      PROVE  PaddockAloneInv'
  BY <1>6, PaddockAloneResumedAppraisal
<1>7. CASE UNCHANGED paddock!vars
  BY <1>7 DEF PaddockAloneInv, paddock!TypeOK, paddock!NoMissedSignal, paddock!MustWait,
     paddock!vars, paddock!paddockVars
<1> QED
  BY <1>1, <1>2, <1>3, <1>4, <1>5, <1>6, <1>7 DEF paddock!Next

LEMMA PaddockAloneSpec == paddock!Spec => []PaddockAloneInv
  BY PaddockAloneInit, PaddockAloneNext, PTL DEF paddock!Spec

(* The counts of the paddock stay within the calls of the event.           *)
THEOREM PaddockTypeOK == paddock!Spec => []paddock!TypeOK
<1>1. PaddockAloneInv => paddock!TypeOK
  BY DEF PaddockAloneInv
<1> QED
  BY <1>1, PaddockAloneSpec, PTL

(* No wakeup is lost in the paddock: although every spectator that leaves  *)
(* re-arms the flag the horses wait for, none of them sleeps while it is   *)
(* cleared, and no spectator sleeps once the last horse has left.          *)
THEOREM PaddockNoMissedSignal == paddock!Spec => []paddock!NoMissedSignal
<1>1. PaddockAloneInv => paddock!NoMissedSignal
  BY DEF PaddockAloneInv
<1> QED
  BY <1>1, PaddockAloneSpec, PTL
=============================================================================
