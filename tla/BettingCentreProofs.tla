------------------------- MODULE BettingCentreProofs -------------------------
(***************************************************************************)
(* The betting centre alone, for any number of spectators, any abilities   *)
(* and amounts.                                                            *)
(***************************************************************************)
EXTENDS BettingCentre, ConfigurationProofs, SequenceTheorems

(* TypeOK but for the odds, in three parts.                                *)
TypeOfTheBets ==
  /\ bettingQueue \in Seq(Spectators)
  /\ bets \in [Spectators -> [horse : HorseJockeys \cup {NoHorse}, amount : BetAmounts \cup {0}]]
  /\ moneyOnSafe \in 0 .. MaxMoneyOnSafe
  /\ horsesAbilities \in [HorseJockeys -> Abilities \cup {0}]
  /\ brokerHaveNotAcceptedTheBet \in BOOLEAN

TypeOfTheGains ==
  /\ winners \subseteq Spectators
  /\ winnersMustNotReceiveTheirMoney \in BOOLEAN
  /\ allWinnersAreNotOnBettingCentre \in BOOLEAN
  /\ brokerDoesNotAllowToProceedToHaveIWon \in BOOLEAN
  /\ winnersArrived \in 0 .. NUMBER_OF_SPECTATORS

TypeOfTheThreads ==
  /\ call \in [Threads -> {None, Accept, Honour, Place, AskResult, Collect, NoReply}]
  /\ waitSet \subseteq Threads

Types == TypeOfTheBets /\ TypeOfTheGains /\ TypeOfTheThreads

(* Nobody sleeps in acceptTheBets with a full queue, as it is the bet that *)
(* fills the queue that notifies; the queue is emptied only by the broker, *)
(* who lets every bettor go, for good.                                     *)
Inv == Types /\ NoMissedSignal /\ QueueCountsBettors

(* A method that leaves the flags and the queue alone concerns its own     *)
(* thread only.                                                            *)
LEMMA OthersSleepOn ==
  ASSUME TypeOfTheThreads, NoMissedSignal, NEW t \in Threads,
         \A u \in Threads \ {t} : u \in waitSet' => u \in waitSet,
         \A u \in Threads \ {t} : call'[u] = call[u],
         waitSet' \subseteq Threads,
         t \in waitSet' => MustWait(t)',
         UNCHANGED <<bettingQueue, brokerHaveNotAcceptedTheBet, allWinnersAreNotOnBettingCentre,
                     winnersMustNotReceiveTheirMoney, brokerDoesNotAllowToProceedToHaveIWon>>
  PROVE  NoMissedSignal'
<1> SUFFICES ASSUME NEW u \in waitSet', u # t PROVE MustWait(u)'
  BY DEF NoMissedSignal
<1>1. MustWait(u) /\ call'[u] = call[u]
  BY DEF NoMissedSignal, TypeOfTheThreads
<1>2. AllHaveBet' = AllHaveBet
  BY DEF AllHaveBet
<1> QED
  BY <1>1, <1>2 DEF MustWait

LEMMA InitInv == Init => Inv
<1> SUFFICES ASSUME Init PROVE Inv
  OBVIOUS
<1>1. TypeOfTheBets
  BY EmptySeq, BettingAssumption DEF Init, TypeOfTheBets, NoBet, BettingAssumption
<1>2. TypeOfTheGains
  BY Sizes DEF Init, TypeOfTheGains
<1>3. TypeOfTheThreads
  BY DEF Init, TypeOfTheThreads
<1>4. NoMissedSignal
  BY DEF Init, NoMissedSignal
<1>5. QueueCountsBettors
  BY EmptySeq DEF Init, QueueCountsBettors, Threads, None, Place
<1> QED
  BY <1>1, <1>2, <1>3, <1>4, <1>5 DEF Inv, Types

-----------------------------------------------------------------------------
(* acceptTheBets().                                                        *)

LEMMA AcceptOrWaitPreserves ==
  ASSUME Inv, Outside(Broker) \/ Notified(Broker, Accept), AcceptOrWait,
         winnersMustNotReceiveTheirMoney' = winnersMustNotReceiveTheirMoney,
         allWinnersAreNotOnBettingCentre' \in {TRUE, allWinnersAreNotOnBettingCentre},
         brokerDoesNotAllowToProceedToHaveIWon'
           \in {TRUE, brokerDoesNotAllowToProceedToHaveIWon},
         UNCHANGED <<horsesAbilities, winners, winnersArrived>>
  PROVE  Inv'
<1> USE DEF Inv, Types, Threads, None, Accept, Honour, Place, AskResult, Collect, NoReply
<1>0. Broker \notin Spectators
  BY DistinctClients
<1>1. TypeOfTheGains'
  BY DEF TypeOfTheGains
<1>2. CASE /\ ~AllHaveBet
           /\ Wait(Broker, Accept)
           /\ UNCHANGED betVars
  <2>1. TypeOfTheBets'
    BY <1>2 DEF TypeOfTheBets, betVars
  <2>2. TypeOfTheThreads'
    BY <1>2 DEF TypeOfTheThreads, Wait, WaitWhile
  <2>3. NoMissedSignal'
    BY <1>2 DEF TypeOfTheGains, TypeOfTheThreads, Wait, WaitWhile, NoMissedSignal, MustWait,
                betVars, AllHaveBet
  <2>4. QueueCountsBettors'
    BY <1>0, <1>2 DEF TypeOfTheThreads, Wait, WaitWhile, QueueCountsBettors, HasQueued, betVars
  <2> QED
    BY <1>1, <2>1, <2>2, <2>3, <2>4
<1>3. CASE /\ AllHaveBet
           /\ brokerHaveNotAcceptedTheBet' = FALSE
           /\ bettingQueue' = <<>>
           /\ NotifyAllAndReturn(Broker)
           /\ UNCHANGED <<bets, moneyOnSafe>>
  <2>1. TypeOfTheBets'
    BY <1>3, EmptySeq DEF TypeOfTheBets
  <2>2. TypeOfTheThreads' /\ waitSet' = {}
    BY <1>3 DEF TypeOfTheThreads, NotifyAllAndReturn, WaitWhile
  <2>3. NoMissedSignal'
    BY <2>2 DEF NoMissedSignal
  <2>4. QueueCountsBettors'
    BY <1>3, EmptySeq DEF QueueCountsBettors
  <2> QED
    BY <1>1, <2>1, <2>2, <2>3, <2>4
<1> QED
  BY <1>2, <1>3 DEF AcceptOrWait

LEMMA AcceptPreservesInv ==
  ASSUME Inv, acceptTheBets \/ resumeAcceptTheBets
  PROVE  Inv'
<1>1. CASE acceptTheBets
  BY <1>1, AcceptOrWaitPreserves DEF acceptTheBets
<1>2. CASE resumeAcceptTheBets
  BY <1>2, AcceptOrWaitPreserves DEF resumeAcceptTheBets, oddsVars, payVars, resultVars
<1> QED
  BY <1>1, <1>2

LEMMA AcceptFailurePreservesInv ==
  ASSUME Inv, acceptTheBetsFails
  PROVE  Inv'
<1> USE DEF Inv, Types, Threads, None, Accept, Honour, Place, AskResult, Collect, NoReply,
        betVars, oddsVars, payVars, resultVars, acceptTheBetsFails
<1>1. TypeOfTheBets' /\ TypeOfTheGains'
  BY DEF TypeOfTheBets, TypeOfTheGains
<1>2. TypeOfTheThreads'
  BY DEF TypeOfTheThreads
<1>3. NoMissedSignal'
  BY DEF TypeOfTheThreads, Outside, NoMissedSignal, MustWait, AllHaveBet
<1>4. QueueCountsBettors'
  BY DistinctClients DEF TypeOfTheThreads, QueueCountsBettors, HasQueued
<1> QED
  BY <1>1, <1>2, <1>3, <1>4

-----------------------------------------------------------------------------
(* placeABet().                                                            *)

LEMMA BetPreservesInv ==
  ASSUME Inv, NEW s \in Spectators, ~HasQueued(s), NEW amount \in BetAmounts,
         NEW h \in HorseJockeys, moneyOnSafe + amount <= MaxMoneyOnSafe,
         placeABet(s, amount, h)
  PROVE  Inv'
<1> USE DEF Inv, Types, Threads, None, Accept, Honour, Place, AskResult, Collect, NoReply,
        oddsVars, payVars, resultVars, placeABet
<1>1. /\ bettingQueue' \in Seq(Spectators)
      /\ Len(bettingQueue) \in Nat
      /\ Len(bettingQueue') = Len(bettingQueue) + 1
      /\ \A i \in 1 .. Len(bettingQueue) : bettingQueue'[i] = bettingQueue[i]
      /\ bettingQueue'[Len(bettingQueue) + 1] = s
  BY AppendProperties, LenProperties DEF TypeOfTheBets
<1>2. moneyOnSafe' \in 0 .. MaxMoneyOnSafe
  BY BettingAssumption DEF TypeOfTheBets, BettingAssumption
<1>3. TypeOfTheBets'
  BY <1>1, <1>2 DEF TypeOfTheBets
<1>4. TypeOfTheGains'
  BY DEF TypeOfTheGains
<1>5. TypeOfTheThreads'
  BY DEF TypeOfTheThreads, WaitWhile
<1>6. NoMissedSignal'
  BY DEF TypeOfTheThreads, WaitWhile, NoMissedSignal, MustWait
<1>7. \A i, j \in 1 .. Len(bettingQueue') : bettingQueue'[i] = bettingQueue'[j] => i = j
  BY <1>1 DEF QueueCountsBettors, HasQueued
<1>8. ASSUME brokerHaveNotAcceptedTheBet', NEW t \in Spectators, call'[t] = Place
      PROVE  HasQueued(t)'
  <2>1. CASE t = s
    BY <1>1, <2>1 DEF HasQueued
  <2>2. CASE t # s
    <3>1. call[t] = Place /\ HasQueued(t)
      BY <1>8, <2>2 DEF TypeOfTheThreads, WaitWhile, QueueCountsBettors
    <3> QED
      BY <1>1, <3>1 DEF HasQueued
  <2> QED
    BY <2>1, <2>2
<1> QED
  BY <1>3, <1>4, <1>5, <1>6, <1>7, <1>8 DEF QueueCountsBettors

LEMMA ResumedBetPreservesInv ==
  ASSUME Inv, NEW s \in Spectators, resumePlaceABet(s)
  PROVE  Inv'
<1> USE DEF Inv, Types, Threads, None, Accept, Honour, Place, AskResult, Collect, NoReply,
        betVars, oddsVars, payVars, resultVars, resumePlaceABet, WaitWhile
<1>1. TypeOfTheBets' /\ TypeOfTheGains'
  BY DEF TypeOfTheBets, TypeOfTheGains
<1>2. TypeOfTheThreads'
  BY DEF TypeOfTheThreads
<1>3. NoMissedSignal'
  <2>1. s \in waitSet' => MustWait(s)'
    BY DEF TypeOfTheThreads, MustWait, Notified, Outside
  <2>2. \A u \in Threads \ {s} : (u \in waitSet' => u \in waitSet) /\ call'[u] = call[u]
    BY DEF TypeOfTheThreads
  <2> QED
    BY <1>2, <2>1, <2>2, OthersSleepOn DEF TypeOfTheThreads
<1>4. QueueCountsBettors'
  BY DEF TypeOfTheThreads, QueueCountsBettors, HasQueued, Notified
<1> QED
  BY <1>1, <1>2, <1>3, <1>4

LEMMA AbilityPreservesInv ==
  ASSUME Inv, NEW h \in HorseJockeys, NEW ability \in Abilities, setAbility(h, ability)
  PROVE  Inv'
<1> USE DEF Inv, Types, betVars, payVars, resultVars, setAbility
<1>1. TypeOfTheBets' /\ TypeOfTheGains' /\ TypeOfTheThreads'
  BY DEF TypeOfTheBets, TypeOfTheGains, TypeOfTheThreads
<1>2. NoMissedSignal'
  BY DEF NoMissedSignal, MustWait, AllHaveBet
<1>3. QueueCountsBettors'
  BY DEF QueueCountsBettors, HasQueued
<1> QED
  BY <1>1, <1>2, <1>3

-----------------------------------------------------------------------------
(* areThereAnyWinners() and haveIWon().                                    *)

LEMMA WinnersPreserveInv ==
  ASSUME Inv, NEW winner, areThereAnyWinners(winner)
  PROVE  Inv'
<1> USE DEF Inv, Types, Threads, None, Accept, Honour, Place, AskResult, Collect, NoReply,
        betVars, oddsVars, areThereAnyWinners, NotifyAllAndReturn, WaitWhile
<1>1. TypeOfTheBets'
  BY DEF TypeOfTheBets
<1>2. TypeOfTheGains'
  <2>1. BettorsOn(winner) \subseteq Spectators /\ 0 \in 0 .. NUMBER_OF_SPECTATORS
    BY Sizes DEF BettorsOn
  <2> QED
    BY <2>1 DEF TypeOfTheGains
<1>3. TypeOfTheThreads'
  BY DEF TypeOfTheThreads
<1>4. NoMissedSignal'
  BY DEF NoMissedSignal
<1>5. QueueCountsBettors'
  BY DistinctClients DEF TypeOfTheThreads, QueueCountsBettors, HasQueued
<1> QED
  BY <1>1, <1>2, <1>3, <1>4, <1>5

LEMMA QuestionPreservesInv ==
  ASSUME Inv, NEW s \in Spectators, haveIWon(s) \/ resumeHaveIWon(s)
  PROVE  Inv'
<1> USE DEF Inv, Types, Threads, None, Accept, Honour, Place, AskResult, Collect, NoReply,
        betVars, oddsVars, payVars, resultVars, haveIWon, resumeHaveIWon, AskOrWait, WaitWhile
<1>1. TypeOfTheBets' /\ TypeOfTheGains'
  BY DEF TypeOfTheBets, TypeOfTheGains
<1>2. TypeOfTheThreads'
  BY DEF TypeOfTheThreads
<1>3. NoMissedSignal'
  <2>0. s \notin waitSet
    BY DEF NoMissedSignal, MustWait, Notified, Outside
  <2>1. s \in waitSet' => MustWait(s)'
    BY <2>0 DEF TypeOfTheThreads, MustWait
  <2>2. \A u \in Threads \ {s} : (u \in waitSet' => u \in waitSet) /\ call'[u] = call[u]
    BY DEF TypeOfTheThreads
  <2> QED
    BY <1>2, <2>1, <2>2, OthersSleepOn DEF TypeOfTheThreads
<1>4. QueueCountsBettors'
  BY DEF TypeOfTheThreads, QueueCountsBettors, HasQueued
<1> QED
  BY <1>1, <1>2, <1>3, <1>4

-----------------------------------------------------------------------------
(* honourTheBets() and goCollectTheGains().                                *)

LEMMA HonourPreservesInv ==
  ASSUME Inv, honourTheBets \/ resumeHonourTheBets
  PROVE  Inv'
<1> USE DEF Inv, Types, Threads, None, Accept, Honour, Place, AskResult, Collect, NoReply,
        betVars, oddsVars, payVars, resultVars, honourTheBets, resumeHonourTheBets,
        HonourOrWait, Wait, NotifyAllAndReturn, WaitWhile
<1>1. TypeOfTheBets'
  BY DEF TypeOfTheBets
<1>2. TypeOfTheGains'
  BY DEF TypeOfTheGains
<1>3. TypeOfTheThreads'
  BY DEF TypeOfTheThreads
<1>4. NoMissedSignal'
  <2>1. CASE allWinnersAreNotOnBettingCentre
    <3>1. MustWait(Broker)'
      BY <2>1 DEF TypeOfTheThreads, MustWait
    <3>2. \A u \in Threads \ {Broker} : (u \in waitSet' => u \in waitSet) /\ call'[u] = call[u]
      BY <2>1 DEF TypeOfTheThreads
    <3> QED
      BY <1>3, <2>1, <3>1, <3>2, OthersSleepOn DEF TypeOfTheThreads
  <2>2. CASE ~allWinnersAreNotOnBettingCentre
    BY <2>2 DEF NoMissedSignal
  <2> QED
    BY <2>1, <2>2
<1>5. QueueCountsBettors'
  BY DistinctClients DEF TypeOfTheThreads, QueueCountsBettors, HasQueued
<1> QED
  BY <1>1, <1>2, <1>3, <1>4, <1>5

LEMMA CollectPreservesInv ==
  ASSUME Inv, NEW s \in Spectators, winnersArrived < Cardinality(winners),
         goCollectTheGains(s)
  PROVE  Inv'
<1> USE DEF Inv, Types, Threads, None, Accept, Honour, Place, AskResult, Collect, NoReply,
        betVars, oddsVars, resultVars, goCollectTheGains, WaitWhile
<1>1. Cardinality(winners) \in Nat /\ Cardinality(winners) <= NUMBER_OF_SPECTATORS
  BY FS_Subset, FS_CardinalityType, ConfigurationAssumption
     DEF TypeOfTheGains, ConfigurationAssumption, NUMBER_OF_SPECTATORS
<1>2. TypeOfTheBets'
  BY DEF TypeOfTheBets
<1>3. winnersArrived' \in 0 .. NUMBER_OF_SPECTATORS
  BY <1>1, Sizes DEF TypeOfTheGains
<1>4. TypeOfTheGains'
  BY <1>3 DEF TypeOfTheGains
<1>5. TypeOfTheThreads'
  BY DEF TypeOfTheThreads
<1>6. NoMissedSignal'
  <2>1. CASE winnersArrived + 1 = Cardinality(winners)
    BY <2>1 DEF TypeOfTheThreads, NoMissedSignal, MustWait
  <2>2. CASE winnersArrived + 1 # Cardinality(winners)
    <3>1. allWinnersAreNotOnBettingCentre' = allWinnersAreNotOnBettingCentre
      BY <2>2 DEF TypeOfTheGains
    <3> QED
      BY <2>2, <3>1 DEF TypeOfTheThreads, Outside, NoMissedSignal, MustWait, AllHaveBet
  <2> QED
    BY <2>1, <2>2
<1>7. QueueCountsBettors'
  BY DEF TypeOfTheThreads, QueueCountsBettors, HasQueued
<1> QED
  BY <1>2, <1>4, <1>5, <1>6, <1>7

LEMMA ResumedCollectPreservesInv ==
  ASSUME Inv, NEW s \in Spectators, resumeGoCollectTheGains(s)
  PROVE  Inv'
<1> USE DEF Inv, Types, Threads, None, Accept, Honour, Place, AskResult, Collect, NoReply,
        betVars, oddsVars, payVars, resultVars, resumeGoCollectTheGains, WaitWhile
<1>1. TypeOfTheBets' /\ TypeOfTheGains'
  BY DEF TypeOfTheBets, TypeOfTheGains
<1>2. TypeOfTheThreads'
  BY DEF TypeOfTheThreads
<1>3. NoMissedSignal'
  <2>1. s \in waitSet' => MustWait(s)'
    BY DEF TypeOfTheThreads, MustWait, Notified, Outside
  <2>2. \A u \in Threads \ {s} : (u \in waitSet' => u \in waitSet) /\ call'[u] = call[u]
    BY DEF TypeOfTheThreads
  <2> QED
    BY <1>2, <2>1, <2>2, OthersSleepOn DEF TypeOfTheThreads
<1>4. QueueCountsBettors'
  BY DEF TypeOfTheThreads, QueueCountsBettors, HasQueued
<1> QED
  BY <1>1, <1>2, <1>3, <1>4

-----------------------------------------------------------------------------

LEMMA NextInv == Inv /\ [Next]_vars => Inv'
<1> SUFFICES ASSUME Inv, [Next]_vars PROVE Inv'
  OBVIOUS
<1>1. ASSUME NEW s \in Spectators, SpectatorNext(s)
      PROVE  Inv'
  BY <1>1, BetPreservesInv, ResumedBetPreservesInv, QuestionPreservesInv,
     CollectPreservesInv, ResumedCollectPreservesInv DEF SpectatorNext
<1>2. CASE BrokerNext
  BY <1>2, AcceptPreservesInv, AcceptFailurePreservesInv, WinnersPreserveInv,
     HonourPreservesInv DEF BrokerNext
<1>3. ASSUME NEW h \in HorseJockeys, NEW ability \in Abilities, setAbility(h, ability)
      PROVE  Inv'
  BY <1>3, AbilityPreservesInv
<1>4. CASE UNCHANGED vars
  <2>1. Types'
    BY <1>4 DEF Inv, Types, TypeOfTheBets, TypeOfTheGains, TypeOfTheThreads, vars, betVars,
                oddsVars, payVars, resultVars
  <2>2. NoMissedSignal'
    BY <1>4 DEF Inv, NoMissedSignal, MustWait, AllHaveBet, vars, betVars, payVars, resultVars
  <2>3. QueueCountsBettors'
    BY <1>4 DEF Inv, QueueCountsBettors, HasQueued, vars, betVars
  <2> QED
    BY <2>1, <2>2, <2>3 DEF Inv
<1> QED
  BY <1>1, <1>2, <1>3, <1>4 DEF Next

LEMMA SpecInv == Spec => []Inv
  BY InitInv, NextInv, PTL DEF Spec

-----------------------------------------------------------------------------
(* The odds.                                                               *)

TypeOfTheOdds == horsesOdds \in [HorseJockeys -> Nat]

(* The sum of the abilities is divided by those that have been set.        *)
LEMMA OddsAreNumbers ==
  ASSUME TypeOfTheOdds, horsesAbilities \in [HorseJockeys -> Nat],
         NEW horses \in SUBSET WithAbility, evaluateOdds(horses)
  PROVE  TypeOfTheOdds'
<1>1. FoldFunction(+, 0, horsesAbilities) \in Nat
  BY SumIsNat, ConfigurationAssumption DEF ConfigurationAssumption
<1>2. \A h \in horses : horsesAbilities[h] \in Nat \ {0}
  BY DEF WithAbility
<1>3. ASSUME NEW m \in Nat, NEW n \in Nat \ {0}
      PROVE  m \div n \in Nat
  OBVIOUS
<1>4. \A h \in horses : FoldFunction(+, 0, horsesAbilities) \div horsesAbilities[h] \in Nat
  BY <1>1, <1>2, <1>3
<1> QED
  BY <1>4 DEF evaluateOdds, TypeOfTheOdds

LEMMA OddsNext == TypeOfTheOdds /\ Inv /\ [Next]_vars => TypeOfTheOdds'
<1> SUFFICES ASSUME TypeOfTheOdds, Inv, [Next]_vars PROVE TypeOfTheOdds'
  OBVIOUS
<1>1. CASE acceptTheBets \/ acceptTheBetsFails
  <2>0. Abilities \cup {0} \subseteq Nat
    BY BettingAssumption DEF BettingAssumption
  <2>1. horsesAbilities \in [HorseJockeys -> Nat]
    BY <2>0 DEF Inv, Types, TypeOfTheBets
  <2>2. \E horses \in SUBSET WithAbility : evaluateOdds(horses)
    BY <1>1 DEF acceptTheBets, acceptTheBetsFails, AbilitiesKnown
  <2> QED
    BY <2>1, <2>2, OddsAreNumbers
<1>2. CASE ~acceptTheBets /\ ~acceptTheBetsFails
  <2>1. UNCHANGED horsesOdds
    <3> USE DEF oddsVars
    <3>1. ASSUME NEW s \in Spectators, SpectatorNext(s)
          PROVE  UNCHANGED horsesOdds
      BY <3>1 DEF SpectatorNext, placeABet, resumePlaceABet, haveIWon, resumeHaveIWon,
         AskOrWait, goCollectTheGains, resumeGoCollectTheGains
    <3>2. CASE BrokerNext
      BY <1>2, <3>2 DEF BrokerNext, resumeAcceptTheBets,
         areThereAnyWinners, honourTheBets, resumeHonourTheBets, HonourOrWait
    <3>3. ASSUME NEW h \in HorseJockeys, NEW ability \in Abilities, setAbility(h, ability)
          PROVE  UNCHANGED horsesOdds
      BY <3>3 DEF setAbility
    <3>4. CASE UNCHANGED vars
      BY <3>4 DEF vars
    <3> QED
      BY <3>1, <3>2, <3>3, <3>4 DEF Next
  <2> QED
    BY <2>1 DEF TypeOfTheOdds
<1> QED
  BY <1>1, <1>2

(* The queue, the bets, the safe and the odds keep their types: in         *)
(* particular evaluateOdds() computes a number for every horse, whatever   *)
(* the number of horses and their abilities.                               *)
THEOREM BettingCentreTypeOK == Spec => []TypeOK
<1>1. Init => TypeOfTheOdds
  BY DEF Init, TypeOfTheOdds
<1>2. Inv /\ TypeOfTheOdds => TypeOK
  BY DEF Inv, Types, TypeOfTheBets, TypeOfTheGains, TypeOfTheThreads, TypeOfTheOdds, TypeOK
<1> QED
  BY <1>1, <1>2, OddsNext, SpecInv, PTL DEF Spec

(* No wakeup is lost in the betting centre: whoever waits for the bets,    *)
(* for the acceptance, for the results, for the winners or for the gains   *)
(* is notified by the method that brings them.                             *)
THEOREM BettingCentreNoMissedSignal == Spec => []NoMissedSignal
<1>1. Inv => NoMissedSignal
  BY DEF Inv
<1> QED
  BY <1>1, SpecInv, PTL

(* acceptTheBets never counts a spectator twice, and counts all that wait  *)
(* for it in placeABet.                                                    *)
THEOREM BettingCentreQueueCountsBettors == Spec => []QueueCountsBettors
<1>1. Inv => QueueCountsBettors
  BY DEF Inv
<1> QED
  BY <1>1, SpecInv, PTL
==============================================================================
