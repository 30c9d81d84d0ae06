---------------------------- MODULE BettingCentre ----------------------------
(***************************************************************************)
(* The betting centre: the spectators bet, the broker accepts the bets and *)
(* honours the winning ones after the race.                                *)
(***************************************************************************)
EXTENDS SimulationConfigurations, Monitor, Sequences, Functions

CONSTANTS
  Abilities,         \* the abilities a horse can have
  BetAmounts,        \* the amounts a spectator can bet
  MaxMoneyOnSafe     \* bound on moneyOnSafe, which the code only ever increases

ASSUME BettingAssumption ==
  /\ Abilities \subseteq Nat \ {0}
  /\ BetAmounts \subseteq Nat
  /\ MaxMoneyOnSafe \in Nat

VARIABLES
  bettingQueue,       \* the spectators that have bet since the last acceptance
  bets,               \* spectator -> the last bet
  winners,            \* the spectators whose bet won the last race
  moneyOnSafe,
  horsesOdds,
  horsesAbilities,
  brokerHaveNotAcceptedTheBet,
  winnersMustNotReceiveTheirMoney,
  allWinnersAreNotOnBettingCentre,
  brokerDoesNotAllowToProceedToHaveIWon,
  winnersArrived

betVars == <<bettingQueue, bets, moneyOnSafe, brokerHaveNotAcceptedTheBet>>
oddsVars == <<horsesOdds, horsesAbilities>>
payVars == <<winnersMustNotReceiveTheirMoney, allWinnersAreNotOnBettingCentre, winnersArrived>>
resultVars == <<winners, brokerDoesNotAllowToProceedToHaveIWon>>
vars == <<betVars, oddsVars, payVars, resultVars, call, waitSet>>

(* The threads that can block here and the methods they block in.  A       *)
(* thread that fails with an exception never answers its client.           *)
Threads == Spectators \cup {Broker}
Accept == "acceptTheBets"
Honour == "honourTheBets"
Place == "placeABet"
AskResult == "haveIWon"
Collect == "goCollectTheGains"
NoReply == "failed"

(* The array of bets starts with null references, and the array of winners *)
(* with zeros; haveIWon waits until areThereAnyWinners has replaced it.    *)
NoBet == [horse |-> NoHorse, amount |-> 0]

Init ==
  /\ bettingQueue = <<>>
  /\ bets = [s \in Spectators |-> NoBet]
  /\ winners = {}
  /\ moneyOnSafe = 0
  /\ horsesOdds = [h \in HorseJockeys |-> 0]
  /\ horsesAbilities = [h \in HorseJockeys |-> 0]
  /\ brokerHaveNotAcceptedTheBet = TRUE
  /\ winnersMustNotReceiveTheirMoney = TRUE
  /\ allWinnersAreNotOnBettingCentre = TRUE
  /\ brokerDoesNotAllowToProceedToHaveIWon = TRUE
  /\ winnersArrived = 0
  /\ call = [t \in Threads |-> None]
  /\ waitSet = {}

-----------------------------------------------------------------------------
(* acceptTheBets(): the odds are those of the abilities known on entry.    *)
(* evaluateOdds() replaces the odds of one horse after the other and fails *)
(* at the first that has set no ability.                                   *)

WithAbility == {h \in HorseJockeys : horsesAbilities[h] # 0}
AbilitiesKnown == WithAbility = HorseJockeys

evaluateOdds(horses) ==
  horsesOdds' = [h \in HorseJockeys |->
    IF h \in horses THEN FoldFunction(+, 0, horsesAbilities) \div horsesAbilities[h]
                    ELSE horsesOdds[h]]

(* Mutant: one bet is enough.                                              *)
SomeHaveBet == bettingQueue # <<>>

AllHaveBet == Len(bettingQueue) = NUMBER_OF_SPECTATORS

(* Mutant: the bettors are not told that their bets are accepted.          *)
AcceptInSecret ==
  \/ /\ ~AllHaveBet
     /\ Wait(Broker, Accept)
     /\ UNCHANGED betVars
  \/ /\ AllHaveBet
     /\ bettingQueue' = <<>>
     /\ NotifyAllAndReturn(Broker)
     /\ UNCHANGED <<bets, moneyOnSafe, brokerHaveNotAcceptedTheBet>>

AcceptOrWait ==
  \/ /\ ~AllHaveBet
     /\ Wait(Broker, Accept)
     /\ UNCHANGED betVars
  \/ /\ AllHaveBet
     /\ brokerHaveNotAcceptedTheBet' = FALSE
     /\ bettingQueue' = <<>>
     /\ NotifyAllAndReturn(Broker)
     /\ UNCHANGED <<bets, moneyOnSafe>>

(* Mutant: the arrival of the last race's winners is not forgotten.        *)
acceptTheBetsWithoutReset ==
  /\ Outside(Broker)
  /\ AbilitiesKnown
  /\ evaluateOdds(HorseJockeys)
  /\ brokerDoesNotAllowToProceedToHaveIWon' = TRUE
  /\ AcceptOrWait
  /\ UNCHANGED <<horsesAbilities, winners, payVars>>

acceptTheBets ==
  /\ Outside(Broker)
  /\ AbilitiesKnown
  /\ evaluateOdds(HorseJockeys)
  /\ brokerDoesNotAllowToProceedToHaveIWon' = TRUE
  /\ allWinnersAreNotOnBettingCentre' = TRUE
  /\ AcceptOrWait
  /\ UNCHANGED <<horsesAbilities, winners, winnersMustNotReceiveTheirMoney, winnersArrived>>

(* The horses before the one that set no ability have their odds already.  *)
acceptTheBetsFails ==
  /\ Outside(Broker)
  /\ ~AbilitiesKnown
  /\ \E before \in SUBSET WithAbility : evaluateOdds(before)
  /\ call' = [call EXCEPT ![Broker] = NoReply]
  /\ UNCHANGED <<horsesAbilities, betVars, payVars, resultVars, waitSet>>

resumeAcceptTheBets ==
  /\ Notified(Broker, Accept)
  /\ AcceptOrWait
  /\ UNCHANGED <<oddsVars, payVars, resultVars>>

-----------------------------------------------------------------------------
(* placeABet(): the bet is recorded before the spectator waits.  It        *)
(* returns the amount it was given.                                        *)

placeABet(s, amount, horse) ==
  /\ Outside(s)
  /\ bettingQueue' = Append(bettingQueue, s)
  /\ bets' = [bets EXCEPT ![s] = [horse |-> horse, amount |-> amount]]
  /\ moneyOnSafe' = moneyOnSafe + amount
  /\ WaitWhile(brokerHaveNotAcceptedTheBet, s, Place, {})
  /\ UNCHANGED <<brokerHaveNotAcceptedTheBet, oddsVars, payVars, resultVars>>

resumePlaceABet(s) ==
  /\ Notified(s, Place)
  /\ WaitWhile(brokerHaveNotAcceptedTheBet, s, Place, waitSet)
  /\ UNCHANGED <<betVars, oddsVars, payVars, resultVars>>

(* Mutant: the abilities of all the horses of a stall add up.              *)
addAbility(h, ability) ==
  /\ horsesAbilities' = [horsesAbilities EXCEPT ![h] = @ + ability]
  /\ UNCHANGED <<betVars, horsesOdds, payVars, resultVars, call, waitSet>>

setAbility(h, ability) ==
  /\ horsesAbilities' = [horsesAbilities EXCEPT ![h] = ability]
  /\ UNCHANGED <<betVars, horsesOdds, payVars, resultVars, call, waitSet>>

-----------------------------------------------------------------------------
(* areThereAnyWinners(): returns winners # {}.                             *)

BettorsOn(horse) == {s \in Spectators : bets[s].horse = horse}

(* Mutant: the winners of the last race are still counted.                 *)
areThereAnyMoreWinners(winner) ==
  /\ Outside(Broker)
  /\ winners' = BettorsOn(winner)
  /\ brokerDoesNotAllowToProceedToHaveIWon' = FALSE
  /\ NotifyAllAndReturn(Broker)
  /\ UNCHANGED <<betVars, oddsVars, payVars>>

(* Mutant: the winners of the last race stay on the list.                  *)
areThereAnyWinnersSoFar(winner) ==
  /\ Outside(Broker)
  /\ winnersArrived' = 0
  /\ winners' = winners \cup BettorsOn(winner)
  /\ brokerDoesNotAllowToProceedToHaveIWon' = FALSE
  /\ NotifyAllAndReturn(Broker)
  /\ UNCHANGED <<betVars, oddsVars, winnersMustNotReceiveTheirMoney,
                 allWinnersAreNotOnBettingCentre>>

areThereAnyWinners(winner) ==
  /\ Outside(Broker)
  /\ winnersArrived' = 0
  /\ winners' = BettorsOn(winner)
  /\ brokerDoesNotAllowToProceedToHaveIWon' = FALSE
  /\ NotifyAllAndReturn(Broker)
  /\ UNCHANGED <<betVars, oddsVars, winnersMustNotReceiveTheirMoney,
                 allWinnersAreNotOnBettingCentre>>

(* haveIWon(): returns Won(s).                                             *)
Won(s) == s \in winners

AskOrWait(s) ==
  /\ WaitWhile(brokerDoesNotAllowToProceedToHaveIWon, s, AskResult, waitSet)
  /\ UNCHANGED <<betVars, oddsVars, payVars, resultVars>>

haveIWon(s) == Outside(s) /\ AskOrWait(s)
resumeHaveIWon(s) == Notified(s, AskResult) /\ AskOrWait(s)

-----------------------------------------------------------------------------
(* honourTheBets() and goCollectTheGains(), which returns Gains(s).        *)

HonourOrWait ==
  \/ /\ allWinnersAreNotOnBettingCentre
     /\ Wait(Broker, Honour)
     /\ UNCHANGED <<betVars, oddsVars, payVars, resultVars>>
  \/ /\ ~allWinnersAreNotOnBettingCentre
     /\ winnersMustNotReceiveTheirMoney' = FALSE
     /\ NotifyAllAndReturn(Broker)
     /\ UNCHANGED <<betVars, oddsVars, allWinnersAreNotOnBettingCentre, winnersArrived,
                    resultVars>>

honourTheBets == Outside(Broker) /\ HonourOrWait
resumeHonourTheBets == Notified(Broker, Honour) /\ HonourOrWait

Gains(s) == bets[s].amount * horsesOdds[bets[s].horse]

goCollectTheGains(s) ==
  LET isLast == winnersArrived + 1 = Cardinality(winners)
  IN /\ Outside(s)
     /\ winnersArrived' = winnersArrived + 1
     /\ allWinnersAreNotOnBettingCentre' = (allWinnersAreNotOnBettingCentre /\ ~isLast)
     /\ WaitWhile(winnersMustNotReceiveTheirMoney, s, Collect,
                  IF isLast THEN {} ELSE waitSet)
     /\ UNCHANGED <<betVars, oddsVars, winnersMustNotReceiveTheirMoney, resultVars>>

resumeGoCollectTheGains(s) ==
  /\ Notified(s, Collect)
  /\ WaitWhile(winnersMustNotReceiveTheirMoney, s, Collect, waitSet)
  /\ UNCHANGED <<betVars, oddsVars, payVars, resultVars>>

-----------------------------------------------------------------------------
(* The clients of the betting centre: a spectator bets once for every      *)
(* acceptance and collects if it has won, the broker asks for the winners  *)
(* once the bets have been accepted; apart from that, in any order.        *)

HasQueued(s) == \E i \in 1 .. Len(bettingQueue) : bettingQueue[i] = s

SpectatorNext(s) ==
  \/ /\ ~HasQueued(s)
     /\ \E amount \in BetAmounts, h \in HorseJockeys :
          moneyOnSafe + amount <= MaxMoneyOnSafe /\ placeABet(s, amount, h)
  \/ resumePlaceABet(s)
  \/ haveIWon(s)
  \/ resumeHaveIWon(s)
  \/ Won(s) /\ winnersArrived < Cardinality(winners) /\ goCollectTheGains(s)
  \/ resumeGoCollectTheGains(s)

BrokerNext ==
  \/ acceptTheBets
  \/ acceptTheBetsFails
  \/ resumeAcceptTheBets
  \/ /\ ~brokerHaveNotAcceptedTheBet
     /\ \E winner \in HorseJockeys \cup {NoHorse} : areThereAnyWinners(winner)
  \/ honourTheBets
  \/ resumeHonourTheBets

Next ==
  \/ \E s \in Spectators : SpectatorNext(s)
  \/ BrokerNext
  \/ \E h \in HorseJockeys, ability \in Abilities : setAbility(h, ability)

Spec == Init /\ [][Next]_vars

-----------------------------------------------------------------------------

(* A spectator that has never bet can have no odds to collect at.          *)
TypeOK ==
  /\ bettingQueue \in Seq(Spectators)
  /\ bets \in [Spectators -> [horse : HorseJockeys \cup {NoHorse}, amount : BetAmounts \cup {0}]]
  /\ winners \subseteq Spectators
  /\ moneyOnSafe \in 0 .. MaxMoneyOnSafe
  /\ horsesOdds \in [HorseJockeys -> Nat]
  /\ horsesAbilities \in [HorseJockeys -> Abilities \cup {0}]
  /\ brokerHaveNotAcceptedTheBet \in BOOLEAN
  /\ winnersMustNotReceiveTheirMoney \in BOOLEAN
  /\ allWinnersAreNotOnBettingCentre \in BOOLEAN
  /\ brokerDoesNotAllowToProceedToHaveIWon \in BOOLEAN
  /\ winnersArrived \in 0 .. NUMBER_OF_SPECTATORS
  /\ call \in [Threads -> {None, Accept, Honour, Place, AskResult, Collect, NoReply}]
  /\ waitSet \subseteq Threads

(* The condition of the while loop t sleeps in.                            *)
MustWait(t) ==
  \/ call[t] = Accept /\ ~AllHaveBet
  \/ call[t] = Honour /\ allWinnersAreNotOnBettingCentre
  \/ call[t] = Place /\ brokerHaveNotAcceptedTheBet
  \/ call[t] = AskResult /\ brokerDoesNotAllowToProceedToHaveIWon
  \/ call[t] = Collect /\ winnersMustNotReceiveTheirMoney

(* No thread sleeps in wait() once what it waits for has come true: every  *)
(* assignment that ends a while loop's condition is followed by notifyAll. *)
NoMissedSignal == \A t \in waitSet : MustWait(t)

(* The broker waits for the queue to hold exactly as many entries as there *)
(* are spectators: nobody is counted twice, and a spectator that sleeps    *)
(* until its bet is accepted is one of those counted.                      *)
QueueCountsBettors ==
  /\ \A i, j \in 1 .. Len(bettingQueue) : bettingQueue[i] = bettingQueue[j] => i = j
  /\ brokerHaveNotAcceptedTheBet =>
       \A s \in Spectators : call[s] = Place => HasQueued(s)
==============================================================================
