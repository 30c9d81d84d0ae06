------------------------------- MODULE Stable -------------------------------
(***************************************************************************)
(* The stable: where the pairs Horse/Jockey of a race wait to be summoned  *)
(* by the broker, and where they return after it.                          *)
(***************************************************************************)
EXTENDS SimulationConfigurations, Monitor

VARIABLES
  currentRaceNumber,          \* the race last summoned, -1 before the first
  numberOfHorsesOnStable,     \* arrivals by proceedToStable(int), never reset
  horsesAreNotAvailable,
  thisIsAfterTheLastRun,
  brokerDidNotSaidToAdvance,
  argument                    \* thread -> the raceNumber of its pending call

stableVars == <<currentRaceNumber, numberOfHorsesOnStable, horsesAreNotAvailable,
                thisIsAfterTheLastRun, brokerDidNotSaidToAdvance>>
vars == <<stableVars, argument, call, waitSet>>

(* The threads that can block here and the methods they block in.          *)
Threads == HorseJockeys \cup {Broker}
ForRace == "proceedToStable(int)"
ToRest == "proceedToStable()"
Summon == "summonHorsesToPaddock(int)"

Init ==
  /\ currentRaceNumber = -1
  /\ numberOfHorsesOnStable = 0
  /\ horsesAreNotAvailable = TRUE
  /\ thisIsAfterTheLastRun = FALSE
  /\ brokerDidNotSaidToAdvance = TRUE
  /\ argument = [t \in Threads |-> 0]
  /\ call = [t \in Threads |-> None]
  /\ waitSet = {}

-----------------------------------------------------------------------------
(* proceedToStable(int): the arrival that completes the first batch tells  *)
(* the broker the horses exist; then the horse waits for its own race.     *)

(* Mutant: the first arrival counts as the last one.                       *)
IsAnyArrival(raceNumber) == raceNumber = 0

IsLastArrival(raceNumber) ==
  numberOfHorsesOnStable + 1 = NUMBER_OF_PAIRS_HORSE_JOCKEY /\ raceNumber = 0

proceedToStableForRace(h, raceNumber) ==
  /\ Outside(h)
  /\ argument' = [argument EXCEPT ![h] = raceNumber]
  /\ brokerDidNotSaidToAdvance' = TRUE
  /\ numberOfHorsesOnStable' = numberOfHorsesOnStable + 1
  /\ horsesAreNotAvailable' = (horsesAreNotAvailable /\ ~IsLastArrival(raceNumber))
  /\ WaitWhile(currentRaceNumber # raceNumber, h, ForRace,
               IF IsLastArrival(raceNumber) THEN {} ELSE waitSet)
  /\ UNCHANGED <<currentRaceNumber, thisIsAfterTheLastRun>>

resumeProceedToStableForRace(h) ==
  /\ Notified(h, ForRace)
  /\ WaitWhile(currentRaceNumber # argument[h], h, ForRace, waitSet)
  /\ UNCHANGED <<stableVars, argument>>

-----------------------------------------------------------------------------
(* proceedToStable(): the end of a horse's life.                           *)

RestOrWait(h) ==
  /\ WaitWhile(brokerDidNotSaidToAdvance, h, ToRest, waitSet)
  /\ thisIsAfterTheLastRun' = (\/ thisIsAfterTheLastRun
                               \/ /\ ~brokerDidNotSaidToAdvance
                                  /\ currentRaceNumber = NUMBER_OF_RACES - 1)
  /\ UNCHANGED <<currentRaceNumber, numberOfHorsesOnStable, horsesAreNotAvailable,
                 brokerDidNotSaidToAdvance, argument>>

proceedToStable(h) ==
  /\ Outside(h)
  /\ \/ thisIsAfterTheLastRun /\ UNCHANGED vars
     \/ ~thisIsAfterTheLastRun /\ RestOrWait(h)

resumeProceedToStable(h) ==
  /\ Notified(h, ToRest)
  /\ RestOrWait(h)

-----------------------------------------------------------------------------
(* summonHorsesToPaddock(int).                                             *)

SummonOrWait(raceNumber) ==
  \/ /\ horsesAreNotAvailable
     /\ Wait(Broker, Summon)
     /\ argument' = [argument EXCEPT ![Broker] = raceNumber]
     /\ UNCHANGED stableVars
  \/ /\ ~horsesAreNotAvailable
     /\ currentRaceNumber' = raceNumber
     /\ brokerDidNotSaidToAdvance' = FALSE
     /\ NotifyAllAndReturn(Broker)
     /\ argument' = [argument EXCEPT ![Broker] = raceNumber]
     /\ UNCHANGED <<numberOfHorsesOnStable, horsesAreNotAvailable, thisIsAfterTheLastRun>>

(* Mutant: the races are numbered from 1.                                  *)
summonHorsesOfTheNextRace(raceNumber) ==
  /\ Outside(Broker)
  /\ SummonOrWait(raceNumber + 1)

summonHorsesToPaddock(raceNumber) ==
  /\ Outside(Broker)
  /\ SummonOrWait(raceNumber)

resumeSummonHorsesToPaddock ==
  /\ Notified(Broker, Summon)
  /\ SummonOrWait(argument[Broker])

-----------------------------------------------------------------------------
(* The clients of the stable: every race brings one batch of horses, each  *)
(* calling for any race, and the broker summons the races in order.        *)

MaxArrivals == NUMBER_OF_PAIRS_HORSE_JOCKEY * NUMBER_OF_RACES

Next ==
  \/ \E h \in HorseJockeys :
       \/ /\ numberOfHorsesOnStable < MaxArrivals
          /\ \E r \in Races : proceedToStableForRace(h, r)
       \/ resumeProceedToStableForRace(h)
       \/ proceedToStable(h)
       \/ resumeProceedToStable(h)
  \/ /\ currentRaceNumber + 1 \in Races
     /\ summonHorsesToPaddock(currentRaceNumber + 1)
  \/ resumeSummonHorsesToPaddock

Spec == Init /\ [][Next]_vars

-----------------------------------------------------------------------------

TypeOK ==
  /\ currentRaceNumber \in Races \cup {-1}
  /\ numberOfHorsesOnStable \in 0 .. MaxArrivals
  /\ horsesAreNotAvailable \in BOOLEAN
  /\ thisIsAfterTheLastRun \in BOOLEAN
  /\ brokerDidNotSaidToAdvance \in BOOLEAN
  /\ argument \in [Threads -> Races]
  /\ call \in [Threads -> {None, ForRace, ToRest, Summon}]
  /\ waitSet \subseteq Threads

(* The condition of the while loop t sleeps in.                            *)
MustWait(t) ==
  \/ call[t] = ForRace /\ currentRaceNumber # argument[t]
  \/ call[t] = ToRest /\ brokerDidNotSaidToAdvance
  \/ call[t] = Summon /\ horsesAreNotAvailable

(* No thread sleeps in wait() once what it waits for has come true: every  *)
(* assignment that ends a while loop's condition is followed by notifyAll. *)
NoMissedSignal == \A t \in waitSet : MustWait(t)

(* The broker summons the first race only after a whole batch of horses    *)
(* has reached the stable (Broker.run: "having all the horses called").    *)
SummonAfterFirstBatch ==
  currentRaceNumber >= 0 => numberOfHorsesOnStable >= NUMBER_OF_PAIRS_HORSE_JOCKEY
=============================================================================
