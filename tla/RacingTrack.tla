----------------------------- MODULE RacingTrack -----------------------------
(***************************************************************************)
(* The racing track: the horses of a race take turns in a queue until they *)
(* cross the finish line.                                                  *)
(***************************************************************************)
EXTENDS SimulationConfigurations, Monitor, Sequences

CONSTANTS
  Distances,    \* the lengths generateDistance() can draw
  Abilities     \* the abilities generateAbility() can draw

ASSUME TrackAssumption ==
  /\ Distances \subseteq Nat \ {0}
  /\ Abilities \subseteq Nat \ {0}
  /\ Distances # {} /\ Abilities # {}

VARIABLES
  race,                      \* [identification, distance]
  horsesToRun,               \* the queue of horses, in the order of their turns
  numberOfFinishedHorses,
  currentHorsesPositions,
  winner,
  hasFirstHorseCrossedTheFinishLine,
  brokerDidNotOrderToStartTheRace,
  raceIsAboutToEnd

winnerVars == <<winner, hasFirstHorseCrossedTheFinishLine, raceIsAboutToEnd>>
runVars == <<horsesToRun, currentHorsesPositions>>
vars == <<race, runVars, numberOfFinishedHorses, winnerVars,
          brokerDidNotOrderToStartTheRace, call, waitSet>>

(* The threads that can block here and the methods they block in.  A       *)
(* thread that fails with an exception never answers its client: the       *)
(* client stays in the call for ever.                                      *)
Threads == HorseJockeys
StartLine == "proceedToStartLine"
Move == "makeAMove"
NoReply == "failed"

RaceOf(identification, distance) ==
  [identification |-> identification, distance |-> distance]

Init ==
  /\ race \in {RaceOf(0, d) : d \in Distances}
  /\ horsesToRun = <<>>
  /\ numberOfFinishedHorses = 0
  /\ currentHorsesPositions = [h \in HorseJockeys |-> 0]
  /\ winner = NoHorse
  /\ hasFirstHorseCrossedTheFinishLine = FALSE
  /\ brokerDidNotOrderToStartTheRace = TRUE
  /\ raceIsAboutToEnd = TRUE
  /\ call = [t \in Threads |-> None]
  /\ waitSet = {}

-----------------------------------------------------------------------------
(* proceedToStartLine(): every arrival allocates a new array of positions. *)

(* Mutant: the finishers of the race before are still counted.             *)
proceedToStartLineWithoutReset(h) ==
  /\ Outside(h)
  /\ currentHorsesPositions' = [g \in HorseJockeys |-> 0]
  /\ horsesToRun' = Append(horsesToRun, h)
  /\ WaitWhile(brokerDidNotOrderToStartTheRace, h, StartLine, waitSet)
  /\ UNCHANGED <<race, numberOfFinishedHorses, winnerVars, brokerDidNotOrderToStartTheRace>>

proceedToStartLine(h) ==
  /\ Outside(h)
  /\ currentHorsesPositions' = [g \in HorseJockeys |-> 0]
  /\ horsesToRun' = Append(horsesToRun, h)
  /\ numberOfFinishedHorses' = 0
  /\ WaitWhile(brokerDidNotOrderToStartTheRace, h, StartLine, waitSet)
  /\ UNCHANGED <<race, winnerVars, brokerDidNotOrderToStartTheRace>>

resumeProceedToStartLine(h) ==
  /\ Notified(h, StartLine)
  /\ WaitWhile(brokerDidNotOrderToStartTheRace, h, StartLine, waitSet)
  /\ UNCHANGED <<race, runVars, numberOfFinishedHorses, winnerVars,
                 brokerDidNotOrderToStartTheRace>>

-----------------------------------------------------------------------------
(* makeAMove(): wait for the turn at the head of the queue, advance by at  *)
(* most the horse's ability, and queue again unless the line is crossed.   *)

(* Mutant: the head is looked at and not removed.                          *)
QueueWithHead(h, crossed) == IF crossed THEN horsesToRun ELSE Append(horsesToRun, h)

(* Mutant: a horse that has crossed the line gets another turn.            *)
QueueWithFinishers(h, crossed) == Append(Tail(horsesToRun), h)

(* The head of the queue has moved: a horse that has crossed the line      *)
(* leaves the queue, any other takes its place at the end.                 *)
QueueAfter(h, crossed) ==
  IF crossed THEN Tail(horsesToRun) ELSE Append(Tail(horsesToRun), h)

Advance(h, steps) ==
  LET position == currentHorsesPositions[h] + steps
      crossed == position >= race.distance
      hasFirst == hasFirstHorseCrossedTheFinishLine \/ crossed
  IN /\ currentHorsesPositions' = [currentHorsesPositions EXCEPT ![h] = position]
     /\ horsesToRun' = QueueAfter(h, crossed)
     /\ hasFirstHorseCrossedTheFinishLine' = hasFirst
     /\ raceIsAboutToEnd' = (raceIsAboutToEnd /\ ~hasFirst)
     /\ winner' = IF hasFirst /\ raceIsAboutToEnd THEN h ELSE winner

(* horsesToRun.peek() is null if the queue is empty, and comparing it with *)
(* an int throws NullPointerException: the thread ends without a reply.    *)
MoveOrWait(h, ability) ==
  \/ /\ horsesToRun = <<>>
     /\ call' = [call EXCEPT ![h] = NoReply]
     /\ UNCHANGED <<waitSet, runVars, winnerVars>>
  \/ /\ horsesToRun # <<>> /\ Head(horsesToRun) # h
     /\ Wait(h, Move)
     /\ UNCHANGED <<runVars, winnerVars>>
  \/ /\ horsesToRun # <<>> /\ Head(horsesToRun) = h
     /\ \E steps \in 1 .. ability : Advance(h, steps)
     /\ NotifyAllAndReturn(h)

makeAMove(h, ability) ==
  /\ Outside(h)
  /\ MoveOrWait(h, ability)
  /\ UNCHANGED <<race, numberOfFinishedHorses, brokerDidNotOrderToStartTheRace>>

resumeMakeAMove(h, ability) ==
  /\ Notified(h, Move)
  /\ MoveOrWait(h, ability)
  /\ UNCHANGED <<race, numberOfFinishedHorses, brokerDidNotOrderToStartTheRace>>

-----------------------------------------------------------------------------
(* hasFinishLineBeenCrossed(): returns HasCrossed(h), and a horse that has *)
(* crossed re-arms the flag the horses wait for on the start line.         *)

(* Mutant: a horse that stops on the line has not crossed it.              *)
IsBeyondTheLine(h) == currentHorsesPositions[h] > race.distance

HasCrossed(h) == currentHorsesPositions[h] >= race.distance

(* Mutant: the start order stays in force for the next race.               *)
hasFinishLineBeenCrossedWithoutReset(h) ==
  /\ Outside(h)
  /\ numberOfFinishedHorses' = IF HasCrossed(h) THEN numberOfFinishedHorses + 1
                                                ELSE numberOfFinishedHorses
  /\ UNCHANGED <<race, runVars, winnerVars, brokerDidNotOrderToStartTheRace,
                 call, waitSet>>

hasFinishLineBeenCrossed(h) ==
  /\ Outside(h)
  /\ \/ /\ HasCrossed(h)
        /\ brokerDidNotOrderToStartTheRace' = TRUE
        /\ numberOfFinishedHorses' = numberOfFinishedHorses + 1
     \/ /\ ~HasCrossed(h)
        /\ UNCHANGED <<brokerDidNotOrderToStartTheRace, numberOfFinishedHorses>>
  /\ UNCHANGED <<race, runVars, winnerVars, call, waitSet>>

-----------------------------------------------------------------------------
(* The broker's methods.                                                   *)

startTheRace ==
  /\ brokerDidNotOrderToStartTheRace' = FALSE
  /\ waitSet' = {}
  /\ UNCHANGED <<race, runVars, numberOfFinishedHorses, winnerVars, call>>

(* Mutant: the races count themselves once more.                           *)
setRaceAfter(newRace) ==
  /\ race' = [newRace EXCEPT !.identification = @ + 1]
  /\ UNCHANGED <<runVars, numberOfFinishedHorses, winnerVars,
                 brokerDidNotOrderToStartTheRace, call, waitSet>>

(* Not synchronized: one assignment, whoever holds the lock.               *)
setRace(newRace) ==
  /\ race' = newRace
  /\ UNCHANGED <<runVars, numberOfFinishedHorses, winnerVars,
                 brokerDidNotOrderToStartTheRace, call, waitSet>>

-----------------------------------------------------------------------------
(* The clients of the track: a horse is on its way to the start line or in *)
(* the queue; the broker starts races and replaces the race at any time.   *)

MaxFinished == NUMBER_OF_PAIRS_HORSE_JOCKEY * NUMBER_OF_RACES

InQueue(h) == \E i \in 1 .. Len(horsesToRun) : horsesToRun[i] = h

Next ==
  \/ \E h \in HorseJockeys :
       \/ ~InQueue(h) /\ proceedToStartLine(h)
       \/ resumeProceedToStartLine(h)
       \/ \E ability \in Abilities :
            ~HasCrossed(h) /\ makeAMove(h, ability)
       \/ \E ability \in Abilities : resumeMakeAMove(h, ability)
       \/ numberOfFinishedHorses < MaxFinished /\ hasFinishLineBeenCrossed(h)
  \/ startTheRace
  \/ /\ race.identification + 1 \in Races
     /\ \E d \in Distances : setRace(RaceOf(race.identification + 1, d))

Spec == Init /\ [][Next]_vars

-----------------------------------------------------------------------------

TypeOK ==
  /\ race \in [identification : Races, distance : Distances]
  /\ horsesToRun \in Seq(HorseJockeys)
  /\ numberOfFinishedHorses \in 0 .. MaxFinished
  /\ currentHorsesPositions \in [HorseJockeys -> Nat]
  /\ winner \in HorseJockeys \cup {NoHorse}
  /\ hasFirstHorseCrossedTheFinishLine \in BOOLEAN
  /\ brokerDidNotOrderToStartTheRace \in BOOLEAN
  /\ raceIsAboutToEnd \in BOOLEAN
  /\ call \in [Threads -> {None, StartLine, Move, NoReply}]
  /\ waitSet \subseteq Threads

(* The condition of the while loop t sleeps in.                            *)
MustWait(t) ==
  \/ call[t] = StartLine /\ brokerDidNotOrderToStartTheRace
  \/ call[t] = Move /\ horsesToRun # <<>> /\ Head(horsesToRun) # t

(* No thread sleeps in wait() once what it waits for has come true: every  *)
(* assignment that ends a while loop's condition is followed by notifyAll, *)
(* and no horse sleeps for its turn in a queue that has run empty.         *)
NoMissedSignal == \A t \in waitSet : MustWait(t)

(* A horse never has two turns in the queue, so that a race gives every    *)
(* horse one move per round.                                               *)
OneTurnEach ==
  \A i, j \in 1 .. Len(horsesToRun) : horsesToRun[i] = horsesToRun[j] => i = j
==============================================================================
