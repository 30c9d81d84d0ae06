-------------------------- MODULE RacingTrackProofs --------------------------
(***************************************************************************)
(* The racing track alone, for any number of horses and of races, any      *)
(* lengths and abilities.                                                  *)
(***************************************************************************)
EXTENDS RacingTrack, ConfigurationProofs, SequenceTheorems

(* Nobody sleeps for a turn in an empty queue: a queue empties only with a *)
(* move, which notifies everybody; so a sleeper's turn is to come, and     *)
(* what horses add to the queue does not change whose turn it is.          *)
Inv == TypeOK /\ NoMissedSignal /\ OneTurnEach

(* The bound on the finishers is a number, the first race is one, and a    *)
(* step is a number.                                                       *)
LEMMA TrackBounds ==
  /\ MaxFinished \in Nat
  /\ Distances \subseteq Nat
  /\ \A ability \in Abilities : ability \in Nat /\ 1 .. ability \subseteq Nat
BY Sizes, TrackAssumption DEF TrackAssumption, MaxFinished

-----------------------------------------------------------------------------
(* The queue of turns.                                                     *)

LEMMA AppendedTurn ==
  ASSUME horsesToRun \in Seq(HorseJockeys), OneTurnEach,
         NEW h \in HorseJockeys, ~InQueue(h),
         horsesToRun' = Append(horsesToRun, h)
  PROVE  /\ horsesToRun' \in Seq(HorseJockeys)
         /\ OneTurnEach'
         /\ horsesToRun' # <<>>
         /\ horsesToRun # <<>> => Head(horsesToRun') = Head(horsesToRun)
<1>1. /\ horsesToRun' \in Seq(HorseJockeys)
      /\ horsesToRun' # <<>>
      /\ horsesToRun # <<>> => Head(horsesToRun') = Head(horsesToRun)
  OBVIOUS
<1>2. OneTurnEach'
  BY DEF OneTurnEach, InQueue
<1> QED
  BY <1>1, <1>2

(* A move keeps the turns apart: the horse at the head goes to the end of  *)
(* the queue or out of it.                                                 *)
LEMMA PassedTurn ==
  ASSUME horsesToRun \in Seq(HorseJockeys), OneTurnEach,
         horsesToRun # <<>>, NEW h \in HorseJockeys, Head(horsesToRun) = h,
         NEW crossed \in BOOLEAN, horsesToRun' = QueueAfter(h, crossed)
  PROVE  horsesToRun' \in Seq(HorseJockeys) /\ OneTurnEach'
<1>1. Len(horsesToRun) \in Nat /\ Len(horsesToRun) > 0
  BY EmptySeq
<1>4. /\ Tail(horsesToRun) \in Seq(HorseJockeys)
      /\ Len(Tail(horsesToRun)) = Len(horsesToRun) - 1
      /\ \A i \in 1 .. Len(horsesToRun) - 1 : Tail(horsesToRun)[i] = horsesToRun[i + 1]
      /\ horsesToRun[1] = h
  OBVIOUS
<1>2. CASE crossed
  BY <1>1, <1>4, <1>2 DEF OneTurnEach, QueueAfter
<1>3. CASE ~crossed
  <2>1. horsesToRun' = Append(Tail(horsesToRun), h)
    BY <1>3 DEF QueueAfter
  <2>2. /\ horsesToRun' \in Seq(HorseJockeys)
        /\ Len(horsesToRun') = Len(horsesToRun)
        /\ \A i \in 1 .. Len(horsesToRun) - 1 : horsesToRun'[i] = Tail(horsesToRun)[i]
        /\ horsesToRun'[Len(horsesToRun)] = h
    BY <1>1, <1>4, <2>1, AppendProperties
  <2> DEFINE n == Len(horsesToRun)
             before(i) == IF i = n THEN 1 ELSE i + 1
  <2>3. \A i \in 1 .. n : /\ before(i) \in 1 .. n
                          /\ horsesToRun'[i] = horsesToRun[before(i)]
    <3> SUFFICES ASSUME NEW i \in 1 .. n
                 PROVE  before(i) \in 1 .. n /\ horsesToRun'[i] = horsesToRun[before(i)]
      OBVIOUS
    <3>1. CASE i = n
      BY <1>1, <1>4, <2>2, <3>1
    <3>2. CASE i # n
      <4>1. i \in 1 .. n - 1
        BY <1>1, <3>2
      <4>2. before(i) = i + 1 /\ before(i) \in 1 .. n
        BY <1>1, <3>2
      <4>3. horsesToRun'[i] = Tail(horsesToRun)[i] /\ Tail(horsesToRun)[i] = horsesToRun[i + 1]
        BY <1>4, <2>2, <4>1
      <4> QED
        BY <4>2, <4>3
    <3> QED
      BY <3>1, <3>2
  <2>4. \A i, j \in 1 .. n : before(i) = before(j) => i = j
    BY <1>1
  <2>5. OneTurnEach'
    <3>0. Len(horsesToRun') = n
      BY <2>2
    <3> HIDE DEF before, n
    <3> SUFFICES ASSUME NEW i \in 1 .. n, NEW j \in 1 .. n, horsesToRun'[i] = horsesToRun'[j]
                 PROVE  i = j
      BY <3>0 DEF OneTurnEach
    <3>1. /\ before(i) \in 1 .. n /\ before(j) \in 1 .. n
          /\ horsesToRun[before(i)] = horsesToRun[before(j)]
      BY <2>3
    <3>2. before(i) = before(j)
      BY <3>1 DEF OneTurnEach, n
    <3> QED
      BY <2>4, <3>2
  <2> QED
    BY <2>2, <2>5
<1> QED
  BY <1>2, <1>3

-----------------------------------------------------------------------------

LEMMA InitInv == Init => Inv
<1> SUFFICES ASSUME Init PROVE Inv
  OBVIOUS
<1>1. race \in [identification : Races, distance : Distances]
  BY FirstRace DEF Init, RaceOf
<1>2. horsesToRun \in Seq(HorseJockeys) /\ numberOfFinishedHorses \in 0 .. MaxFinished
  BY TrackBounds, EmptySeq DEF Init
<1>3. call \in [Threads -> {None, StartLine, Move, NoReply}] /\ waitSet \subseteq Threads
  BY DEF Init
<1>4. TypeOK
  BY <1>1, <1>2, <1>3 DEF Init, TypeOK
<1>5. NoMissedSignal /\ OneTurnEach
  BY EmptySeq DEF Init, NoMissedSignal, OneTurnEach
<1> QED
  BY <1>4, <1>5 DEF Inv

LEMMA LineUpPreservesInv ==
  ASSUME Inv, NEW h \in HorseJockeys, ~InQueue(h), proceedToStartLine(h)
  PROVE  Inv'
<1> USE DEF Inv, Threads, None, StartLine, Move, NoReply, WaitWhile, winnerVars
<1>1. /\ horsesToRun' \in Seq(HorseJockeys)
      /\ OneTurnEach'
      /\ horsesToRun' # <<>>
      /\ horsesToRun # <<>> => Head(horsesToRun') = Head(horsesToRun)
  BY AppendedTurn DEF TypeOK, proceedToStartLine
<1>2. TypeOK'
  BY <1>1, TrackBounds DEF TypeOK, proceedToStartLine
<1>3. NoMissedSignal'
  BY <1>1 DEF TypeOK, NoMissedSignal, MustWait, proceedToStartLine, Outside
<1> QED
  BY <1>1, <1>2, <1>3

LEMMA ResumedLineUpPreservesInv ==
  ASSUME Inv, NEW h \in HorseJockeys, resumeProceedToStartLine(h)
  PROVE  Inv'
<1> USE DEF Inv, Threads, None, StartLine, Move, NoReply, WaitWhile, winnerVars, runVars
<1>1. TypeOK'
  BY DEF TypeOK, resumeProceedToStartLine
<1>2. NoMissedSignal'
  BY DEF TypeOK, NoMissedSignal, MustWait, resumeProceedToStartLine, Notified
<1>3. OneTurnEach'
  BY DEF OneTurnEach, resumeProceedToStartLine
<1> QED
  BY <1>1, <1>2, <1>3

(* A horse's request for a move, whether it has just come or was notified. *)
LEMMA MovePreservesInv ==
  ASSUME Inv, NEW h \in HorseJockeys, NEW ability \in Abilities,
         Outside(h) \/ Notified(h, Move), MoveOrWait(h, ability),
         UNCHANGED <<race, numberOfFinishedHorses, brokerDidNotOrderToStartTheRace>>
  PROVE  Inv'
<1> USE DEF Inv, Threads, None, StartLine, Move, NoReply, winnerVars, runVars
<1>1. CASE /\ horsesToRun = <<>>
           /\ call' = [call EXCEPT ![h] = NoReply]
           /\ UNCHANGED <<waitSet, runVars, winnerVars>>
  <2>1. TypeOK'
    BY <1>1 DEF TypeOK
  <2>2. NoMissedSignal'
    BY <1>1 DEF TypeOK, NoMissedSignal, MustWait, Outside, Notified
  <2>3. OneTurnEach'
    BY <1>1 DEF OneTurnEach
  <2> QED
    BY <2>1, <2>2, <2>3
<1>2. CASE /\ horsesToRun # <<>> /\ Head(horsesToRun) # h
           /\ Wait(h, Move)
           /\ UNCHANGED <<runVars, winnerVars>>
  <2>1. TypeOK'
    BY <1>2 DEF TypeOK, Wait, WaitWhile
  <2>2. NoMissedSignal'
    BY <1>2 DEF TypeOK, NoMissedSignal, MustWait, Outside, Notified, Wait, WaitWhile
  <2>3. OneTurnEach'
    BY <1>2 DEF OneTurnEach
  <2> QED
    BY <2>1, <2>2, <2>3
<1>3. CASE /\ horsesToRun # <<>> /\ Head(horsesToRun) = h
           /\ \E steps \in 1 .. ability : Advance(h, steps)
           /\ NotifyAllAndReturn(h)
  <2>1. PICK steps \in 1 .. ability : Advance(h, steps)
    BY <1>3
  <2> DEFINE position == currentHorsesPositions[h] + steps
             crossed == position >= race.distance
  <2>2. position \in Nat /\ crossed \in BOOLEAN
    BY TrackBounds DEF TypeOK
  <2>3. /\ currentHorsesPositions' = [currentHorsesPositions EXCEPT ![h] = position]
        /\ horsesToRun' = QueueAfter(h, crossed)
        /\ hasFirstHorseCrossedTheFinishLine' \in BOOLEAN
        /\ raceIsAboutToEnd' \in BOOLEAN
        /\ winner' \in HorseJockeys \cup {NoHorse}
    BY <2>1 DEF Advance, TypeOK
  <2> HIDE DEF position, crossed
  <2>4. horsesToRun' \in Seq(HorseJockeys) /\ OneTurnEach'
    BY <1>3, <2>2, <2>3, PassedTurn DEF TypeOK
  <2>5. call' \in [Threads -> {None, StartLine, Move, NoReply}] /\ waitSet' = {}
    BY <1>3 DEF TypeOK, NotifyAllAndReturn, WaitWhile
  <2>6. TypeOK'
    BY <2>2, <2>3, <2>4, <2>5 DEF TypeOK
  <2>7. NoMissedSignal'
    BY <2>5 DEF NoMissedSignal
  <2> QED
    BY <2>4, <2>6, <2>7
<1> QED
  BY <1>1, <1>2, <1>3 DEF MoveOrWait

LEMMA CheckPreservesInv ==
  ASSUME Inv, NEW h \in HorseJockeys, numberOfFinishedHorses < MaxFinished,
         hasFinishLineBeenCrossed(h)
  PROVE  Inv'
<1> USE DEF Inv, winnerVars, runVars
<1>1. numberOfFinishedHorses' \in 0 .. MaxFinished
  BY TrackBounds DEF TypeOK, hasFinishLineBeenCrossed
<1>2. brokerDidNotOrderToStartTheRace' \in BOOLEAN
  BY DEF TypeOK, hasFinishLineBeenCrossed
<1>3. TypeOK'
  BY <1>1, <1>2 DEF TypeOK, hasFinishLineBeenCrossed
<1>4. NoMissedSignal'
  BY DEF TypeOK, NoMissedSignal, MustWait, hasFinishLineBeenCrossed
<1>5. OneTurnEach'
  BY DEF OneTurnEach, hasFinishLineBeenCrossed
<1> QED
  BY <1>3, <1>4, <1>5

-----------------------------------------------------------------------------

LEMMA NextInv == Inv /\ [Next]_vars => Inv'
<1> SUFFICES ASSUME Inv, [Next]_vars PROVE Inv'
  OBVIOUS
<1>1. ASSUME NEW h \in HorseJockeys, ~InQueue(h), proceedToStartLine(h)
      PROVE  Inv'
  BY <1>1, LineUpPreservesInv
<1>2. ASSUME NEW h \in HorseJockeys, resumeProceedToStartLine(h)
      PROVE  Inv'
  BY <1>2, ResumedLineUpPreservesInv
<1>3. ASSUME NEW h \in HorseJockeys, NEW ability \in Abilities,
             makeAMove(h, ability) \/ resumeMakeAMove(h, ability)
      PROVE  Inv'
  BY <1>3, MovePreservesInv DEF makeAMove, resumeMakeAMove
<1>4. ASSUME NEW h \in HorseJockeys, numberOfFinishedHorses < MaxFinished,
             hasFinishLineBeenCrossed(h)
      PROVE  Inv'
  BY <1>4, CheckPreservesInv
<1>5. ASSUME startTheRace
      PROVE  Inv'
  BY <1>5 DEF Inv, TypeOK, NoMissedSignal, OneTurnEach, startTheRace, runVars, winnerVars
<1>6. ASSUME race.identification + 1 \in Races, NEW d \in Distances,
             setRace(RaceOf(race.identification + 1, d))
      PROVE  Inv'
  BY <1>6 DEF Inv, TypeOK, NoMissedSignal, MustWait, OneTurnEach, setRace, RaceOf,
              runVars, winnerVars
<1>7. CASE UNCHANGED vars
  BY <1>7 DEF Inv, TypeOK, NoMissedSignal, MustWait, OneTurnEach, vars, runVars, winnerVars
<1> QED
  BY <1>1, <1>2, <1>3, <1>4, <1>5, <1>6, <1>7 DEF Next

LEMMA SpecInv == Spec => []Inv
  BY InitInv, NextInv, PTL DEF Spec

(* The positions, the queue and the count of the finishers stay within the *)
(* race (makeAMove, hasFinishLineBeenCrossed).                             *)
THEOREM RacingTrackTypeOK == Spec => []TypeOK
<1>1. Inv => TypeOK
  BY DEF Inv
<1> QED
  BY <1>1, SpecInv, PTL

(* No wakeup is lost on the track, and no horse sleeps for its turn in an  *)
(* empty queue, whatever the lengths and the order of the moves.           *)
THEOREM RacingTrackNoMissedSignal == Spec => []NoMissedSignal
<1>1. Inv => NoMissedSignal
  BY DEF Inv
<1> QED
  BY <1>1, SpecInv, PTL

(* No horse ever has two turns in a round of makeAMove.                    *)
THEOREM RacingTrackOneTurnEach == Spec => []OneTurnEach
<1>1. Inv => OneTurnEach
  BY DEF Inv
<1> QED
  BY <1>1, SpecInv, PTL
=============================================================================
