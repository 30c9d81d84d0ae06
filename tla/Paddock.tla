------------------------------- MODULE Paddock -------------------------------
(***************************************************************************)
(* The paddock: the spectators appraise the horses before the race.  The   *)
(* horses wait for the last spectator, the spectators for the last horse   *)
(* to leave for the start line.                                            *)
(***************************************************************************)
EXTENDS SimulationConfigurations, Monitor

VARIABLES
  currentNumberOfHorses,       \* arrivals and departures of the horses
  currentNumberOfSpectators,
  lastHorseDidNotProceedToStartLine,
  lastSpectatorHasNotArrivedOnPaddock

paddockVars == <<currentNumberOfHorses, currentNumberOfSpectators,
                 lastHorseDidNotProceedToStartLine, lastSpectatorHasNotArrivedOnPaddock>>
vars == <<paddockVars, call, waitSet>>

(* The threads that can block here and the methods they block in.          *)
Threads == HorseJockeys \cup Spectators
Parade == "proceedToPaddock"
Appraise == "goCheckHorses(boolean)"

Init ==
  /\ currentNumberOfHorses = 0
  /\ currentNumberOfSpectators = 0
  /\ lastHorseDidNotProceedToStartLine = TRUE
  /\ lastSpectatorHasNotArrivedOnPaddock = TRUE
  /\ call = [t \in Threads |-> None]
  /\ waitSet = {}

-----------------------------------------------------------------------------
(* The horses' methods.  A horse that leaves the loop of proceedToPaddock  *)
(* calls notifyAll even if it did not have to wait.                        *)

ParadeOrWait(h) ==
  \/ lastSpectatorHasNotArrivedOnPaddock /\ Wait(h, Parade)
  \/ ~lastSpectatorHasNotArrivedOnPaddock /\ NotifyAllAndReturn(h)

(* Mutant: the departure of the last race is not forgotten.                *)
proceedToPaddockWithoutReset(h) ==
  /\ Outside(h)
  /\ currentNumberOfHorses' = currentNumberOfHorses + 1
  /\ ParadeOrWait(h)
  /\ UNCHANGED <<currentNumberOfSpectators, lastHorseDidNotProceedToStartLine,
                 lastSpectatorHasNotArrivedOnPaddock>>

proceedToPaddock(h) ==
  /\ Outside(h)
  /\ lastHorseDidNotProceedToStartLine' = TRUE
  /\ currentNumberOfHorses' = currentNumberOfHorses + 1
  /\ ParadeOrWait(h)
  /\ UNCHANGED <<currentNumberOfSpectators, lastSpectatorHasNotArrivedOnPaddock>>

resumeProceedToPaddock(h) ==
  /\ Notified(h, Parade)
  /\ ParadeOrWait(h)
  /\ UNCHANGED paddockVars

(* Mutant: a departure takes one off the count.                            *)
leaveForStartLine(h) ==
  /\ Outside(h)
  /\ currentNumberOfSpectators' = 0
  /\ currentNumberOfHorses' = currentNumberOfHorses - 1
  /\ lastHorseDidNotProceedToStartLine' =
       (lastHorseDidNotProceedToStartLine /\ currentNumberOfHorses # 1)
  /\ waitSet' = IF currentNumberOfHorses = 1 THEN {} ELSE waitSet
  /\ UNCHANGED <<lastSpectatorHasNotArrivedOnPaddock, call>>

(* Mutant: nobody is told that the last horse has left.                    *)
leaveInSilence(h) ==
  LET isLast == currentNumberOfHorses + 1 = 2 * NUMBER_OF_PAIRS_HORSE_JOCKEY
  IN /\ Outside(h)
     /\ currentNumberOfSpectators' = 0
     /\ currentNumberOfHorses' = IF isLast THEN 0 ELSE currentNumberOfHorses + 1
     /\ lastHorseDidNotProceedToStartLine' = (lastHorseDidNotProceedToStartLine /\ ~isLast)
     /\ UNCHANGED <<lastSpectatorHasNotArrivedOnPaddock, call, waitSet>>

proceedToStartLine(h) ==
  LET isLast == currentNumberOfHorses + 1 = 2 * NUMBER_OF_PAIRS_HORSE_JOCKEY
  IN /\ Outside(h)
     /\ currentNumberOfSpectators' = 0
     /\ currentNumberOfHorses' = IF isLast THEN 0 ELSE currentNumberOfHorses + 1
     /\ lastHorseDidNotProceedToStartLine' = (lastHorseDidNotProceedToStartLine /\ ~isLast)
     /\ waitSet' = IF isLast THEN {} ELSE waitSet
     /\ UNCHANGED <<lastSpectatorHasNotArrivedOnPaddock, call>>

-----------------------------------------------------------------------------
(* The spectators' methods.                                                *)

(* goCheckHorses(): returns IsLastSpectator.                               *)
IsLastSpectator == currentNumberOfSpectators + 1 = NUMBER_OF_SPECTATORS

countSpectator(s) ==
  /\ Outside(s)
  /\ currentNumberOfSpectators' = currentNumberOfSpectators + 1
  /\ UNCHANGED <<currentNumberOfHorses, lastHorseDidNotProceedToStartLine,
                 lastSpectatorHasNotArrivedOnPaddock, call, waitSet>>

(* goCheckHorses(boolean): lastSpectatorHasNotArrivedOnPaddock is re-armed *)
(* by every spectator that leaves the loop.                                *)
goCheckHorses(s, isTheLastSpectator) ==
  /\ Outside(s)
  /\ WaitWhile(lastHorseDidNotProceedToStartLine, s, Appraise,
               IF isTheLastSpectator THEN {} ELSE waitSet)
  /\ lastSpectatorHasNotArrivedOnPaddock' =
       IF lastHorseDidNotProceedToStartLine
       THEN lastSpectatorHasNotArrivedOnPaddock /\ ~isTheLastSpectator
       ELSE TRUE
  /\ UNCHANGED <<currentNumberOfHorses, currentNumberOfSpectators,
                 lastHorseDidNotProceedToStartLine>>

resumeGoCheckHorses(s) ==
  /\ Notified(s, Appraise)
  /\ WaitWhile(lastHorseDidNotProceedToStartLine, s, Appraise, waitSet)
  /\ lastSpectatorHasNotArrivedOnPaddock' =
       (lastSpectatorHasNotArrivedOnPaddock \/ ~lastHorseDidNotProceedToStartLine)
  /\ UNCHANGED <<currentNumberOfHorses, currentNumberOfSpectators,
                 lastHorseDidNotProceedToStartLine>>

-----------------------------------------------------------------------------
(* The clients of the paddock, calling in any order, each method at most   *)
(* once per client and race.                                               *)

MaxHorses == 2 * NUMBER_OF_PAIRS_HORSE_JOCKEY * NUMBER_OF_RACES
MaxSpectators == NUMBER_OF_SPECTATORS * NUMBER_OF_RACES

Next ==
  \/ \E h \in HorseJockeys :
       \/ currentNumberOfHorses < MaxHorses /\ proceedToPaddock(h)
       \/ resumeProceedToPaddock(h)
       \/ currentNumberOfHorses < MaxHorses /\ proceedToStartLine(h)
  \/ \E s \in Spectators :
       \/ currentNumberOfSpectators < MaxSpectators /\ countSpectator(s)
       \/ \E isTheLastSpectator \in BOOLEAN : goCheckHorses(s, isTheLastSpectator)
       \/ resumeGoCheckHorses(s)

Spec == Init /\ [][Next]_vars

-----------------------------------------------------------------------------

TypeOK ==
  /\ currentNumberOfHorses \in 0 .. MaxHorses
  /\ currentNumberOfSpectators \in 0 .. MaxSpectators
  /\ lastHorseDidNotProceedToStartLine \in BOOLEAN
  /\ lastSpectatorHasNotArrivedOnPaddock \in BOOLEAN
  /\ call \in [Threads -> {None, Parade, Appraise}]
  /\ waitSet \subseteq Threads

(* The condition of the while loop t sleeps in.                            *)
MustWait(t) ==
  \/ call[t] = Parade /\ lastSpectatorHasNotArrivedOnPaddock
  \/ call[t] = Appraise /\ lastHorseDidNotProceedToStartLine

(* No thread sleeps in wait() once what it waits for has come true: every  *)
(* assignment that ends a while loop's condition is followed by notifyAll. *)
NoMissedSignal == \A t \in waitSet : MustWait(t)
=============================================================================
