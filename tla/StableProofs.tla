---------------------------- MODULE StableProofs ----------------------------
(***************************************************************************)
(* The stable alone, for any number of horses and of races.                *)
(***************************************************************************)
EXTENDS Stable, ConfigurationProofs

(* The bound on the arrivals is a number.                                  *)
LEMMA ArrivalsBound == MaxArrivals \in Nat
BY Sizes DEF MaxArrivals

(* The number of arrivals only matters to the promise about the broker     *)
(* together with the flag the last of them clears.                         *)
AvailableAfterFirstBatch ==
  ~horsesAreNotAvailable => numberOfHorsesOnStable >= NUMBER_OF_PAIRS_HORSE_JOCKEY

Inv ==
  /\ TypeOK
  /\ NoMissedSignal
  /\ AvailableAfterFirstBatch
  /\ SummonAfterFirstBatch

LEMMA InitInv == Init => Inv
<1> SUFFICES ASSUME Init PROVE Inv
  OBVIOUS
<1>1. TypeOK
  <2>1. currentRaceNumber \in Races \cup {-1} /\ numberOfHorsesOnStable \in 0 .. MaxArrivals
    BY ArrivalsBound DEF Init
  <2>2. argument \in [Threads -> Races]
    BY FirstRace DEF Init
  <2>3. call \in [Threads -> {None, ForRace, ToRest, Summon}] /\ waitSet \subseteq Threads
    BY DEF Init
  <2> QED
    BY <2>1, <2>2, <2>3 DEF Init, TypeOK
<1>2. NoMissedSignal /\ AvailableAfterFirstBatch /\ SummonAfterFirstBatch
  BY DEF Init, NoMissedSignal, AvailableAfterFirstBatch, SummonAfterFirstBatch
<1> QED
  BY <1>1, <1>2 DEF Inv

LEMMA ArrivalPreservesInv ==
  ASSUME Inv, NEW h \in HorseJockeys, NEW r \in Races,
         numberOfHorsesOnStable < MaxArrivals, proceedToStableForRace(h, r)
  PROVE  Inv'
<1> USE DEF Inv, Threads, None, ForRace, ToRest, Summon
<1>1. TypeOK'
  BY Sizes, ArrivalsBound, DistinctClients DEF TypeOK, proceedToStableForRace, WaitWhile, IsLastArrival
<1>2. NoMissedSignal'
  BY Sizes, ArrivalsBound, DistinctClients DEF TypeOK, NoMissedSignal, MustWait, proceedToStableForRace, WaitWhile,
               Outside, IsLastArrival
<1>3. AvailableAfterFirstBatch' /\ SummonAfterFirstBatch'
  BY Sizes, ArrivalsBound, DistinctClients DEF TypeOK, AvailableAfterFirstBatch, SummonAfterFirstBatch,
               proceedToStableForRace, IsLastArrival
<1> QED
  BY <1>1, <1>2, <1>3

LEMMA ResumedArrivalPreservesInv ==
  ASSUME Inv, NEW h \in HorseJockeys, resumeProceedToStableForRace(h)
  PROVE  Inv'
<1> USE DEF Inv, Threads, None, ForRace, ToRest, Summon, stableVars
<1>1. TypeOK'
  BY DEF TypeOK, resumeProceedToStableForRace, WaitWhile
<1>2. NoMissedSignal'
  BY Sizes, ArrivalsBound, DistinctClients DEF TypeOK, NoMissedSignal, MustWait, resumeProceedToStableForRace, WaitWhile, Notified
<1>3. AvailableAfterFirstBatch' /\ SummonAfterFirstBatch'
  BY DEF AvailableAfterFirstBatch, SummonAfterFirstBatch, resumeProceedToStableForRace
<1> QED
  BY <1>1, <1>2, <1>3

LEMMA RestPreservesInv ==
  ASSUME Inv, NEW h \in HorseJockeys, RestOrWait(h), Outside(h) \/ Notified(h, ToRest)
  PROVE  Inv'
<1> USE DEF Inv, Threads, None, ForRace, ToRest, Summon
<1>1. TypeOK'
  BY DEF TypeOK, RestOrWait, WaitWhile
<1>2. NoMissedSignal'
  BY Sizes, ArrivalsBound, DistinctClients DEF TypeOK, NoMissedSignal, MustWait, RestOrWait, WaitWhile, Outside, Notified
<1>3. AvailableAfterFirstBatch' /\ SummonAfterFirstBatch'
  BY DEF AvailableAfterFirstBatch, SummonAfterFirstBatch, RestOrWait
<1> QED
  BY <1>1, <1>2, <1>3

LEMMA SummonPreservesInv ==
  ASSUME Inv, NEW r \in Races, SummonOrWait(r),
         Outside(Broker) \/ Notified(Broker, Summon)
  PROVE  Inv'
<1> USE DEF Inv, Threads, None, ForRace, ToRest, Summon, stableVars
<1>1. CASE horsesAreNotAvailable
  <2>1. TypeOK'
    BY <1>1 DEF TypeOK, SummonOrWait, Wait, WaitWhile
  <2>2. NoMissedSignal'
    BY <1>1, DistinctClients DEF TypeOK, NoMissedSignal, MustWait, SummonOrWait, Wait, WaitWhile,
                       Outside, Notified
  <2>3. AvailableAfterFirstBatch' /\ SummonAfterFirstBatch'
    BY <1>1 DEF AvailableAfterFirstBatch, SummonAfterFirstBatch, SummonOrWait
  <2> QED
    BY <2>1, <2>2, <2>3
<1>2. CASE ~horsesAreNotAvailable
  <2>1. TypeOK'
    BY <1>2 DEF TypeOK, SummonOrWait, NotifyAllAndReturn, WaitWhile
  <2>2. NoMissedSignal'
    BY <1>2 DEF NoMissedSignal, SummonOrWait, NotifyAllAndReturn, WaitWhile
  <2>3. AvailableAfterFirstBatch' /\ SummonAfterFirstBatch'
    BY <1>2 DEF AvailableAfterFirstBatch, SummonAfterFirstBatch, SummonOrWait
  <2> QED
    BY <2>1, <2>2, <2>3
<1> QED
  BY <1>1, <1>2

LEMMA NextInv == Inv /\ [Next]_vars => Inv'
<1> SUFFICES ASSUME Inv, [Next]_vars PROVE Inv'
  OBVIOUS
<1>1. ASSUME NEW h \in HorseJockeys, NEW r \in Races,
             numberOfHorsesOnStable < MaxArrivals, proceedToStableForRace(h, r)
      PROVE  Inv'
  BY <1>1, ArrivalPreservesInv
<1>2. ASSUME NEW h \in HorseJockeys, resumeProceedToStableForRace(h)
      PROVE  Inv'
  BY <1>2, ResumedArrivalPreservesInv
<1>u. CASE UNCHANGED vars
  BY <1>u DEF Inv, TypeOK, NoMissedSignal, MustWait, AvailableAfterFirstBatch,
              SummonAfterFirstBatch, vars, stableVars
<1>3. ASSUME NEW h \in HorseJockeys, proceedToStable(h)
      PROVE  Inv'
  BY <1>3, <1>u, RestPreservesInv DEF proceedToStable
<1>4. ASSUME NEW h \in HorseJockeys, resumeProceedToStable(h)
      PROVE  Inv'
  BY <1>4, RestPreservesInv DEF resumeProceedToStable
<1>5. ASSUME currentRaceNumber + 1 \in Races, summonHorsesToPaddock(currentRaceNumber + 1)
      PROVE  Inv'
  BY <1>5, SummonPreservesInv DEF summonHorsesToPaddock
<1>6. ASSUME resumeSummonHorsesToPaddock
      PROVE  Inv'
  <2>1. argument[Broker] \in Races
    BY DEF Inv, TypeOK, Threads
  <2> QED
    BY <1>6, <2>1, SummonPreservesInv DEF resumeSummonHorsesToPaddock
<1> QED
  BY <1>1, <1>2, <1>3, <1>4, <1>5, <1>6, <1>u DEF Next

LEMMA SpecInv == Spec => []Inv
  BY InitInv, NextInv, PTL DEF Spec

(* Every variable of the stable keeps its type: currentRaceNumber, the     *)
(* arguments of the pending calls and the arrivals stay within the event.  *)
THEOREM StableTypeOK == Spec => []TypeOK
<1>1. Inv => TypeOK
  BY DEF Inv
<1> QED
  BY <1>1, SpecInv, PTL

(* No wakeup is lost in the stable: a sleeping thread still has to wait.   *)
THEOREM StableNoMissedSignal == Spec => []NoMissedSignal
<1>1. Inv => NoMissedSignal
  BY DEF Inv
<1> QED
  BY <1>1, SpecInv, PTL

(* The broker summons no race before a whole batch of horses has arrived.  *)
THEOREM StableSummonAfterFirstBatch == Spec => []SummonAfterFirstBatch
<1>1. Inv => SummonAfterFirstBatch
  BY DEF Inv
<1> QED
  BY <1>1, SpecInv, PTL
=============================================================================
