------------------------- MODULE ConfigurationProofs -------------------------
(* Facts about the size of an event and about sums over its horses, for the *)
(* proofs about the regions and the simulation.                             *)
EXTENDS SimulationConfigurations, FiniteSetTheorems, TLAPS

(* There is at least one horse, one spectator and one race.                 *)
LEMMA Sizes ==
  /\ NUMBER_OF_PAIRS_HORSE_JOCKEY \in Nat \ {0}
  /\ NUMBER_OF_SPECTATORS \in Nat \ {0}
  /\ NUMBER_OF_RACES \in Nat \ {0}
  /\ NUMBER_OF_PAIRS_HORSE_JOCKEY * NUMBER_OF_RACES \in Nat
  /\ NUMBER_OF_SPECTATORS * NUMBER_OF_RACES \in Nat
<1>1. Cardinality(HorseJockeys) \in Nat /\ Cardinality(HorseJockeys) # 0
  BY FS_CardinalityType, FS_EmptySet, ConfigurationAssumption DEF ConfigurationAssumption
<1>2. Cardinality(Spectators) \in Nat /\ Cardinality(Spectators) # 0
  BY FS_CardinalityType, FS_EmptySet, ConfigurationAssumption DEF ConfigurationAssumption
<1>3. NUMBER_OF_RACES \in Nat \ {0}
  BY ConfigurationAssumption DEF ConfigurationAssumption
<1>4. \A m, n \in Nat : m * n \in Nat
  OBVIOUS
<1> QED
  BY <1>1, <1>2, <1>3, <1>4 DEF NUMBER_OF_PAIRS_HORSE_JOCKEY, NUMBER_OF_SPECTATORS

(* The broker, the horses and the spectators are different clients.         *)
LEMMA DistinctClients ==
  /\ Broker \notin HorseJockeys
  /\ Broker \notin Spectators
  /\ HorseJockeys \cap Spectators = {}
BY ConfigurationAssumption DEF ConfigurationAssumption

(* The first race is one.                                                   *)
LEMMA FirstRace == 0 \in Races
BY ConfigurationAssumption DEF ConfigurationAssumption, Races

-----------------------------------------------------------------------------
(* Sums, as FoldFunction computes them.                                     *)

Picked(s) == CHOOSE x \in s : TRUE

(* f sums a over every subset of H, one element after the other.            *)
SumsUp(f, a, H) ==
  f = [s \in SUBSET H |-> IF s = {} THEN 0 ELSE a[Picked(s)] + f[s \ {Picked(s)}]]

(* f does so over the subsets of at most k elements.                        *)
SumsUpTo(f, a, H, k) ==
  \A s \in SUBSET H : Cardinality(s) <= k =>
     f[s] = IF s = {} THEN 0 ELSE a[Picked(s)] + f[s \ {Picked(s)}]

(* The least-number principle for a set, which unlike the one of           *)
(* NaturalsInduction takes no operator.                                     *)
LEMMA SmallestNat ==
  ASSUME NEW T \in SUBSET Nat, T # {}
  PROVE  \E n \in T : \A m \in T : n <= m
<1>1. \E n \in T : \A m \in T : ~(<<m, n>> \in OpToRel(<, Nat))
  BY NatLessThanWellFounded, WFMin
<1>2. PICK n \in T : \A m \in T : ~(<<m, n>> \in OpToRel(<, Nat))
  BY <1>1
<1>3. ASSUME NEW m \in T PROVE n <= m
  <2>1. m \in Nat /\ n \in Nat
    OBVIOUS
  <2>2. ~(m < n)
    BY <1>2, <2>1 DEF OpToRel
  <2> QED
    BY <2>1, <2>2
<1> QED
  BY <1>3

LEMMA PickedElement ==
  ASSUME NEW H, IsFiniteSet(H), NEW s \in SUBSET H, s # {}
  PROVE  /\ Picked(s) \in s
         /\ s \ {Picked(s)} \in SUBSET H
         /\ s \ {Picked(s)} # s
         /\ Cardinality(s) \in Nat
         /\ Cardinality(s \ {Picked(s)}) = Cardinality(s) - 1
         /\ Cardinality(s) <= Cardinality(H)
<1>1. Picked(s) \in s
  BY DEF Picked
<1>2. IsFiniteSet(s)
  BY FS_Subset
<1> QED
  BY <1>1, <1>2, FS_CardinalityType, FS_RemoveElement, FS_Subset

(* There is such a function: if not for the subsets of k elements, then    *)
(* for a least k, and the one for k - 1 can be extended.                    *)
LEMMA SumExists ==
  ASSUME NEW H, IsFiniteSet(H), NEW a \in [H -> Nat]
  PROVE  \E f \in [SUBSET H -> Nat] : SumsUp(f, a, H)
<1> DEFINE T == {k \in Nat : ~ \E f \in [SUBSET H -> Nat] : SumsUpTo(f, a, H, k)}
<1>0. \A s \in SUBSET H : Cardinality(s) \in Nat /\ IsFiniteSet(s)
                          /\ Cardinality(s) <= Cardinality(H)
  BY FS_Subset, FS_CardinalityType
<1>1. 0 \notin T
  <2> DEFINE f == [s \in SUBSET H |-> 0]
  <2>1. ASSUME NEW s \in SUBSET H, Cardinality(s) <= 0 PROVE s = {}
    BY <1>0, <2>1, FS_EmptySet
  <2>2. SumsUpTo(f, a, H, 0)
    BY <2>1 DEF SumsUpTo
  <2> QED
    BY <2>2
<1>2. ASSUME NEW k \in Nat, k \notin T PROVE k + 1 \notin T
  <2>1. PICK f \in [SUBSET H -> Nat] : SumsUpTo(f, a, H, k)
    BY <1>2
  <2> DEFINE Next(s) == IF s = {} THEN 0 ELSE a[Picked(s)] + f[s \ {Picked(s)}]
             g == [s \in SUBSET H |-> IF Cardinality(s) = k + 1 THEN Next(s) ELSE f[s]]
  <2>2. \A s \in SUBSET H : Next(s) \in Nat
    BY PickedElement
  <2> HIDE DEF Next
  <2>3. g \in [SUBSET H -> Nat]
    BY <2>2
  <2>4. \A s \in SUBSET H : Cardinality(s) <= k => f[s] = Next(s)
    BY <2>1 DEF SumsUpTo, Next
  <2>5. ASSUME NEW s \in SUBSET H, Cardinality(s) <= k + 1
        PROVE  g[s] = IF s = {} THEN 0 ELSE a[Picked(s)] + g[s \ {Picked(s)}]
    <3>1. g[s] = Next(s)
      <4>1. CASE Cardinality(s) = k + 1
        BY <4>1
      <4>2. CASE Cardinality(s) # k + 1
        <5>1. Cardinality(s) <= k
          BY <1>0, <2>5, <4>2
        <5> QED
          BY <2>4, <4>2, <5>1
      <4> QED
        BY <4>1, <4>2
    <3>2. CASE s = {}
      BY <3>1, <3>2 DEF Next
    <3>3. CASE s # {}
      <4>0. /\ s \ {Picked(s)} \in SUBSET H
            /\ Cardinality(s) \in Nat
            /\ Cardinality(s \ {Picked(s)}) = Cardinality(s) - 1
        BY <3>3, PickedElement
      <4>1. Cardinality(s \ {Picked(s)}) # k + 1
        BY <2>5, <4>0
      <4>2. g[s \ {Picked(s)}] = f[s \ {Picked(s)}]
        BY <4>0, <4>1
      <4> QED
        BY <3>1, <3>3, <4>2 DEF Next
    <3> QED
      BY <3>2, <3>3
  <2> HIDE DEF g
  <2>6. SumsUpTo(g, a, H, k + 1)
    BY <2>5 DEF SumsUpTo
  <2> QED
    BY <2>3, <2>6
<1>t. T \in SUBSET Nat
  OBVIOUS
<1>3. T = {}
  <2> HIDE DEF T
  <2> SUFFICES ASSUME T # {} PROVE FALSE
    OBVIOUS
  <2>1. PICK n \in T : \A m \in T : n <= m
    BY <1>t, SmallestNat
  <2>2. n \in Nat /\ n # 0
    BY <1>t, <1>1
  <2>3. n - 1 \in Nat /\ n - 1 \notin T /\ (n - 1) + 1 = n
    BY <2>1, <2>2
  <2> QED
    BY <1>2, <2>3
<1>4. Cardinality(H) \in Nat
  BY <1>0
<1>5. PICK f \in [SUBSET H -> Nat] : SumsUpTo(f, a, H, Cardinality(H))
  BY <1>3, <1>4
<1>6. \A s \in SUBSET H : f[s] = IF s = {} THEN 0 ELSE a[Picked(s)] + f[s \ {Picked(s)}]
  BY <1>0, <1>5 DEF SumsUpTo
<1> QED
  BY <1>6 DEF SumsUp

(* The sum of the abilities, from which evaluateOdds() computes the odds.   *)
LEMMA SumIsNat ==
  ASSUME NEW H, IsFiniteSet(H), NEW a \in [H -> Nat]
  PROVE  FoldFunction(+, 0, a) \in Nat
<1>1. PICK g \in [SUBSET H -> Nat] : SumsUp(g, a, H)
  BY SumExists
<1> DEFINE f == CHOOSE f : SumsUp(f, a, H)
<1>2. SumsUp(f, a, H)
  BY <1>1
<1>3. FoldFunction(+, 0, a) = f[H]
  <2>1. DOMAIN a = H
    OBVIOUS
  <2> QED
    BY <2>1 DEF FoldFunction, FoldFunctionOnSet, MapThenFoldSet, SumsUp, Picked
<1> HIDE DEF f
<1> DEFINE Bad == {k \in Nat : \E s \in SUBSET H : Cardinality(s) = k /\ f[s] \notin Nat}
<1>4. \A s \in SUBSET H : f[s] = IF s = {} THEN 0 ELSE a[Picked(s)] + f[s \ {Picked(s)}]
  BY <1>2 DEF SumsUp
<1>5. Bad = {}
  <2> SUFFICES ASSUME Bad # {} PROVE FALSE
    OBVIOUS
  <2>1. PICK n \in Bad : \A m \in Bad : n <= m
    BY SmallestNat
  <2>2. PICK s \in SUBSET H : Cardinality(s) = n /\ f[s] \notin Nat
    OBVIOUS
  <2>3. s # {}
    BY <1>4, <2>2
  <2>4. /\ Picked(s) \in H
        /\ s \ {Picked(s)} \in SUBSET H
        /\ Cardinality(s \ {Picked(s)}) = n - 1
        /\ n \in Nat /\ IsFiniteSet(s \ {Picked(s)})
    BY <2>2, <2>3, PickedElement, FS_Subset
  <2>5. f[s \ {Picked(s)}] \in Nat
    <3>1. n - 1 \in Nat
      BY <2>4, FS_CardinalityType
    <3>2. n - 1 \notin Bad
      BY <2>1, <2>4, <3>1
    <3> QED
      BY <2>4, <3>1, <3>2
  <2>6. f[s] = a[Picked(s)] + f[s \ {Picked(s)}]
    BY <1>4, <2>3
  <2> QED
    BY <2>2, <2>4, <2>5, <2>6
<1>6. H \in SUBSET H /\ Cardinality(H) \in Nat
  BY FS_CardinalityType
<1> QED
  BY <1>3, <1>5, <1>6
=============================================================================
