---------------------- MODULE SimulationConfigurations ----------------------
(***************************************************************************)
(* The size of an event.  The code numbers horses and spectators from 0;   *)
(* an identification is only ever compared with another one or used as an  *)
(* array index, so here the identifications are arbitrary values.          *)
(***************************************************************************)
EXTENDS Integers, FiniteSets

CONSTANTS
  HorseJockeys,     \* identifications of the pairs Horse/Jockey of one race
  Spectators,       \* identifications of the spectators
  Broker,           \* the one broker
  NoHorse,          \* the identification -1: no pair Horse/Jockey
  NUMBER_OF_RACES   \* races of the event

ASSUME ConfigurationAssumption ==
  /\ IsFiniteSet(HorseJockeys)
  /\ IsFiniteSet(Spectators)
  /\ HorseJockeys # {}
  /\ Spectators # {}
  /\ HorseJockeys \cap Spectators = {}
  /\ Broker \notin HorseJockeys \cup Spectators
  /\ NoHorse \notin HorseJockeys
  /\ NUMBER_OF_RACES \in Nat \ {0}

NUMBER_OF_PAIRS_HORSE_JOCKEY == Cardinality(HorseJockeys)
NUMBER_OF_SPECTATORS == Cardinality(Spectators)

Races == 0 .. NUMBER_OF_RACES - 1
=============================================================================
