\* Two spectators in three races of one horse, of two abilities: a first, a
\* middle and a last race.
\* The event ends, or hangs.
CONSTANTS
  HorseJockeys = {h1}
  Spectators = {s1, s2}
  Broker = broker
  NoHorse = noHorse
  NUMBER_OF_RACES = 3
  Distances = {3}
  Abilities = {1, 2}
  InitialMoney = {4}
  Portions <- MCPortions
  MaxMoney = 20
SPECIFICATION Spec
SYMMETRY Symmetry
INVARIANTS AcceptedMeansAllBet HonouredMeansAllArrived OddsOfTheRunners
PROPERTIES RaceAfterTheBets BettingCentreUse BetsAreSettled
CHECK_DEADLOCK FALSE
