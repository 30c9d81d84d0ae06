\* Two batches of two horses and one spectator; two moves to the line.
\* The event ends, or hangs.
CONSTANTS
  HorseJockeys = {h1, h2}
  Spectators = {s1}
  Broker = broker
  NoHorse = noHorse
  NUMBER_OF_RACES = 2
  Distances = {2}
  Abilities = {1}
  InitialMoney = {4}
  Portions <- MCPortions
  MaxMoney = 20
SPECIFICATION Spec
SYMMETRY Symmetry
INVARIANTS TypeOK NoMissedSignal PaddockCountsHorses
PROPERTIES StableUse
CHECK_DEADLOCK FALSE
