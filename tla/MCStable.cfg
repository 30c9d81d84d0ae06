\* Two horses, three races: a first race, a middle one and a last one.
CONSTANTS
  HorseJockeys = {h1, h2}
  Spectators = {s1}
  Broker = broker
  NoHorse = noHorse
  NUMBER_OF_RACES = 3
SPECIFICATION Spec
SYMMETRY Symmetry
INVARIANTS TypeOK NoMissedSignal SummonAfterFirstBatch
CHECK_DEADLOCK FALSE
