\* Two horses that need two or three moves, and a second race of another length.
CONSTANTS
  HorseJockeys = {h1, h2}
  Spectators = {s1}
  Broker = broker
  NoHorse = noHorse
  NUMBER_OF_RACES = 2
  Distances = {3, 4}
  Abilities = {2}
SPECIFICATION Spec
SYMMETRY Symmetry
INVARIANTS TypeOK NoMissedSignal OneTurnEach
CHECK_DEADLOCK FALSE
