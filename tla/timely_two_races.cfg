\* Two horses and two spectators in two races.
\* Nobody is late.
\* The event ends, or hangs.
CONSTANTS
  HorseJockeys = {h1, h2}
  Spectators = {s1, s2}
  Broker = broker
  NoHorse = noHorse
  NUMBER_OF_RACES = 2
  Distances = {2}
  Abilities = {1}
  InitialMoney = {4}
  Portions <- MCPortions
  MaxMoney = 20
  Assumed <- NobodyLate
SPECIFICATION TimelySpec
SYMMETRY Symmetry
INVARIANTS StuckOnlyAtTheEnd CrossedIsRemembered
PROPERTIES MeetingKeepsOrder BetsAreSettled
CHECK_DEADLOCK FALSE
