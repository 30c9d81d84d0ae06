\* One spectator, one horse, one race.
\* What a comment of the code says, when only one thing is late.
\* The event ends, or hangs.
CONSTANTS
  HorseJockeys = {h1}
  Spectators = {s1}
  Broker = broker
  NoHorse = noHorse
  NUMBER_OF_RACES = 1
  Distances = {3}
  Abilities = {2}
  InitialMoney = {4}
  Portions <- MCPortions
  MaxMoney = 20
  Assumed <- LateForTheFinish
SPECIFICATION TimelySpec
PROPERTIES SupervisionEnds
CHECK_DEADLOCK FALSE
