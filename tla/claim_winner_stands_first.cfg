\* One spectator, two horses, one race.
\* What the comments of the code say, when nobody is late.
\* The event ends, or hangs.
CONSTANTS
  HorseJockeys = {h1, h2}
  Spectators = {s1}
  Broker = broker
  NoHorse = noHorse
  NUMBER_OF_RACES = 1
  Distances = {2}
  Abilities = {1}
  InitialMoney = {4}
  Portions <- MCPortions
  MaxMoney = 20
  Assumed <- NobodyLate
SPECIFICATION LoggedSpec
INVARIANTS WinnerStandsFirst
CHECK_DEADLOCK FALSE
