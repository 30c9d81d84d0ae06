\* Two spectators; bets of 0 and 1, so that a bet can be lost to rounding.
CONSTANTS
  HorseJockeys = {h1, h2}
  Spectators = {s1, s2}
  Broker = broker
  NoHorse = noHorse
  NUMBER_OF_RACES = 2
  Abilities = {2}
  BetAmounts = {0, 1}
  MaxMoneyOnSafe = 3
SPECIFICATION Spec
SYMMETRY Symmetry
INVARIANTS TypeOK NoMissedSignal QueueCountsBettors
CHECK_DEADLOCK FALSE
