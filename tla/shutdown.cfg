\* Two late horses, the two servers they need, and two counted requests to
\* each of them.  All the processes end.
CONSTANTS
  HorseJockeys = {h1, h2}
  Spectators = {s1}
  Broker = broker
  NoHorse = noHorse
  NUMBER_OF_RACES = 1
  LateHorses = {h1, h2}
  ShutdownOrder <- TwoServers
SPECIFICATION Spec
INVARIANTS TypeOK StopsAfterTheLastRequest OnlyLateHorsesAreCutOff
PROPERTIES StopsOnceCounted AskersAreAnswered
CHECK_DEADLOCK FALSE
