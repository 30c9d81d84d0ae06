\* What a comment of the code says: two requests to one server.
\* All the processes end.
CONSTANTS
  HorseJockeys = {h1, h2}
  Spectators = {s1}
  Broker = broker
  NoHorse = noHorse
  NUMBER_OF_RACES = 1
  LateHorses = {}
  ShutdownOrder <- TwoServers
SPECIFICATION Spec
INVARIANTS CountsTheRequests
CHECK_DEADLOCK FALSE
