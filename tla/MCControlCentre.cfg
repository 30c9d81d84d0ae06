\* Two spectators that may watch or wait for different races at once, and
\* enough finishers for two races between two resets.
CONSTANTS
  HorseJockeys = {h1, h2}
  Spectators = {s1, s2}
  Broker = broker
  NoHorse = noHorse
  NUMBER_OF_RACES = 2
SPECIFICATION Spec
SYMMETRY Symmetry
INVARIANTS TypeOK NoMissedSignal WinnerGoesWithFinishers
