\* Two spectators in three races of one horse, of two lengths, with the log.
\* Nobody is late.
\* The event ends, or hangs.
CONSTANTS
  HorseJockeys = {h1}
  Spectators = {s1, s2}
  Broker = broker
  NoHorse = noHorse
  NUMBER_OF_RACES = 3
  Distances = {2, 3}
  Abilities = {1}
  InitialMoney = {4}
  Portions <- MCPortions
  MaxMoney = 20
  Assumed <- NobodyLate
SPECIFICATION LoggedSpec
INVARIANTS SupervisionLasts AppraisalLasts LogTypeOK BetsArePrinted RunIsPrinted QueueMembers
PROPERTIES EventCompletes MeetingTakesItsCourse RacingTrackUse
CHECK_DEADLOCK FALSE
