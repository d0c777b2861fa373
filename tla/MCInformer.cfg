SPECIFICATION FairSpec
CONSTANTS
  None = None
  Servers = {s1, s2}
  Values <- Mixed
  MaxEdits = 4
  MaxFaults = 1
INVARIANTS SettledServed NothingMissed
PROPERTIES ConfigSurvives ServedWhenReadable
CHECK_DEADLOCK FALSE
