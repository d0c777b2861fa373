CONSTANTS
  None = None
  MaxEvents = 3
  MaxFaults = 1
SPECIFICATION FairSpec
INVARIANTS SettledAccurate StatusInv
PROPERTIES ReadyReported AddressReported
CHECK_DEADLOCK FALSE
