CONSTANTS
  None = None
  Games = {valheim, rust}
  Defs <- MCDefs
  MaxEdits = 3
  MaxFaults = 1
SPECIFICATION DefSpec
INVARIANTS DefTypeOK DefSettledAccurate DefSettledInv
PROPERTIES ReadyOnlyWhenValid ReadyEventuallyAccurate
CHECK_DEADLOCK FALSE
