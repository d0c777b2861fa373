CONSTANTS
  None = None
  Game = valheim
  Servers = {midgard}
  Games = {valheim}
  Defs <- OneDef
  Specs <- SecretSpecs
  Workloads <- ReadyOnly
  Networks <- AssignedOnly
  MaxEdits = 1
  Laggards = {}
  MaxFaults = 0
SPECIFICATION Spec
PROPERTY RolloutOnlyOnChange
CHECK_DEADLOCK FALSE
