CONSTANTS
  None = None
  Game = valheim
  Servers = {midgard}
  Games = {valheim}
  Defs <- OperatorDefs
  Specs <- OperatorSpecs
  Workloads <- ReadyOnly
  Networks <- AssignedOnly
  MaxEdits = 2
  Laggards = {}
  MaxFaults = 1
SPECIFICATION FairSpec
INVARIANTS TypeOK TemplatesAreValidated SettledInStep SettledInv
PROPERTIES
  UserActsSurvive
  EventuallyInStep DeletionCompletes NothingLeftBehind RejectionReported
CHECK_DEADLOCK FALSE
