CONSTANTS
  None = None
  Game = valheim
  Servers = {midgard}
  Games = {}
  Defs <- NoDefs
  Specs <- StaleSpecs
  Workloads <- ReadyOnly
  Networks <- AssignedOnly
  MaxEdits = 2
  Laggards = {"ConfigMap", "PVC", "StatefulSet", "Service"}
  MaxFaults = 1
SPECIFICATION FairSpec
INVARIANT SettledInStep
PROPERTIES
   EventuallyInStep NothingLeftBehind RejectionReported
CHECK_DEADLOCK FALSE
