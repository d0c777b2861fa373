CONSTANTS
  None = None
  Game = valheim
  Servers = {midgard}
  Games = {}
  Defs <- NoDefs
  Specs <- FallbackSpecs
  Workloads <- ReadyOnly
  Networks <- AssignedOnly
  MaxEdits = 3
  Laggards = {"StatefulSet"}
  MaxFaults = 1
SPECIFICATION FairSpec
INVARIANTS SettledInStep FinalizerGuards FinalizerInv LifecycleInv
PROPERTIES ImplementsLifecycle NothingLeftBehind
CHECK_DEADLOCK FALSE
