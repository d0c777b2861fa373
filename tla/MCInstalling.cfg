CONSTANTS
  None = None
  MaxEvents = 3
  MaxFaults = 0
SPECIFICATION Spec
PROPERTY InstallingReported
CHECK_DEADLOCK FALSE
