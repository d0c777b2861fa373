SPECIFICATION Spec
CONSTANTS
  None = None
  Specs <- JustNamedLogin
  Defs <- JustValheim
  MaxEdits = 5
INVARIANT LoginSucceeds
CHECK_DEADLOCK FALSE
