SPECIFICATION Spec
CONSTANTS
  None = None
  Specs <- JustMidgard
  Defs <- JustDefaultDir
  MaxEdits = 5
INVARIANT GameHasItsFiles
CHECK_DEADLOCK FALSE
