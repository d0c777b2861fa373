SPECIFICATION FairSpec
CONSTANTS
  None = None
  Specs <- GoodSpecs
  Defs <- GoodDefs
  MaxEdits = 5
INVARIANTS FilesReachTheGame FilesInv
PROPERTIES ArgsAsAsked GameComesUp
CHECK_DEADLOCK FALSE
