SPECIFICATION FairSpec
CONSTANTS
  None = None
  Specs <- JustMidgard
  Defs <- TwoApps
  MaxEdits = 3
PROPERTY DiffsApplied
CHECK_DEADLOCK FALSE
