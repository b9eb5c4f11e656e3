CONSTANTS
  Router = {"d1", "d2"}
  JoinDelay = 1
  PIM_PRUNE_DELAY = 3
  PruneHold = 5
  PIM_GRAFT_TIMER = 3
  MaxChanges = 3
  MaxLost = 2
SPECIFICATION SubnetSpec
INVARIANTS SubnetTypeOK NotCutOff
PROPERTIES ForwardsAgain GraftsEnd
CHECK_DEADLOCK FALSE
