CONSTANTS
  Router = {"r1", "r2"}
  Holdtime <- MCHoldtime
  MaxEntry = 3
  Options <- MCOptions
  Period = 2
  Polite = {"r2"}
SPECIFICATION HelloSpec
INVARIANTS EveryNeighborTimed
PROPERTIES KeptWhileHeard Converges
CHECK_DEADLOCK FALSE
