CONSTANTS
  Router <- MCRouter
  Retry = 3
  MaxCrashes = 3
SPECIFICATION Spec
INVARIANT OnePerPeriod
PROPERTIES EachIsIgmp OneQuerier LowestElected
