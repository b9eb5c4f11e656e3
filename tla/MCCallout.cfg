CONSTANTS
  Delays <- MCDelays
  Elapsed <- MCElapsed
  MaxId = 3
SPECIFICATION Spec
INVARIANT TypeOK
PROPERTIES ImplementsTimers EveryTimerRuns
CHECK_DEADLOCK FALSE
