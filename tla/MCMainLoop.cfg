CONSTANTS
  SEC = 3
  Period = 2
  Other = {"o1"}
  Delays <- MCDelays
  MaxBusy = 1
SPECIFICATION Spec
INVARIANTS NothingLost NotEarly NotLate
PROPERTIES ShutsDown
CHECK_DEADLOCK FALSE
