CONSTANTS
  Address = 5
  Router <- MCRouter
  Group = {g1, g2}
  MaxN = 2
SPECIFICATION Spec
INVARIANTS TypeOK OneRole OneCountdown
PROPERTIES TakesOver AskedTwice LeaveCompletes
