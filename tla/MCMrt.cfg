CONSTANTS
  MaxVif = 2
  HostVif = {2}
  RouterVif = {2}
  Source <- MCSource
  Group = {g1}
  Incoming <- MCIncoming
  NextHop <- MCNextHop
  StaleWords = {{}, {2}}
  StaleNext = {TRUE, FALSE}
  MaxN = 2
  MaxPending = 4
  MaxHolding = 2
  MaxBatch = 2
  MaxDrift = 1
SPECIFICATION Spec
INVARIANTS TypeOK MfcMatches EntryExpires GraftRetried
PROPERTIES UpstreamIsTold OneLifetime
CHECK_DEADLOCK FALSE
