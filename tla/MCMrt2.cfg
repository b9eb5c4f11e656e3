CONSTANTS
  MaxVif = 3
  HostVif = {3}
  RouterVif = {3}
  Source <- MCSource
  Group = {g1}
  Incoming <- MCIncoming
  NextHop <- MCNextHop
  StaleWords <- MCNoWords
  StaleNext <- MCNoNext
  MaxN = 1
  MaxPending = 5
  MaxHolding = 1
  MaxBatch = 1
  MaxDrift = 1
SPECIFICATION Spec
PROPERTIES UpstreamIsTold OnlyPruneStops
CHECK_DEADLOCK FALSE
