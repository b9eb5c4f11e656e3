CONSTANTS
  Config <- MCConfig
  Address <- MCAddress
  Source <- MCSource
  NextHop <- MCNextHop
  MaxSocket = 2
SPECIFICATION Spec
INVARIANTS UpstreamOnIncoming OnItsSubnet
PROPERTIES GetsAnswer
CHECK_DEADLOCK FALSE
