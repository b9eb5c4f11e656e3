CONSTANTS
  Packet <- MCPacket
SPECIFICATION Spec
INVARIANTS ReadAsSent AckOfFirst NoneTwice
CHECK_DEADLOCK FALSE
