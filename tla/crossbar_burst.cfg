SPECIFICATION BurstSpec
CONSTANTS
  Proc <- MCProc
  Packet <- MCPacket
  NoPacket = NoPacket
  InterDelay = 10
  StaleCountDown = {0}
  MaxQueue = 2
INVARIANTS
  NoOverwrite
CHECK_DEADLOCK FALSE
