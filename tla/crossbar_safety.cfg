SPECIFICATION CrossbarSpec
CONSTANTS
  Proc = {n1, n2, n3}
  Data = {x}
  Packet <- MCPacket
  NoPacket = NoPacket
  InterDelay = 3
  StaleCountDown <- MCStale
  MaxQueue = 2
SYMMETRY MCSymmetry
INVARIANTS
  CrossbarTypeOK
  NoOverwrite
PROPERTIES
  IsIdealNetwork
