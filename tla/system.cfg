SPECIFICATION FairSpec
CONSTANTS
  N = 3
  Proc <- MCProc
  Line = {0}
  Home <- MCHome
  ScanLimit = 4
  TagLimit = 1
  InterDelay = 3
  NoPacket = NoPacket
  StaleCountDown = {0}
  MaxPackets = 4
PROPERTIES
  ImplementsCoherence
  EveryOperationCompletes
