SPECIFICATION FairSpec
CONSTANTS
  N = 8
  Proc = {0, 4}
  Line = {4}
  Home <- MCHome
  ScanLimit = 4
  TagLimit = 1
  MaxPackets = 2
PROPERTIES
  EveryOperationCompletes
