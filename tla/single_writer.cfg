SPECIFICATION Spec
CONSTANTS
  N = 2
  Proc <- MCProc
  Line = {0}
  Home <- MCHome
  ScanLimit = 4
  TagLimit = 1
  MaxPackets = 2
INVARIANTS
  SingleWriter
