SPECIFICATION Spec
CONSTANTS
  N = 3
  Line = {0}
  Writers = {}
  Accesses <- MCAccesses
  Schemes = {"MESI"}
  CacheDelay = 1
  CacheTransfer = 1
  BusTime = 2
  None = None
INVARIANTS
  ExclusiveIsAlone
