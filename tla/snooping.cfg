SPECIFICATION FairSpec
CONSTANTS
  N = 3
  Line = {0, 1}
  Writers = {0, 1}
  Accesses <- MCAccesses
  Schemes = {"MI", "MSI", "MESI", "MOESI", "MESIF"}
  CacheDelay = 1
  CacheTransfer = 1
  BusTime = 2
  None = None
INVARIANTS
  TypeOK
  WaitersHaveOneRequest
  AssertsHold
PROPERTIES
  RoundRobin
  ImplementsReadersWriters
  BusOwnerGoesOn
