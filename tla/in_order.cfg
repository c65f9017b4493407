SPECIFICATION FairSpec
CONSTANTS
  s = 1
  E = 2
  b = 1
  u = 1
  k = 1
  AgeBits = 3
  HitDelay = 1
  MissDelay = 2
  WriteBackDelay = 1
  Tag = {0, 1, 2}
  sBits = 1
  bBits = 2
  Target = {8, 12, 24, 28}
  N = 2
  Setups <- MCSetups
  Stale <- MCStale
  NoTag = NoTag
  TagLimit = 2
  AgeLimit = 3
INVARIANTS
  TypeOK
  HeldOnce
  BytesAreCached
  CounterKnowsTarget
PROPERTIES
  ImplementsLRU
  SizedOperationsReturn
