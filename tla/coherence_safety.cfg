SPECIFICATION Spec
CONSTANTS
  N = 3
  Proc <- MCProc
  Line = {0}
  Home <- MCHome
  ScanLimit = 4
  TagLimit = 2
  MaxPackets = 3
INVARIANTS
  TypeOK
  CallbackFindsRequest
  OneRequestPerStall
  AnswerOnItsWay
  StrayDataFindsHomeCached
PROPERTIES
  SurplusNeverShrinks
