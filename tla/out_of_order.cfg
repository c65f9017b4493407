SPECIFICATION FairSpec
CONSTANTS
  r1 = r1
  NoReg = NoReg
  Reg <- MCReg
  Op <- MCOp
  D = 1
  F = 2
  M = 1
  J = 2
  K = 1
  C = 1
  Latency = {0, 2}
  MaxIns = 4
INVARIANTS
  OutOfOrderTypeOK
  HandedOutOnce
  QueuesHaveRoom
  NoLostWakeup
  MispredictHoldsFetch
  CallbackMatchesHead
PROPERTIES
  ExecutesByDataflow
  SizedProgramsComplete
