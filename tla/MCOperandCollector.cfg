CONSTANTS
  SP = SP
  SFU = SFU
  NoInst = NoInst
  Ports <- MCPorts
  PortOrder <- MCPortOrder
  NumCU = 2
  NumBanks = 2
  BankWarpShift = 0
  SubCoreModel = FALSE
  NumWarpScheds = 1
  Warps = {0, 1}
  Insts <- MCInsts
  Latency <- MCLatency
  MaxIssue = 3
SPECIFICATION Spec
INVARIANT TypeOK
INVARIANT PendingOperandsQueued
INVARIANT InstructionConservation
PROPERTY EveryIssuedRetires
