CONSTANTS
  SP = SP
  SFU = SFU
  NoInst = NoInst
  Ports <- MCPorts
  PortOrder <- MCPortOrder
  NumCU = 2
  NumBanks = 2
  BankWarpShift = 0
  SubCoreModel = FALSE
  NumWarpScheds = 1
  Warps = {0, 1}
  Insts <- MCInsts
  Latency <- MCLatencyEqual
  MaxIssue = 3
SPECIFICATION Spec
PROPERTY RetireInProgramOrder
