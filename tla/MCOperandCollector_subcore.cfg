CONSTANTS
  SP = SP
  SFU = SFU
  NoInst = NoInst
  Ports <- MCPorts
  PortOrder <- MCPortOrder
  NumCU = 2
  NumBanks = 2
  BankWarpShift = 0
  SubCoreModel = TRUE
  NumWarpScheds = 4
  Warps = {0, 1}
  Insts <- MCInsts
  Latency <- MCLatency
  MaxIssue = 3
SPECIFICATION Spec
INVARIANT NoTrap
