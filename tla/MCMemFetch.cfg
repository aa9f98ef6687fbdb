CONSTANTS
  r1 = r1
  r2 = r2
  r3 = r3
  r4 = r4
  w1 = w1
  e1 = e1
  c1 = c1
  c2 = c2
  LineA = LineA
  LineB = LineB
  NoFetch = NoFetch
  Fetches <- MCFetchesL1
  Acc <- MCAcc
  IsWrite <- MCIsWrite
  Line <- MCLine
  Parent <- MCParent
  MshrEntries = 1
  MshrMaxMerge = 2
  MissQueueSize = 1
SPECIFICATION Spec
INVARIANT MshrOneInFlight
PROPERTY Conservation
