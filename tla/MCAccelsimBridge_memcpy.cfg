CONSTANTS
  s0 = s0
  s1 = s1
  Streams <- MCStreams
  CommandLists <- AllCommandLists
  WindowSize = 1
  MaxConcurrent = 1
  CapEnabled = FALSE
SPECIFICATION Spec
INVARIANT NoAbort
