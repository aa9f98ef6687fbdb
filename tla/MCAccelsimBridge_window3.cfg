CONSTANTS
  s0 = s0
  s1 = s1
  Streams <- MCStreams
  CommandLists <- AllCommandLists
  WindowSize = 3
  MaxConcurrent = 3
  CapEnabled = FALSE
SPECIFICATION Spec
INVARIANT RetiredWereRun
