CONSTANTS
  s0 = s0
  s1 = s1
  Streams <- MCStreams
  CommandLists <- AllCommandLists
  WindowSize = 2
  MaxConcurrent = 2
  CapEnabled = TRUE
SPECIFICATION Spec
INVARIANT TypeOK
INVARIANT StreamsSerialize
INVARIANT BusyStreamsMatchWindow
INVARIANT RetiredWereRun
INVARIANT AbortOnlyOnTrailingMemcpy
PROPERTY Termination
PROPERTY EveryKernelLaunched
