CONSTANTS
  Files <- MCFilesNodeLatency
SPECIFICATION Spec
INVARIANT ParseFaithful
