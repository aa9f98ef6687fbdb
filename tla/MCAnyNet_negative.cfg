CONSTANTS
  Files <- MCFilesNegative
SPECIFICATION Spec
PROPERTY Termination
