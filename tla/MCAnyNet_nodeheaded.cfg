CONSTANTS
  Files <- MCFilesNodeHeaded
SPECIFICATION Spec
PROPERTY Termination
