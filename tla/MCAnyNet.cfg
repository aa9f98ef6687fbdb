CONSTANTS
  Files <- MCFiles
SPECIFICATION Spec
INVARIANT TypeOK
INVARIANT RoutingCorrect
INVARIANT ParseFaithful
PROPERTY Termination
