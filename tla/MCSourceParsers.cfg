CONSTANTS
  None = None
  Suites <- MCSuites
SPECIFICATION Spec
INVARIANTS
  PiecesReadAsDefined
  
  
