SPECIFICATION Spec
CONSTANTS
  MaxRdfListLength = 3
  MaxNestingDepth = 3
  MaxAxioms = 12
  NameOrder <- MCNameOrder
  OwlNames <- MCOwlNames
  Graphs <- MCGraphs
  Options <- MCOptions
INVARIANTS
  AnchorsNameTheirRoots
  
PROPERTY
  SyntaxIndependence
CHECK_DEADLOCK FALSE
