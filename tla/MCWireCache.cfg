SPECIFICATION Spec
CONSTANTS
  Processes = {p1, p2}
  Entries = {a, b}
  Exports = {x}
  MaxFiles = 3
  Plans <- MCPlans
  Nobody = nobody

  
PROPERTIES
  PublishersKeepValid
  
SYMMETRY Symmetry
