SPECIFICATION Spec
CONSTANTS
  None = None
  Jobs <- MCJobs
  Amounts = {1, 2}
  MaxTime = 3
INVARIANTS
  
  StopsWithinAStride
  BudgetsAreExact
PROPERTIES
  CancelledCallsReturn
