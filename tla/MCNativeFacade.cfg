CONSTANTS
  None = None
  Preparations <- MCPreparations
  Threads = {t1, t2}
  Handles = {h1}
  MaxCount = 2
  MaxProcesses = 3
SPECIFICATION Spec
INVARIANTS
  PreparationIsExact
  PagesAreExact
  CountersAreExact
PROPERTIES
  CallsReturn
CHECK_DEADLOCK FALSE
