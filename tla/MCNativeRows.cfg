SPECIFICATION Spec
CONSTANTS
  None = None
  PayloadBits = 2
  EncodeDepthCeiling = 9
  Jobs <- MCJobs
INVARIANTS
  ScopingIsCanonical
  TablesForgetHistory
  MemoryIsAccounted
  RowsSurviveComposition
  ColumnsAreExact
