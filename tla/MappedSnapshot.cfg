CONSTANTS
  Threads = {t1, t2, t3}
  Keys = {encoded, hierarchy}
  Borrowing = {encoded}
  Nobody = nobody
SPECIFICATION FairSpec
INVARIANTS
  LeasesKeepOpen
  CallbacksAfterUnmap
PROPERTIES
  DecodedOnce
  CloseReturns
CHECK_DEADLOCK FALSE
