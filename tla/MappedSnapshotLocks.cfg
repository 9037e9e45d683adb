CONSTANTS
  Threads = {t1, t2}
  Keys = {encoded, hierarchy}
  Borrowing = {encoded}
  Nobody = nobody
SPECIFICATION Spec
INVARIANT
  NoLockCycle
CHECK_DEADLOCK FALSE
