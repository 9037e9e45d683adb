SPECIFICATION FairSpec
CONSTANTS
  k1 = k1
  k2 = k2
  Threads = {t1, t2}
  Keys = {k1, k2}
  Objs = {o1, o2, o3}
  Nobody = Nobody
  Absent = Absent
  Dead = Dead
  Limit = 3
  PolicyMax = {0, 1}
  Amounts = {1, 2}
  ObjectBytes = 1
  Deps <- NestedDeps
INVARIANTS
  WithinBudget
  ExactAccounting
  OneLiveView
PROPERTIES
  RequestsAnswered
