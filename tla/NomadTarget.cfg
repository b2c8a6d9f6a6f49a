SPECIFICATION FairSpec
CONSTANTS
  j1 = j1
  j2 = j2
  c1 = c1
  c2 = c2
  Jobs = {j1, j2}
  Callers = {c1, c2}
INVARIANTS
  NoLeakedLoop
  CacheIsRefreshed

  
CHECK_DEADLOCK FALSE
