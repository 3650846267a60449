SPECIFICATION Spec
CONSTANTS
  t1 = t1
  t2 = t2
  q1 = q1
  q2 = q2
  NoThread = NoThread
  NoSQL = NoSQL
  Threads = {t1, t2}
  Cancellers = {}
  SQLs = {q1, q2}
  MaxStatements = 3
  Assertions = TRUE
INVARIANT HandleNotShared
INVARIANT HandleNotLost
INVARIANT CacheIsClean
INVARIANT RegistryIsExact
INVARIANT ClosesCleanly
PROPERTY ImplementsPool
SYMMETRY Symmetry
CHECK_DEADLOCK FALSE
