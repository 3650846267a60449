SPECIFICATION Spec
CONSTANTS
  t1 = t1
  t2 = t2
  q1 = q1
  NoThread = NoThread
  NoSQL = NoSQL
  Threads = {t1, t2}
  Cancellers = {t1, t2}
  SQLs = {q1}
  MaxStatements = 2
  Assertions = TRUE
PROPERTY InterruptHitsItsTarget
CHECK_DEADLOCK FALSE
