SPECIFICATION Spec
CONSTANTS
  b1 = b1
  b2 = b2
  b3 = b3
  b4 = b4
  k1 = k1
  k2 = k2
  s1 = s1
  s2 = s2
  p1 = p1
  p2 = p2
  NoBuffer = NoBuffer
  NoStream = NoStream
  NoStmt = NoStmt
  Buffers = {b1, b2, b3, b4}
  Streams = {k1, k2}
  Stmts = {s1, s2}
  Params = {p1, p2}
  Sizes = {1024, 2048}
  Requests = {0, 1023}
  MAX_POOLED_DIRECT_BUFFER_SIZE = 3072
INVARIANT ValuesAreStable
INVARIANT UseCountExact
INVARIANT MemoryIsOwned
INVARIANT CachedIsUnbound
SYMMETRY Symmetry
CHECK_DEADLOCK FALSE
