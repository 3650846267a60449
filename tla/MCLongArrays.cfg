SPECIFICATION Spec
CONSTANTS
  x = x
  Names = {x}
  AutoNames <- MCAutoNames
  Arrays = {a1, a2}
  VTables = {v1, v2, v3, v4}
  Stmts = {s1, s2}
  NoName = NoName
  NoArray = NoArray
  NoVTable = NoVTable
  NoStmt = NoStmt
  NoMark = NoMark
SYMMETRY Symmetric
INVARIANT TableIsItsArrays
INVARIANT CursorSafe
INVARIANT FreedLeavesNothing
PROPERTY RowsStayUnderCursor
PROPERTY TableAfterBindUnlessOutlived
CHECK_DEADLOCK FALSE
