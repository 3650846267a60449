SPECIFICATION Spec
CONSTANTS
  n1 = n1
  n2 = n2
  n3 = n3
  n4 = n4
  a1 = a1
  a2 = a2
  a3 = a3
  a4 = a4
  a5 = a5
  Names = {n1, n2, n3, n4}
  Arrays = {a1, a2, a3, a4, a5}
  strHash <- MCHash
  zName <- MCName
  Empty = Empty
  Removed = Removed
  NoArray = NoArray
  InitialSize = 3
INVARIANT ArrayFound
INVARIANT RoomIsLeft
PROPERTY FreedWithItsEntry
CHECK_DEADLOCK FALSE
