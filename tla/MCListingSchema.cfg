SPECIFICATION Spec
CONSTANTS
  c1 = c1
  c2 = c2
  None = None
  Calls = {c1, c2}
  PageSize = 2
  Floor = 1
  Limit = 4
  First <- MCFirst
  Owned = {3, 4}
  MaxEdits = 1
INVARIANTS
  CachedSchemaIsWhole
CHECK_DEADLOCK FALSE
