SPECIFICATION FairSpec
CONSTANTS
  c1 = c1
  c2 = c2
  None = None
  Calls = {c1, c2}
  PageSize = 2
  Floor = 1
  Limit = 4
  First <- MCFirst
  Owned = {3, 4}
  MaxEdits = 1
INVARIANTS
  CompleteMeansWhole
  RowsComeOnce
  GuardMissesNothing
PROPERTIES
  EveryListingEnds
\* Each call is made once and ends: the system stops.
CHECK_DEADLOCK FALSE
