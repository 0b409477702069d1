SPECIFICATION Spec
CONSTANTS
  r1 = r1
  r2 = r2
  r3 = r3
  p1 = p1
  p2 = p2
  n1 = n1
  None = None
  Readers = {r1, r2, r3}
  Pages = {p1, p2}
  Names = {n1}
  Asked <- MCAsked
  GlobalCap = 2
  PageCap = 1
  NoId = {r3}
  NoStamp = {r3}
  MaxEdits = 1
  MaxMoves = 1
INVARIANTS
  OneWriterPerBlob
CHECK_DEADLOCK FALSE
