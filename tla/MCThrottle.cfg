SPECIFICATION FairSpec
CONSTANTS
  c1 = c1
  c2 = c2
  c3 = c3
  b1 = b1
  Caller <- HerdCaller
  Bucket <- HerdBucket
  Capacity <- HerdCapacity
  Window <- HerdWindow
  TotalS = 4
  TailS = 1
  MaxTime = 5
INVARIANTS
  WindowBound
  NoNeedlessSleep
PROPERTIES
  RefusalIsForced
  EveryAcquireSettles
CHECK_DEADLOCK FALSE
