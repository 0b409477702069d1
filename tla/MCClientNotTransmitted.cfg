SPECIFICATION Spec
CONSTANTS
  r1 = r1
  r2 = r2
  b1 = b1
  Request <- OneRequest
  Bucket <- OneBucket
  Capacity <- NarrowCapacity
  Window <- ShortWindow
  Max429 <- OneRetry
  Age <- AllAges
  Answer <- Answers
  TotalS = 5
  TailS = 1
  MaxTime = 5
  OtherBudgets = 0
  HttpTimeout = 2
  StickyThreshold = 2
  StickyWindow = 2
  Replays = 1
  BackoffBase = 1
  BackoffFactor = 2
  BackoffMax = 3
  RetryAfterLow = 1
  RetryAfterHigh = 2
  ReplayBase = 1
INVARIANTS
  NotTransmittedMeansUnchanged
CHECK_DEADLOCK FALSE
