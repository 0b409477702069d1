SPECIFICATION FairSpec
CONSTANTS
  r1 = r1
  r2 = r2
  b1 = b1
  Request <- TwoRequests
  Bucket <- OneBucket
  Capacity <- NarrowCapacity
  Window <- ShortWindow
  Max429 <- OneRetry
  Age <- AllAges
  Answer <- Answers
  TotalS = 4
  TailS = 1
  MaxTime = 4
  OtherBudgets = 1
  HttpTimeout = 1
  StickyThreshold = 2
  StickyWindow = 1
  Replays = 1
  BackoffBase = 1
  BackoffFactor = 2
  BackoffMax = 3
  RetryAfterLow = 1
  RetryAfterHigh = 2
  ReplayBase = 1
INVARIANTS
  DeclaredReplaysOnly
  BudgetsAreSeparate
  StickyIsEarned
PROPERTIES
  SendsAreMetered
  ImplementsDelivery
  EveryRequestSettles
CHECK_DEADLOCK FALSE
