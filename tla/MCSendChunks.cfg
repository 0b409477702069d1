SPECIFICATION FairSpec
CONSTANTS
  N = 3
  MAX_ROWS_PER_UPSERT = 2
  MAX_ROW_IDS_PER_DELETE = 3
  MaxRows <- MCMaxRows
  MaxRowBytes = 100
  MaxRequestBytes = 177
  KeyBytes = 12
  Batches <- MCBatches
  HeavyRow <- MCHeavyRow
  Wire <- MCWire
  Body <- MCBody
  ChunkCost = 2
  MaxCalls = 2
  TotalS = 3
  TailS = 1
  MaxTime = 3
INVARIANTS
  UnkeyedRowsReachOnce
  ReportIsTrue
  SendsAreBounded
  DeadDeadlineLosesNothing
  RowIdsAreTheirOwn
PROPERTIES
  PlanIsSendable
  ImplementsBatch
  EveryCallEnds
CHECK_DEADLOCK FALSE
